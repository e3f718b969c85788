-------------------------- MODULE DashboardProofs --------------------------
(***************************************************************************)
(* What the pages of the dashboard keep, part by part.  The inbox never    *)
(* shows or sends what it has of one thread, account or draft as another's;*)
(* then come the setter's page, the form of a campaign with its import, the*)
(* list of campaigns, and the thread whose switches the inbox has.  For any*)
(* accounts, threads, drafts, posts and rows, and for any bounds on clicks *)
(* and requests.                                                           *)
(***************************************************************************)
EXTENDS Dashboard, Sequences, FiniteSetTheorems, TLAPS

-----------------------------------------------------------------------------
(* The inbox: its invariant *)

OfThread == {"thread", "reload", "send", "act", "mode"}

\* A request asks for an account, and where it concerns a thread for a thread.
FlyingFits ==
  \A r \in flying :
    /\ r.kind \in Kinds /\ r.account \in Accounts
    /\ r.kind \in OfThread => r.thread \in Threads

ScreenFits ==
  /\ account \in Accounts
  /\ open \in Threads \cup {None} /\ view \in Threads \cup {None}
  /\ sending \in Threads \cup {None}
  /\ list \in Accounts \cup {None}

CachesFit ==
  /\ lists \in [Accounts -> Accounts \cup {None}]
  /\ pages \in [Threads -> Threads \cup {None}]

DraftsFit ==
  /\ last \in Nat /\ held \in [Threads -> Nat] /\ shown \in [Threads -> Nat]
  /\ \A t \in Threads : held[t] <= last /\ shown[t] <= last

InboxInv == FlyingFits /\ ScreenFits /\ CachesFit /\ DraftsFit /\ InboxHolds

-----------------------------------------------------------------------------
(* Requests *)

\* A request of one kind, for an account and a thread or none.
LEMMA RequestFields ==
  ASSUME NEW kind, NEW a, NEW t, NEW silent
  PROVE  /\ Request(kind, a, t, silent).kind = kind
         /\ Request(kind, a, t, silent).account = a
         /\ Request(kind, a, t, silent).thread = t
BY DEF Request

LEMMA RequestFits ==
  ASSUME NEW kind \in Kinds, NEW a \in Accounts, NEW t, NEW silent,
         kind \in OfThread => t \in Threads, NEW r, r = Request(kind, a, t, silent)
  PROVE  /\ r.kind \in Kinds /\ r.account \in Accounts
         /\ r.kind \in OfThread => r.thread \in Threads
BY RequestFields

LEMMA AccountIsPainted ==
  ASSUME NEW t \in Threads
  PROVE  AccountOf[t] \in Accounts
BY ThreadsHaveAccounts

LEMMA ActiveIsOpen ==
  ASSUME InboxInv, Active # None
  PROVE  Active \in Threads /\ Active = open
BY DEF InboxInv, ScreenFits, Active

-----------------------------------------------------------------------------
(* The steps *)

LEMMA InboxInit == Init => InboxInv
<1> SUFFICES ASSUME Init PROVE InboxInv
  OBVIOUS
<1>1. FlyingFits
  BY DEF Init, FlyingFits, Request, Kinds, OfThread
<1>2. ScreenFits /\ CachesFit /\ DraftsFit
  BY DEF Init, ScreenFits, CachesFit, DraftsFit
<1>3. InboxHolds
  BY DEF Init, InboxHolds, CachesAreTrue, ApprovedTextIsItsOwn
<1>4. QED
  BY <1>1, <1>2, <1>3 DEF InboxInv

\* Requests are added that fit.
LEMMA FlyFits ==
  ASSUME FlyingFits, NEW requests, Fly(requests),
         \A r \in requests : /\ r.kind \in Kinds /\ r.account \in Accounts
                             /\ r.kind \in OfThread => r.thread \in Threads
  PROVE  FlyingFits'
BY DEF FlyingFits, Fly

\* An answer that arrives, and what follows it.
LEMMA LandFits ==
  ASSUME InboxInv, NEW r, NEW kinds, Land(r, kinds)
  PROVE  /\ FlyingFits' /\ r \in flying /\ r.account \in Accounts
         /\ sending' \in Threads \cup {None}
         /\ r.kind \in OfThread => r.thread \in Threads
<1>1. /\ r \in flying /\ r.account \in Accounts
      /\ r.kind \in OfThread => r.thread \in Threads
  BY DEF Land, InboxInv, FlyingFits
<1>2. sending' \in Threads \cup {None}
  BY DEF Land, InboxInv, ScreenFits
<1> DEFINE next == Request("list", r.account, None, TRUE)
<1>3. next.kind \in Kinds /\ next.account \in Accounts /\ next.kind \notin OfThread
  BY <1>1 DEF Kinds, OfThread, Request
<1>4. \A x \in flying' : x \in flying \/ x = next
  BY DEF Land
<1> HIDE DEF next
<1>5. FlyingFits'
  BY <1>3, <1>4 DEF InboxInv, FlyingFits
<1>6. QED
  BY <1>1, <1>2, <1>5

LEMMA OwnerKeeps ==
  ASSUME InboxInv,
         \/ \E a \in Accounts : SelectAccount(a)
         \/ \E t \in Threads : OpenConversation(t)
         \/ Back \/ HandleSend \/ EditDraft \/ SetThreadMode
         \/ \E action \in {"approve", "dismiss"} : ActOnDraft(action)
  PROVE  InboxInv'
<1>1. /\ FlyingFits /\ ScreenFits /\ CachesFit /\ DraftsFit /\ InboxHolds
      /\ {"list", "thread", "states", "send", "act", "mode"} \subseteq Kinds
      /\ {"list", "states"} \cap OfThread = {}
  BY DEF InboxInv, Kinds, OfThread
<1>2. ASSUME NEW a \in Accounts, SelectAccount(a) PROVE InboxInv'
  <2> DEFINE again == IF open = None THEN {}
                        ELSE {Request("thread", a, open, pages[open] # None)}
             requests == again \cup {Request("list", a, None, TRUE),
                                     Request("states", a, None, TRUE)}
  <2>1. Fly(requests) /\ account' = a /\ open' = None /\ list' = lists[a]
    BY <1>2 DEF SelectAccount
  <2>2. view' = None \/ (open # None /\ view' = pages[open])
    BY <1>2 DEF SelectAccount
  <2>3. ASSUME NEW r \in requests
        PROVE  /\ r.kind \in Kinds /\ r.account \in Accounts
               /\ r.kind \in OfThread => r.thread \in Threads
    <3>1. CASE r \in again
      <4>1. open \in Threads /\ r = Request("thread", a, open, pages[open] # None)
        BY <1>1, <3>1 DEF ScreenFits
      <4>2. QED
        BY <1>1, <4>1, RequestFits
    <3>2. CASE r \notin again
      BY <2>3, <3>2 DEF Request, Kinds, OfThread
    <3>3. QED
      BY <3>1, <3>2
  <2> HIDE DEF requests
  <2>4. FlyingFits'
    BY <1>1, <2>1, <2>3, FlyFits
  <2>5. UNCHANGED <<lists, pages, sending, held, last, shown, edits, acted, busy>>
    BY <1>2 DEF SelectAccount, cacheVars, draftVars
  <2>6. ScreenFits' /\ CachesFit' /\ DraftsFit' /\ InboxHolds'
    BY <1>1, <2>1, <2>2, <2>5 DEF ScreenFits, CachesFit, DraftsFit, InboxHolds,
       CachesAreTrue, ApprovedTextIsItsOwn
  <2>7. QED
    BY <2>4, <2>6 DEF InboxInv
<1>3. ASSUME NEW t \in Threads, OpenConversation(t) PROVE InboxInv'
  <2>1. /\ open' = t /\ view' = pages[t]
        /\ flying' = flying \/ Fly({Request("thread", account, t, pages[t] # None)})
        /\ UNCHANGED <<account, list, lists, pages, sending, held, last, shown,
                       edits, acted, busy>>
    BY <1>3 DEF OpenConversation, cacheVars, draftVars
  <2>2. ASSUME NEW r, r = Request("thread", account, t, pages[t] # None)
        PROVE  /\ r.kind \in Kinds /\ r.account \in Accounts
               /\ r.kind \in OfThread => r.thread \in Threads
    BY <1>1, <2>2, RequestFits DEF ScreenFits
  <2>3. FlyingFits'
    <3>1. CASE flying' = flying
      BY <1>1, <3>1 DEF FlyingFits
    <3>2. CASE flying' # flying
      BY <1>1, <2>1, <2>2, <3>2, FlyFits
    <3>3. QED
      BY <3>1, <3>2
  <2>4. ScreenFits' /\ CachesFit' /\ DraftsFit' /\ InboxHolds'
    BY <1>1, <2>1 DEF ScreenFits, CachesFit, DraftsFit, InboxHolds,
       CachesAreTrue, ApprovedTextIsItsOwn
  <2>5. QED
    BY <2>3, <2>4 DEF InboxInv
<1>4. CASE Back
  BY <1>1, <1>4 DEF Back, cacheVars, draftVars, InboxInv, FlyingFits, ScreenFits,
     CachesFit, DraftsFit, InboxHolds, CachesAreTrue, ApprovedTextIsItsOwn
<1>5. CASE HandleSend \/ SetThreadMode
  <2>1. PICK kind \in {"send", "mode"} : Fly({Request(kind, account, Active, TRUE)})
    BY <1>5 DEF HandleSend, SetThreadMode
  <2>2. Active \in Threads
    BY <1>5, ActiveIsOpen DEF HandleSend, SetThreadMode
  <2>3. ASSUME NEW r, r = Request(kind, account, Active, TRUE)
        PROVE  /\ r.kind \in Kinds /\ r.account \in Accounts
               /\ r.kind \in OfThread => r.thread \in Threads
    BY <1>1, <2>2, <2>3, RequestFits DEF ScreenFits
  <2>4. FlyingFits'
    BY <1>1, <2>1, <2>3, FlyFits
  <2>5. /\ UNCHANGED <<account, open, list, view, lists, pages, held, last, shown, acted>>
        /\ sending' \in {sending, Active}
    BY <1>5 DEF HandleSend, SetThreadMode, shownVars, cacheVars, draftVars
  <2>6. ScreenFits' /\ CachesFit' /\ DraftsFit' /\ InboxHolds'
    BY <1>1, <2>2, <2>5 DEF ScreenFits, CachesFit, DraftsFit, InboxHolds,
       CachesAreTrue, ApprovedTextIsItsOwn
  <2>7. QED
    BY <2>4, <2>6 DEF InboxInv
<1>6. CASE EditDraft
  BY <1>1, <1>6 DEF EditDraft, shownVars, cacheVars, InboxInv, FlyingFits, ScreenFits,
     CachesFit, DraftsFit, InboxHolds, CachesAreTrue, ApprovedTextIsItsOwn
<1>7. ASSUME NEW action, ActOnDraft(action) PROVE InboxInv'
  <2> DEFINE d == shown[Active]
             edit == {e \in edits : e.thread = Active /\ e.draft = d}
             sent == [Request("act", account, Active, TRUE) EXCEPT !.draft = d]
  <2>1. /\ Active # None /\ Fly({sent})
        /\ acted' = IF action = "dismiss" THEN acted
                     ELSE [draft |-> d, text |-> IF edit = {} THEN d
                                                 ELSE (CHOOSE e \in edit : TRUE).draft]
        /\ UNCHANGED <<account, open, list, view, lists, pages, sending, held,
                       last, shown>>
    BY <1>7 DEF ActOnDraft, Act, shownVars, cacheVars
  <2>2. Active \in Threads
    BY <2>1, ActiveIsOpen
  <2>3. /\ sent.kind = "act" /\ sent.account = account /\ sent.thread = Active
    BY DEF Request
  <2> HIDE DEF sent
  <2>4. FlyingFits'
    BY <1>1, <2>1, <2>2, <2>3, FlyFits DEF ScreenFits
  <2>5. edit # {} => (CHOOSE e \in edit : TRUE).draft = d
    <3>1. edit # {} => (CHOOSE e \in edit : TRUE) \in edit
      OBVIOUS
    <3>2. QED
      BY <3>1
  <2> HIDE DEF edit, d
  <2>6. ApprovedTextIsItsOwn'
    BY <1>1, <2>1, <2>5 DEF InboxHolds, ApprovedTextIsItsOwn
  <2>7. ScreenFits' /\ CachesFit' /\ DraftsFit' /\ CachesAreTrue'
    BY <1>1, <2>1 DEF ScreenFits, CachesFit, DraftsFit, InboxHolds, CachesAreTrue
  <2>8. QED
    BY <2>4, <2>6, <2>7 DEF InboxInv, InboxHolds
<1>8. QED
  BY <1>2, <1>3, <1>4, <1>5, <1>6, <1>7

LEMMA PollKeeps ==
  ASSUME InboxInv, NEW kind \in {"list", "thread", "states"}, Poll(kind)
  PROVE  InboxInv'
<1> DEFINE r == Request(kind, account, IF kind = "thread" THEN open ELSE None, TRUE)
<1>1. /\ Fly({r}) /\ (kind = "thread" => open # None)
      /\ UNCHANGED <<account, open, list, view, lists, pages, sending, held, last,
                     shown, acted>>
  BY DEF Poll, shownVars, cacheVars, draftVars
<1>2. FlyingFits /\ ScreenFits /\ CachesFit /\ DraftsFit /\ InboxHolds
  BY DEF InboxInv
<1>3. /\ r.kind = kind /\ r.account = account
      /\ r.thread = IF kind = "thread" THEN open ELSE None
  BY DEF Request
<1> HIDE DEF r
<1>4. /\ r.kind \in Kinds /\ r.account \in Accounts
      /\ r.kind \in OfThread => r.thread \in Threads
  BY <1>1, <1>2, <1>3 DEF ScreenFits, Kinds, OfThread
<1>5. FlyingFits'
  BY <1>1, <1>2, <1>4, FlyFits
<1>6. ScreenFits' /\ CachesFit' /\ DraftsFit' /\ InboxHolds'
  BY <1>1, <1>2 DEF ScreenFits, CachesFit, DraftsFit, InboxHolds, CachesAreTrue,
     ApprovedTextIsItsOwn
<1>7. QED
  BY <1>5, <1>6 DEF InboxInv

\* Whatever arrives, and in whatever order, is kept under its own name.
LEMMA AnswerKeeps ==
  ASSUME InboxInv, NEW r \in flying, Ends(r)
  PROVE  InboxInv'
<1>1. /\ FlyingFits /\ ScreenFits /\ CachesFit /\ DraftsFit /\ InboxHolds
      /\ r.kind \in Kinds /\ r.account \in Accounts
      /\ r.kind \in OfThread => r.thread \in Threads
  BY DEF InboxInv, FlyingFits
<1>2. CASE ListArrives(r)
  <2>1. /\ Land(r, {"list"}) /\ list' = r.account
        /\ lists' = [lists EXCEPT ![r.account] = r.account]
        /\ UNCHANGED <<account, open, view, pages, held, last, shown, acted>>
    BY <1>2 DEF ListArrives, draftVars
  <2>2. FlyingFits' /\ sending' \in Threads \cup {None}
    BY <2>1, LandFits
  <2>3. /\ lists' \in [Accounts -> Accounts \cup {None}]
        /\ \A a \in Accounts : lists'[a] \in {None, a}
    BY <1>1, <2>1 DEF CachesFit, InboxHolds, CachesAreTrue
  <2>4. ScreenFits' /\ CachesFit' /\ DraftsFit' /\ InboxHolds'
    BY <1>1, <2>1, <2>2, <2>3 DEF ScreenFits, CachesFit, DraftsFit, InboxHolds,
       CachesAreTrue, ApprovedTextIsItsOwn
  <2>5. QED
    BY <2>2, <2>4 DEF InboxInv
<1>3. CASE ThreadArrives(r)
  <2>1. /\ Land(r, {"thread", "reload"}) /\ view' = r.thread
        /\ pages' = [pages EXCEPT ![r.thread] = r.thread]
        /\ UNCHANGED <<account, open, list, lists, held, last, shown, acted>>
    BY <1>3 DEF ThreadArrives, draftVars
  <2>2. FlyingFits' /\ sending' \in Threads \cup {None}
    BY <2>1, LandFits
  <2>3. r.thread \in Threads
    BY <1>1, <2>1 DEF Land, OfThread
  <2>4. /\ pages' \in [Threads -> Threads \cup {None}]
        /\ \A t \in Threads : pages'[t] \in {None, t}
    BY <1>1, <2>1, <2>3 DEF CachesFit, InboxHolds, CachesAreTrue
  <2>5. ScreenFits' /\ CachesFit' /\ DraftsFit' /\ InboxHolds'
    BY <1>1, <2>1, <2>2, <2>3, <2>4 DEF ScreenFits, CachesFit, DraftsFit, InboxHolds,
       CachesAreTrue, ApprovedTextIsItsOwn
  <2>6. QED
    BY <2>2, <2>5 DEF InboxInv
<1>4. CASE StatesArrive(r)
  <2>1. /\ Land(r, {"states"}) /\ shown' = HeldDrafts(r.account)
        /\ UNCHANGED <<account, open, list, view, lists, pages, held, last, acted>>
    BY <1>4 DEF StatesArrive, shownVars, cacheVars
  <2>2. FlyingFits' /\ sending' \in Threads \cup {None}
    BY <2>1, LandFits
  <2>3. DraftsFit'
    BY <1>1, <2>1 DEF DraftsFit, HeldDrafts
  <2>4. ScreenFits' /\ CachesFit' /\ InboxHolds'
    BY <1>1, <2>1, <2>2 DEF ScreenFits, CachesFit, InboxHolds, CachesAreTrue,
       ApprovedTextIsItsOwn
  <2>5. QED
    BY <2>2, <2>3, <2>4 DEF InboxInv
<1>5. CASE Sent(r)
  <2> DEFINE next == Request("reload", r.account, r.thread, TRUE)
  <2>1. /\ r.kind = "send" /\ flying' = (flying \ {r}) \cup {next}
        /\ UNCHANGED <<account, open, list, view, lists, pages, sending, held, last,
                       shown, acted>>
    BY <1>5 DEF Sent, shownVars, cacheVars, draftVars
  <2>2. /\ next.kind \in Kinds /\ next.account \in Accounts /\ next.thread \in Threads
    BY <1>1, <2>1 DEF Request, Kinds, OfThread
  <2> HIDE DEF next
  <2>3. FlyingFits'
    BY <1>1, <2>1, <2>2 DEF FlyingFits
  <2>4. ScreenFits' /\ CachesFit' /\ DraftsFit' /\ InboxHolds'
    BY <1>1, <2>1 DEF ScreenFits, CachesFit, DraftsFit, InboxHolds, CachesAreTrue,
       ApprovedTextIsItsOwn
  <2>5. QED
    BY <2>3, <2>4 DEF InboxInv
<1>6. CASE Refused(r) \/ Fails(r)
  <2>1. /\ \E kinds : Land(r, kinds)
        /\ UNCHANGED <<account, open, list, view, lists, pages, held, last, shown, acted>>
    BY <1>6 DEF Refused, Fails, cacheVars, draftVars
  <2>2. FlyingFits' /\ sending' \in Threads \cup {None}
    BY <2>1, LandFits
  <2>3. ScreenFits' /\ CachesFit' /\ DraftsFit' /\ InboxHolds'
    BY <1>1, <2>1, <2>2 DEF ScreenFits, CachesFit, DraftsFit, InboxHolds, CachesAreTrue,
       ApprovedTextIsItsOwn
  <2>4. QED
    BY <2>2, <2>3 DEF InboxInv
<1>7. CASE Acted(r) \/ ModeSet(r)
  <2> DEFINE thread == Request("thread", r.account, r.thread, TRUE)
             states == Request("states", r.account, None, TRUE)
  <2>1. /\ r.kind \in {"act", "mode"} /\ flying' \subseteq flying \cup {thread, states}
        /\ UNCHANGED <<account, open, list, view, lists, pages, sending, last, shown, acted>>
    BY <1>7 DEF Acted, ModeSet, shownVars, cacheVars
  <2>2. held' = held \/ held' = [held EXCEPT ![r.thread] = IF @ = r.draft THEN 0 ELSE @]
    BY <1>7 DEF Acted, ModeSet
  <2>3. /\ thread.kind \in Kinds /\ thread.account \in Accounts /\ thread.thread \in Threads
        /\ states.kind \in Kinds /\ states.account \in Accounts /\ states.kind \notin OfThread
    BY <1>1, <2>1 DEF Request, Kinds, OfThread
  <2> HIDE DEF thread, states
  <2>4. FlyingFits'
    BY <1>1, <2>1, <2>3 DEF FlyingFits
  <2>5. DraftsFit'
    BY <1>1, <2>1, <2>2 DEF DraftsFit
  <2>6. ScreenFits' /\ CachesFit' /\ InboxHolds'
    BY <1>1, <2>1 DEF ScreenFits, CachesFit, InboxHolds, CachesAreTrue,
       ApprovedTextIsItsOwn
  <2>7. QED
    BY <2>4, <2>5, <2>6 DEF InboxInv
<1>8. QED
  BY <1>2, <1>3, <1>4, <1>5, <1>6, <1>7 DEF Ends

LEMMA NewDraftKeeps ==
  ASSUME InboxInv, NEW t \in Threads, NewDraft(t)
  PROVE  InboxInv'
<1>1. FlyingFits /\ ScreenFits /\ CachesFit /\ DraftsFit /\ InboxHolds
  BY DEF InboxInv
<1>2. /\ last' = last + 1 /\ held' = [held EXCEPT ![t] = last + 1]
      /\ UNCHANGED <<account, open, list, view, lists, pages, sending, flying, shown, acted>>
  BY DEF NewDraft, shownVars, cacheVars
<1>3. DraftsFit'
  BY <1>1, <1>2 DEF DraftsFit
<1>4. FlyingFits' /\ ScreenFits' /\ CachesFit' /\ InboxHolds'
  BY <1>1, <1>2 DEF FlyingFits, ScreenFits, CachesFit, InboxHolds, CachesAreTrue,
     ApprovedTextIsItsOwn
<1>5. QED
  BY <1>3, <1>4 DEF InboxInv

-----------------------------------------------------------------------------
(* The theorems *)

\* What a request was sent for stays what its answer is kept under.
THEOREM InboxInvariance == Spec => []InboxInv
<1>1. Init => InboxInv
  BY InboxInit
<1>2. InboxInv /\ [Next]_vars => InboxInv'
  <2> SUFFICES ASSUME InboxInv, [Next]_vars PROVE InboxInv'
    OBVIOUS
  <2>1. CASE UNCHANGED vars
    BY <2>1 DEF vars, shownVars, cacheVars, draftVars, InboxInv, FlyingFits, ScreenFits,
       CachesFit, DraftsFit, InboxHolds, CachesAreTrue, ApprovedTextIsItsOwn
  <2>2. ASSUME NEW r \in flying, Ends(r) PROVE InboxInv'
    BY <2>2, AnswerKeeps
  <2>3. ASSUME NEW kind \in {"list", "thread", "states"}, Poll(kind) PROVE InboxInv'
    BY <2>3, PollKeeps
  <2>4. ASSUME NEW t \in Threads, NewDraft(t) PROVE InboxInv'
    BY <2>4, NewDraftKeeps
  <2>5. CASE \/ \E a \in Accounts : SelectAccount(a)
             \/ \E t \in Threads : OpenConversation(t)
             \/ Back \/ HandleSend \/ EditDraft \/ SetThreadMode
             \/ \E action \in {"approve", "dismiss"} : ActOnDraft(action)
    BY <2>5, OwnerKeeps
  <2>6. QED
    BY <2>1, <2>2, <2>3, <2>4, <2>5 DEF Next
<1>3. QED
  BY <1>1, <1>2, PTL DEF Spec

\* Every variable of the page has its type, whatever is answered after the owner
\* has gone elsewhere.
THEOREM InboxTypeCorrect == Spec => []TypeOK
<1>1. InboxInv => TypeOK
  BY DEF InboxInv, FlyingFits, ScreenFits, DraftsFit, TypeOK
<1>2. QED
  BY <1>1, InboxInvariance, PTL

\* Of any accounts, threads and drafts, in any order of the answers: the caches
\* hold what they are asked for, and an approval carries no other draft's text.
THEOREM InboxIsKept == Spec => []InboxHolds
<1>1. InboxInv => InboxHolds
  BY DEF InboxInv
<1>2. QED
  BY <1>1, InboxInvariance, PTL

-----------------------------------------------------------------------------
(* The setter's page: its invariant *)

Chosen == [of : Accounts \cup {None}, n : Nat]
Form == [mode : Chosen, rest : Chosen]
Saves == {"save", "saved"}
Own(f, a) == f.mode.of = a /\ f.rest.of = a

Actions == [kind : S!ActKinds, account : Accounts, reply : Replies,
            action : {"approve", "dismiss"}, was : S!Statuses, n : Nat]

\* A request asks for an account; a save carries a form, an action is about a draft.
SetterFlies ==
  \A r \in setterFlying :
    /\ r.account \in Accounts
    /\ r.kind \in Saves => r.sent \in Form /\ {"kind", "account", "sent"} \subseteq DOMAIN r
    /\ r.kind \in S!ActKinds => r \in Actions

SetterTypes ==
  /\ setterAccount \in Accounts /\ setterForm \in Form
  /\ setterConfig \in [Accounts -> Form]
  /\ {setterLoading, setterSaving, setterHasty} \subseteq BOOLEAN
  /\ setterSaveState \in {"idle", "saved", "error"}
  /\ setterBusy \in [Replies -> Nat] /\ setterClicks \in Nat
  /\ setterStatus \in [Replies -> S!Statuses] /\ setterSends \in [Replies -> Nat]
  /\ setterLost \subseteq Replies /\ setterDropped \subseteq Replies

\* One answer is waited for at a time, and that of the account selected: while the
\* settings load their load is under way, and no save.
OneLoad ==
  /\ \A r, q \in setterFlying : r.kind = "load" /\ q.kind = "load" => r = q
  /\ \A r \in setterFlying : r.kind = "load" => setterLoading /\ r.account = setterAccount
  /\ setterLoading => \E r \in setterFlying : r.kind = "load"

OneSave ==
  /\ \A r, q \in setterFlying : r.kind \in Saves /\ q.kind \in Saves => r = q
  /\ \A r \in setterFlying : r.kind \in Saves =>
       /\ setterSaving /\ ~ setterLoading /\ setterSaveState # "saved"
       /\ r.account = setterAccount /\ r.sent = setterForm
       /\ r.kind = "saved" => setterConfig[setterAccount] = setterForm

\* What the owner who waits has before him.
Waited ==
  /\ OneLoad /\ OneSave
  /\ \A a \in Accounts : Own(setterConfig[a], a)
  /\ ~ setterLoading => Own(setterForm, setterAccount)
  /\ setterSaveState = "saved" => setterConfig[setterAccount] = setterForm

\* The requests between their claim and the record of its outcome.
OnWay == {r \in setterFlying : r.kind \in S!Sending}

\* One handler at a time sends a draft, while its row is SENDING or was dismissed over
\* it; unless an outcome was lost it is the first, and a row whose draft is out
\* leaves no status to claim it from.
SentOnce ==
  /\ \A r, q \in OnWay : r.reply = q.reply => r = q
  /\ \A r \in OnWay :
       /\ setterStatus[r.reply] \in {"SENDING", "DISMISSED"} /\ r.reply \notin setterDropped
       /\ r.reply \notin setterLost =>
            setterSends[r.reply] = IF r.kind = "accepted" THEN 1 ELSE 0
  /\ \A x \in Replies \ setterLost :
       \/ setterSends[x] = 0
       \/ /\ setterSends[x] = 1
          /\ \/ setterStatus[x] \in {"SENT", "DISMISSED"}
             \/ \E r \in OnWay : r.kind = "accepted" /\ r.reply = x
  /\ \A x \in setterDropped : setterStatus[x] = "DISMISSED"

SetterInv == SetterTypes /\ SetterFlies /\ SentOnce /\ (~ setterHasty => Waited)

-----------------------------------------------------------------------------
(* The setter's page: its requests *)

LEMMA SetterRequest ==
  ASSUME NEW kind, NEW a
  PROVE  /\ S!Request(kind, a).kind = kind /\ S!Request(kind, a).account = a
         /\ \A f : /\ [S!Request(kind, a) EXCEPT !.sent = f].kind = kind
                   /\ [S!Request(kind, a) EXCEPT !.sent = f].account = a
                   /\ [S!Request(kind, a) EXCEPT !.sent = f].sent = f
                   /\ {"kind", "account", "sent"} \subseteq
                        DOMAIN [S!Request(kind, a) EXCEPT !.sent = f]
BY DEF S!Request

\* A request that goes on to another place is about the same draft.
LEMMA ActionGoesOn ==
  ASSUME NEW r \in Actions, NEW kind \in S!ActKinds, NEW was \in S!Statuses
  PROVE  /\ [r EXCEPT !.kind = kind] \in Actions
         /\ [r EXCEPT !.kind = kind].kind = kind
         /\ [r EXCEPT !.kind = kind].reply = r.reply
         /\ [r EXCEPT !.kind = kind, !.was = was] \in Actions
         /\ [r EXCEPT !.kind = kind, !.was = was].kind = kind
         /\ [r EXCEPT !.kind = kind, !.was = was].reply = r.reply
BY DEF Actions

\* What no handler that sends has touched.
LEMMA SendsStay ==
  ASSUME SentOnce, OnWay' = OnWay,
         UNCHANGED <<setterStatus, setterSends, setterLost, setterDropped>>
  PROVE  SentOnce'
BY DEF SentOnce

LEMMA SetterStarts == S!Init => SetterInv
<1> SUFFICES ASSUME S!Init PROVE SetterInv
  OBVIOUS
<1>1. /\ S!Default \in Form
      /\ \A a \in Accounts : S!Settings(S!Value(a, 0), S!Value(a, 0)) \in Form
                             /\ Own(S!Settings(S!Value(a, 0), S!Value(a, 0)), a)
  BY DEF S!Default, S!Settings, S!Value, Form, Chosen, Own
<1>2. /\ setterConfig = [a \in Accounts |-> S!Settings(S!Value(a, 0), S!Value(a, 0))]
      /\ setterForm = S!Default /\ setterAccount \in Accounts
      /\ setterLoading = TRUE /\ setterSaving = FALSE /\ setterHasty = FALSE
      /\ setterSaveState = "idle" /\ setterBusy = [r \in Replies |-> 0] /\ setterClicks = 0
      /\ setterLost = {} /\ setterDropped = {}
      /\ setterStatus = [r \in Replies |-> "HELD"] /\ setterSends = [r \in Replies |-> 0]
      /\ setterFlying = {S!Request("load", setterAccount), S!Request("feed", setterAccount)}
  BY DEF S!Init
<1>3. SetterTypes
  BY <1>1, <1>2 DEF SetterTypes, S!Statuses
<1>4. SetterFlies /\ OneLoad /\ OneSave /\ OnWay = {}
  <2> DEFINE load == S!Request("load", setterAccount)
             feed == S!Request("feed", setterAccount)
  <2>1. load.kind = "load" /\ load.account = setterAccount
        /\ feed.kind = "feed" /\ feed.account = setterAccount
    BY SetterRequest
  <2>2. setterFlying = {load, feed}
    BY <1>2
  <2> HIDE DEF load, feed
  <2>3. QED
    BY <1>2, <2>1, <2>2 DEF SetterFlies, OneLoad, OneSave, Saves, OnWay, S!Sending, S!ActKinds
<1>5. SentOnce
  BY <1>2, <1>4 DEF SentOnce
<1>6. QED
  BY <1>1, <1>2, <1>3, <1>4, <1>5 DEF SetterInv, Waited

\* A feed, an answer with rows or an action that comes or goes is nobody's wait.
LEMMA SetterFlow ==
  ASSUME SetterInv, SetterTypes', SentOnce',
         UNCHANGED <<setterAccount, setterForm, setterLoading, setterSaving,
                     setterSaveState, setterConfig, setterHasty>>,
         \A r \in setterFlying' \ setterFlying :
           /\ r.account \in Accounts /\ r.kind \in {"feed", "page"} \cup S!ActKinds
           /\ r.kind \in S!ActKinds => r \in Actions,
         \A r \in setterFlying \ setterFlying' : r.kind \notin {"load", "save", "saved"}
  PROVE  SetterInv'
<1>1. SetterFlies'
  BY DEF SetterInv, SetterFlies, Saves, S!ActKinds
<1>2. OneLoad => OneLoad'
  BY DEF OneLoad, S!ActKinds
<1>3. OneSave => OneSave'
  BY DEF OneSave, Saves, S!ActKinds
<1>4. Waited => Waited'
  BY <1>2, <1>3 DEF Waited
<1>5. QED
  BY <1>1, <1>4 DEF SetterInv

-----------------------------------------------------------------------------
(* The setter's page: its steps *)

LEMMA SetterClicks ==
  ASSUME SetterTypes, S!Click
  PROVE  setterClicks' \in Nat /\ setterClicks + 1 \in Nat
BY DEF SetterTypes, S!Click

LEMMA SettingsKeep ==
  ASSUME SetterInv,
         \/ \E a \in Accounts : S!SelectAccount(a)
         \/ \E field \in {"mode", "rest"} : S!Update(field)
         \/ S!HandleSave
  PROVE  SetterInv'
<1>1. SetterTypes /\ SetterFlies /\ SentOnce /\ (~ setterHasty => Waited)
  BY DEF SetterInv
<1>2. ASSUME NEW a \in Accounts, S!SelectAccount(a) PROVE SetterInv'
  <2> DEFINE load == S!Request("load", a)
             feed == S!Request("feed", a)
  <2>1. load.kind = "load" /\ load.account = a /\ feed.kind = "feed" /\ feed.account = a
    BY SetterRequest
  <2>2. setterFlying' = setterFlying \cup {load, feed}
    BY <1>2 DEF S!SelectAccount, S!Fly
  <2> HIDE DEF load, feed
  <2>3. /\ setterAccount' = a /\ setterLoading' = TRUE /\ setterSaveState' = "idle"
        /\ setterHasty' = (setterHasty \/ S!Settling)
        /\ UNCHANGED <<setterForm, setterSaving, setterConfig, setterBusy, setterStatus,
                       setterSends, setterLost, setterDropped>>
    BY <1>2 DEF S!SelectAccount, S!feedVars
  <2>4. SetterTypes'
    BY <1>1, <1>2, <2>3, SetterClicks DEF SetterTypes, S!SelectAccount
  <2>5. SetterFlies' /\ SentOnce'
    <3>1. SetterFlies'
      BY <1>1, <2>1, <2>2 DEF SetterFlies, Saves, S!ActKinds
    <3>2. OnWay' = OnWay
      BY <2>1, <2>2 DEF OnWay, S!Sending
    <3>3. QED
      BY <1>1, <2>3, <3>1, <3>2, SendsStay
  <2>6. ASSUME ~ setterHasty' PROVE Waited'
    <3>1. Waited /\ \A r \in setterFlying : r.kind \notin {"load", "save", "saved"}
      BY <1>1, <2>3, <2>6 DEF S!Settling
    <3>2. OneLoad' /\ OneSave'
      BY <2>1, <2>2, <2>3, <3>1 DEF OneLoad, OneSave, Saves
    <3>3. QED
      BY <2>3, <3>1, <3>2 DEF Waited
  <2>7. QED
    BY <2>4, <2>5, <2>6 DEF SetterInv
<1>3. ASSUME NEW field \in {"mode", "rest"}, S!Update(field) PROVE SetterInv'
  <2> DEFINE value == S!Value(setterAccount, setterClicks + 1)
  <2>1. /\ setterForm' = [setterForm EXCEPT ![field] = value] /\ setterSaveState' = "idle"
        /\ setterHasty' = (setterHasty \/ S!Settling)
        /\ UNCHANGED <<setterAccount, setterLoading, setterSaving, setterConfig,
                       setterBusy, setterStatus, setterSends, setterLost, setterDropped,
                       setterFlying>>
    BY <1>3 DEF S!Update, S!feedVars
  <2>2. value \in Chosen /\ value.of = setterAccount
    <3>1. setterClicks + 1 \in Nat
      BY <1>1, <1>3, SetterClicks DEF S!Update
    <3>2. QED
      BY <1>1, <3>1 DEF S!Value, Chosen, SetterTypes
  <2> HIDE DEF value
  <2>3. setterForm' \in Form
        /\ (Own(setterForm, setterAccount) => Own(setterForm', setterAccount))
    BY <1>1, <2>1, <2>2 DEF SetterTypes, Form, Own
  <2>4. SetterTypes' /\ SentOnce' /\ SetterFlies'
    <3>1. OnWay' = OnWay
      BY <2>1 DEF OnWay
    <3>2. SetterTypes' /\ SetterFlies'
      BY <1>1, <1>3, <2>1, <2>3, SetterClicks DEF SetterTypes, SetterFlies, S!Update
    <3>3. QED
      BY <1>1, <2>1, <3>1, <3>2, SendsStay
  <2>5. ASSUME ~ setterHasty' PROVE Waited'
    <3>1. Waited /\ \A r \in setterFlying : r.kind \notin {"load", "save", "saved"}
      BY <1>1, <2>1, <2>5 DEF S!Settling
    <3>2. OneLoad' /\ OneSave' /\ ~ setterLoading
      BY <2>1, <3>1 DEF OneLoad, OneSave, Saves, Waited
    <3>3. QED
      BY <2>1, <2>3, <3>1, <3>2 DEF Waited
  <2>6. QED
    BY <2>4, <2>5 DEF SetterInv
<1>4. CASE S!HandleSave
  <2> DEFINE save == [S!Request("save", setterAccount) EXCEPT !.sent = setterForm]
  <2>1. /\ save.kind = "save" /\ save.account = setterAccount /\ save.sent = setterForm
        /\ {"kind", "account", "sent"} \subseteq DOMAIN save
    BY SetterRequest
  <2>2. setterFlying' = setterFlying \cup {save}
    BY <1>4 DEF S!HandleSave, S!Fly
  <2> HIDE DEF save
  <2>3. /\ ~ setterSaving /\ ~ setterLoading /\ setterSaving' = TRUE /\ setterSaveState' = "idle"
        /\ UNCHANGED <<setterAccount, setterForm, setterLoading, setterConfig, setterBusy,
                       setterStatus, setterSends, setterLost, setterDropped, setterHasty>>
    BY <1>4 DEF S!HandleSave, S!feedVars
  <2>4. SetterTypes'
    BY <1>1, <1>4, <2>3, SetterClicks DEF SetterTypes, S!HandleSave
  <2>5. SetterFlies' /\ SentOnce'
    <3>1. SetterFlies'
      BY <1>1, <2>1, <2>2 DEF SetterFlies, Saves, SetterTypes, S!ActKinds
    <3>2. OnWay' = OnWay
      BY <2>1, <2>2 DEF OnWay, S!Sending
    <3>3. QED
      BY <1>1, <2>3, <3>1, <3>2, SendsStay
  <2>6. ASSUME Waited PROVE Waited'
    <3>1. \A r \in setterFlying : r.kind \notin Saves /\ r.kind # "load"
      BY <2>3, <2>6 DEF Waited, OneSave, OneLoad
    <3>2. OneLoad'
      BY <2>1, <2>2, <2>3, <3>1 DEF OneLoad
    <3>3. OneSave'
      BY <2>1, <2>2, <2>3, <3>1 DEF OneSave, Saves
    <3>4. QED
      BY <2>3, <2>6, <3>2, <3>3 DEF Waited
  <2>7. QED
    BY <1>1, <2>3, <2>4, <2>5, <2>6 DEF SetterInv
<1>5. QED
  BY <1>2, <1>3, <1>4

LEMMA SettingsAnswered ==
  ASSUME SetterInv, NEW r \in setterFlying,
         (\E ok \in BOOLEAN : S!Loaded(r, ok)) \/ S!Write(r) \/ S!Saved(r)
  PROVE  SetterInv'
<1>1. /\ SetterTypes /\ SetterFlies /\ SentOnce /\ (~ setterHasty => Waited)
      /\ r.account \in Accounts
  BY DEF SetterInv, SetterFlies
<1>2. ASSUME NEW ok \in BOOLEAN, S!Loaded(r, ok) PROVE SetterInv'
  <2>1. /\ r.kind = "load" /\ setterFlying' = setterFlying \ {r} /\ setterLoading' = FALSE
        /\ setterForm' = IF ok THEN setterConfig[r.account] ELSE setterForm
        /\ setterHasty' = (setterHasty \/ ~ ok)
        /\ UNCHANGED <<setterAccount, setterSaving, setterSaveState, setterConfig,
                       setterBusy, setterStatus, setterSends, setterLost, setterDropped,
                       setterClicks>>
    BY <1>2 DEF S!Loaded, S!feedVars
  <2>2. SetterTypes' /\ SentOnce' /\ SetterFlies'
    <3>1. OnWay' = OnWay
      BY <2>1 DEF OnWay, S!Sending, Saves
    <3>2. SetterTypes' /\ SetterFlies'
      BY <1>1, <2>1 DEF SetterTypes, SetterFlies
    <3>3. QED
      BY <1>1, <2>1, <3>1, <3>2, SendsStay
  <2>3. ASSUME ~ setterHasty' PROVE Waited'
    <3>1. /\ Waited /\ ok /\ r.account = setterAccount
          /\ \A q \in setterFlying' : q.kind # "load" /\ q.kind \notin Saves
      BY <1>1, <2>1, <2>3 DEF Waited, OneLoad, OneSave
    <3>2. OneLoad' /\ OneSave'
      BY <2>1, <3>1 DEF OneLoad, OneSave
    <3>3. QED
      BY <1>1, <2>1, <3>1, <3>2 DEF Waited
  <2>4. QED
    BY <2>2, <2>3 DEF SetterInv
<1>3. CASE S!Write(r)
  <2> DEFINE done == [r EXCEPT !.kind = "saved"]
  <2>1. /\ r.kind = "save" /\ setterFlying' = (setterFlying \ {r}) \cup {done}
        /\ setterConfig' = [setterConfig EXCEPT ![r.account] = r.sent]
        /\ UNCHANGED <<setterAccount, setterForm, setterLoading, setterSaving,
                       setterSaveState, setterHasty, setterBusy, setterStatus,
                       setterSends, setterLost, setterDropped, setterClicks>>
    BY <1>3 DEF S!Write, S!formVars, S!feedVars
  <2>2. r.sent \in Form /\ {"kind", "account", "sent"} \subseteq DOMAIN r
    BY <1>1, <2>1 DEF SetterFlies, Saves
  <2>3. /\ done.kind = "saved" /\ done.account = r.account /\ done.sent = r.sent
        /\ {"kind", "account", "sent"} \subseteq DOMAIN done
    BY <2>2
  <2> HIDE DEF done
  <2>4. SetterTypes' /\ SentOnce' /\ SetterFlies'
    <3>1. OnWay' = OnWay
      BY <2>1, <2>3 DEF OnWay, S!Sending
    <3>2. SetterTypes' /\ SetterFlies'
      BY <1>1, <2>1, <2>2, <2>3 DEF SetterTypes, SetterFlies, Saves, S!ActKinds
    <3>3. QED
      BY <1>1, <2>1, <3>1, <3>2, SendsStay
  <2>5. ASSUME Waited PROVE Waited'
    <3>1. /\ \A q \in setterFlying' \ {done} : q.kind # "load" /\ q.kind \notin Saves
          /\ setterSaving /\ ~ setterLoading /\ setterSaveState # "saved"
          /\ r.account = setterAccount /\ r.sent = setterForm
      BY <2>1, <2>5 DEF Waited, OneLoad, OneSave, Saves
    <3>2. setterConfig' = [setterConfig EXCEPT ![setterAccount] = setterForm]
          /\ setterConfig'[setterAccount] = setterForm
      BY <1>1, <2>1, <3>1 DEF SetterTypes
    <3>3. OneLoad' /\ OneSave'
      BY <2>1, <2>3, <3>1, <3>2 DEF OneLoad, OneSave
    <3>4. Own(setterForm, setterAccount)
      BY <2>5, <3>1 DEF Waited
    <3>5. \A a \in Accounts : Own(setterConfig'[a], a)
      BY <1>1, <2>5, <3>2, <3>4 DEF Waited, SetterTypes
    <3>6. QED
      BY <2>1, <3>1, <3>2, <3>3, <3>4, <3>5 DEF Waited
  <2>6. QED
    BY <1>1, <2>1, <2>4, <2>5 DEF SetterInv
<1>4. CASE S!Saved(r)
  <2>1. /\ r.kind \in Saves /\ setterFlying' = setterFlying \ {r} /\ setterSaving' = FALSE
        /\ (r.kind = "saved" /\ setterSaveState' = "saved") \/ setterSaveState' = "error"
        /\ UNCHANGED <<setterAccount, setterForm, setterLoading, setterConfig, setterHasty,
                       setterBusy, setterStatus, setterSends, setterLost, setterDropped,
                       setterClicks>>
    BY <1>4 DEF S!Saved, S!feedVars, Saves
  <2>2. SetterTypes' /\ SentOnce' /\ SetterFlies'
    <3>1. OnWay' = OnWay
      BY <2>1 DEF OnWay, S!Sending, Saves
    <3>2. SetterTypes' /\ SetterFlies'
      BY <1>1, <2>1 DEF SetterTypes, SetterFlies
    <3>3. QED
      BY <1>1, <2>1, <3>1, <3>2, SendsStay
  <2>3. ASSUME Waited PROVE Waited'
    <3>1. /\ \A q \in setterFlying' : q.kind # "load" /\ q.kind \notin Saves
          /\ r.kind = "saved" => setterConfig[setterAccount] = setterForm
          /\ ~ setterLoading
      BY <2>1, <2>3 DEF Waited, OneLoad, OneSave
    <3>2. OneLoad' /\ OneSave'
      BY <2>1, <3>1 DEF OneLoad, OneSave
    <3>3. QED
      BY <2>1, <2>3, <3>1, <3>2 DEF Waited
  <2>4. QED
    BY <1>1, <2>1, <2>2, <2>3 DEF SetterInv
<1>5. QED
  BY <1>2, <1>3, <1>4

\* The cards: what comes and goes keeps all that is waited for.
LEMMA CardsKeep ==
  ASSUME SetterInv,
         \/ S!Poll
         \/ \E x \in Replies, action \in {"approve", "dismiss"} : S!Act(x, action)
         \/ \E r \in setterFlying :
              S!Read(r) \/ S!Show(r) \/ S!Unshown(r) \/ S!Answer(r) \/ S!Break(r)
  PROVE  SetterInv'
<1>1. SetterTypes /\ SetterFlies /\ SentOnce
  BY DEF SetterInv
<1>2. CASE S!Poll
  <2> DEFINE feed == S!Request("feed", setterAccount)
  <2>1. /\ setterFlying' = setterFlying \cup {feed}
        /\ UNCHANGED <<setterAccount, setterForm, setterLoading, setterSaving, setterSaveState,
                       setterConfig, setterHasty, setterBusy, setterStatus, setterSends,
                       setterLost, setterDropped, setterClicks>>
    BY <1>2 DEF S!Poll, S!Fly, S!formVars, S!feedVars
  <2>2. feed.kind = "feed" /\ feed.account = setterAccount
    BY SetterRequest
  <2> HIDE DEF feed
  <2>3. OnWay' = OnWay
    BY <2>1, <2>2 DEF OnWay, S!Sending
  <2>4. SentOnce' /\ SetterTypes' /\ setterAccount \in Accounts
    BY <1>1, <2>1, <2>3, SendsStay DEF SetterTypes
  <2>5. QED
    BY <2>1, <2>2, <2>4, SetterFlow DEF S!ActKinds
<1>3. ASSUME NEW x \in Replies, NEW action \in {"approve", "dismiss"}, S!Act(x, action)
      PROVE  SetterInv'
  <2> DEFINE act == S!Action(x, action, setterClicks + 1)
  <2>1. /\ setterFlying' = setterFlying \cup {act}
        /\ setterBusy' = [setterBusy EXCEPT ![x] = setterClicks + 1]
        /\ UNCHANGED <<setterAccount, setterForm, setterLoading, setterSaving, setterSaveState,
                       setterConfig, setterHasty, setterStatus, setterSends, setterLost,
                       setterDropped>>
    BY <1>3 DEF S!Act, S!Fly, S!formVars
  <2>2. setterClicks' \in Nat /\ setterClicks + 1 \in Nat /\ setterAccount \in Accounts
    BY <1>1, <1>3, SetterClicks DEF S!Act, SetterTypes
  <2>3. act.kind = "act" /\ act.account = setterAccount /\ act \in Actions
    BY <2>2 DEF S!Action, Actions, S!ActKinds, S!Statuses
  <2> HIDE DEF act
  <2>4. OnWay' = OnWay
    BY <2>1, <2>3 DEF OnWay, S!Sending
  <2>5. SentOnce' /\ SetterTypes'
    BY <1>1, <2>1, <2>2, <2>4, SendsStay DEF SetterTypes
  <2>6. QED
    BY <2>1, <2>2, <2>3, <2>5, SetterFlow DEF S!ActKinds
<1>4. ASSUME NEW r \in setterFlying, S!Read(r) PROVE SetterInv'
  <2> DEFINE page == [kind |-> "page", account |-> r.account, rows |-> S!Snapshot(r.account)]
  <2>1. /\ r.kind = "feed" /\ setterFlying' = (setterFlying \ {r}) \cup {page}
        /\ UNCHANGED <<setterAccount, setterForm, setterLoading, setterSaving, setterSaveState,
                       setterConfig, setterHasty, setterBusy, setterStatus, setterSends,
                       setterLost, setterDropped, setterClicks>>
    BY <1>4 DEF S!Read, S!formVars, S!feedVars
  <2>2. page.kind = "page" /\ page.account = r.account /\ r.account \in Accounts
    BY <1>1 DEF SetterFlies
  <2> HIDE DEF page
  <2>3. OnWay' = OnWay
    BY <2>1, <2>2 DEF OnWay, S!Sending
  <2>4. SentOnce' /\ SetterTypes'
    BY <1>1, <2>1, <2>3, SendsStay DEF SetterTypes
  <2>5. QED
    BY <2>1, <2>2, <2>4, SetterFlow DEF S!ActKinds
<1>5. ASSUME NEW r \in setterFlying, S!Show(r) \/ S!Unshown(r) PROVE SetterInv'
  <2>1. /\ r.kind \in {"feed", "page"} /\ setterFlying' = setterFlying \ {r}
        /\ \/ setterBusy' = setterBusy
           \/ setterBusy' = [x \in Replies |-> IF r.rows[x] = "HELD" THEN setterBusy[x] ELSE 0]
        /\ UNCHANGED <<setterAccount, setterForm, setterLoading, setterSaving, setterSaveState,
                       setterConfig, setterHasty, setterStatus, setterSends, setterLost,
                       setterDropped, setterClicks>>
    BY <1>5 DEF S!Show, S!Unshown, S!formVars, S!feedVars
  <2>2. OnWay' = OnWay
    BY <2>1 DEF OnWay, S!Sending
  <2>3. SetterTypes'
    BY <1>1, <2>1 DEF SetterTypes
  <2>4. SentOnce'
    BY <1>1, <2>1, <2>2, SendsStay
  <2>5. QED
    BY <2>1, <2>3, <2>4, SetterFlow
<1>6. ASSUME NEW r \in setterFlying, S!Answer(r) \/ S!Break(r) PROVE SetterInv'
  <2> DEFINE feed == S!Request("feed", r.account)
  <2>1. /\ r.kind \in S!ActKinds
        /\ \/ setterFlying' = setterFlying
           \/ /\ r.kind \in {"decided", "refused"}
              /\ setterFlying' \in {setterFlying \ {r}, (setterFlying \ {r}) \cup {feed}}
        /\ setterBusy' = [setterBusy EXCEPT ![r.reply] = IF @ = r.n THEN 0 ELSE @]
        /\ UNCHANGED <<setterAccount, setterForm, setterLoading, setterSaving, setterSaveState,
                       setterConfig, setterHasty, setterStatus, setterSends, setterLost,
                       setterDropped, setterClicks>>
    BY <1>6 DEF S!Answer, S!Break, S!Free, S!formVars, S!ActKinds
  <2>2. feed.kind = "feed" /\ feed.account = r.account /\ r.account \in Accounts
    BY <1>1, SetterRequest DEF SetterFlies
  <2> HIDE DEF feed
  <2>3. OnWay' = OnWay
    BY <2>1, <2>2 DEF OnWay, S!Sending
  <2>4. SentOnce' /\ SetterTypes'
    BY <1>1, <2>1, <2>3, SendsStay DEF SetterTypes
  <2>5. QED
    BY <2>1, <2>2, <2>4, SetterFlow DEF S!ActKinds
<1>7. QED
  BY <1>2, <1>3, <1>4, <1>5, <1>6

-----------------------------------------------------------------------------
(* The setter's page: the handler of an action *)

\* A handler that goes one step on keeps what the form waits for.
LEMMA ServingKeeps ==
  ASSUME SetterInv, NEW r \in setterFlying, r.kind \in S!ActKinds, NEW q \in Actions,
         setterFlying' = (setterFlying \ {r}) \cup {q}, S!Serving,
         setterStatus' \in [Replies -> S!Statuses], setterSends' \in [Replies -> Nat],
         setterLost' \subseteq Replies, setterDropped' \subseteq Replies,
         SentOnce'
  PROVE  SetterInv'
<1>1. SetterTypes'
  BY DEF SetterInv, SetterTypes, S!Serving, S!formVars
<1>2. q.account \in Accounts /\ q.kind \in S!ActKinds
  BY DEF Actions
<1>3. QED
  BY <1>1, <1>2, SetterFlow DEF S!Serving, S!formVars, S!ActKinds

\* Before the claim and beside it.
LEMMA ActionsKeep ==
  ASSUME SetterInv, NEW r \in setterFlying,
         S!ReadRow(r) \/ S!WriteDismissed(r) \/ S!ReadPrevious(r)
  PROVE  SetterInv'
<1>1. SetterTypes /\ SetterFlies /\ SentOnce
  BY DEF SetterInv
<1>2. r.kind \in S!ActKinds /\ r \in Actions /\ r.reply \in Replies /\ r.kind \notin S!Sending
  <2>1. r.kind \in S!ActKinds /\ r.kind \notin S!Sending
    BY DEF S!ReadRow, S!WriteDismissed, S!ReadPrevious, S!ActKinds, S!Sending
  <2>2. QED
    BY <1>1, <2>1 DEF SetterFlies, Actions
<1>3. CASE S!ReadRow(r)
  <2>1. PICK kind \in {"send", "dismiss", "refused"} :
          setterFlying' = (setterFlying \ {r}) \cup {[r EXCEPT !.kind = kind]}
    BY <1>3 DEF S!ReadRow, S!Becomes
  <2>2. /\ S!Serving
        /\ UNCHANGED <<setterStatus, setterSends, setterLost, setterDropped>>
    BY <1>3 DEF S!ReadRow
  <2> DEFINE q == [r EXCEPT !.kind = kind]
  <2>3. q \in Actions /\ q.kind = kind
    <3>1. kind \in S!ActKinds /\ "HELD" \in S!Statuses
      BY DEF S!ActKinds, S!Statuses
    <3>2. QED
      BY <1>2, <3>1, ActionGoesOn
  <2>4. setterFlying' = (setterFlying \ {r}) \cup {q}
    BY <2>1
  <2> HIDE DEF q
  <2>5. OnWay' = OnWay
    BY <1>2, <2>3, <2>4 DEF OnWay, S!Sending
  <2>6. SentOnce'
    BY <1>1, <2>2, <2>5, SendsStay
  <2>7. QED
    BY <1>1, <1>2, <2>2, <2>3, <2>4, <2>6, ServingKeeps DEF SetterTypes
<1>4. CASE S!ReadPrevious(r)
  <2> DEFINE q == [r EXCEPT !.kind = "claim", !.was = setterStatus[r.reply]]
  <2>1. /\ setterFlying' = (setterFlying \ {r}) \cup {q} /\ S!Serving
        /\ UNCHANGED <<setterStatus, setterSends, setterLost, setterDropped>>
    BY <1>4 DEF S!ReadPrevious
  <2>2. setterStatus[r.reply] \in S!Statuses
    BY <1>1, <1>2 DEF SetterTypes
  <2>3. q \in Actions /\ q.kind = "claim"
    <3>1. "claim" \in S!ActKinds
      BY DEF S!ActKinds
    <3>2. QED
      BY <1>2, <2>2, <3>1, ActionGoesOn
  <2> HIDE DEF q
  <2>4. OnWay' = OnWay
    BY <1>2, <2>1, <2>3 DEF OnWay, S!Sending
  <2>5. SentOnce'
    BY <1>1, <2>1, <2>4, SendsStay
  <2>6. QED
    BY <1>1, <1>2, <2>1, <2>3, <2>5, ServingKeeps DEF SetterTypes
<1>5. CASE S!WriteDismissed(r)
  <2> DEFINE q == [r EXCEPT !.kind = "decided"]
  <2>1. /\ setterFlying' = (setterFlying \ {r}) \cup {q} /\ S!Serving
        /\ setterStatus' = [setterStatus EXCEPT ![r.reply] = "DISMISSED"]
        /\ setterDropped' = IF S!OnItsWay(r.reply) \/ setterStatus[r.reply] = "SENDING"
                             THEN setterDropped ELSE setterDropped \cup {r.reply}
        /\ UNCHANGED <<setterSends, setterLost>>
    BY <1>5 DEF S!WriteDismissed, S!Becomes, S!Put
  <2>2. q \in Actions /\ q.kind = "decided"
    BY <1>2, ActionGoesOn DEF S!ActKinds, S!Statuses
  <2> HIDE DEF q
  <2>3. OnWay' = OnWay
    BY <1>2, <2>1, <2>2 DEF OnWay, S!Sending
  <2>4. /\ setterStatus' \in [Replies -> S!Statuses] /\ setterStatus'[r.reply] = "DISMISSED"
        /\ \A x \in Replies : x # r.reply => setterStatus'[x] = setterStatus[x]
    BY <1>1, <1>2, <2>1 DEF SetterTypes, S!Statuses
  <2>5. /\ setterDropped' \subseteq setterDropped \cup {r.reply}
        /\ setterDropped' # setterDropped => \A p \in OnWay : p.reply # r.reply
    BY <2>1 DEF S!OnItsWay, OnWay
  <2>6. \A p \in OnWay : p.reply \in Replies
    BY <1>1 DEF SetterFlies, OnWay, S!Sending, S!ActKinds, Actions
  <2>7. SentOnce'
    <3>1. \A p \in OnWay : /\ setterStatus'[p.reply] \in {"SENDING", "DISMISSED"}
                           /\ p.reply \notin setterDropped'
      BY <1>1, <2>4, <2>5, <2>6 DEF SentOnce
    <3>2. \A x \in Replies : setterStatus[x] \in {"SENT", "DISMISSED"} =>
                               setterStatus'[x] \in {"SENT", "DISMISSED"}
      BY <2>4
    <3>3. \A x \in setterDropped' : setterStatus'[x] = "DISMISSED"
      BY <1>1, <2>4, <2>5 DEF SentOnce, SetterTypes
    <3>4. QED
      BY <1>1, <2>1, <2>3, <3>1, <3>2, <3>3 DEF SentOnce
  <2>8. QED
    BY <1>1, <1>2, <2>1, <2>2, <2>4, <2>5, <2>7, ServingKeeps DEF SetterTypes
<1>6. QED
  BY <1>3, <1>4, <1>5

\* From the claim to the record of its outcome.
LEMMA SendsKeep ==
  ASSUME SetterInv, NEW r \in setterFlying,
         S!Claim(r) \/ S!Refuse(r) \/ S!Accept(r) \/ S!Quarantine(r) \/ S!RecordSent(r)
  PROVE  SetterInv'
<1> DEFINE x == r.reply
<1>1. SetterTypes /\ SetterFlies /\ SentOnce
  BY DEF SetterInv
<1>2. r.kind \in S!ActKinds /\ r \in Actions /\ x \in Replies /\ r.was \in S!Statuses
  <2>1. r.kind \in S!ActKinds
    BY DEF S!Claim, S!Refuse, S!Accept, S!Quarantine, S!RecordSent, S!ActKinds, S!Sending
  <2>2. QED
    BY <1>1, <2>1 DEF SetterFlies, Actions
<1>3. \A p \in OnWay : p.reply \in Replies /\ p.kind \in S!Sending
  BY <1>1 DEF SetterFlies, OnWay, S!Sending, S!ActKinds, Actions
<1>4. ASSUME NEW kind \in S!ActKinds, S!Becomes(r, kind)
      PROVE  \E q \in Actions : /\ q.kind = kind /\ q.reply = x
                                /\ setterFlying' = (setterFlying \ {r}) \cup {q}
  <2>1. [r EXCEPT !.kind = kind] \in Actions /\ [r EXCEPT !.kind = kind].kind = kind
        /\ [r EXCEPT !.kind = kind].reply = x
    BY <1>2, ActionGoesOn DEF S!Statuses
  <2>2. QED
    BY <1>4, <2>1 DEF S!Becomes
<1> HIDE DEF x
<1>5. CASE S!Claim(r)
  <2>1. S!Serving /\ r.kind = "claim" /\ UNCHANGED <<setterSends, setterLost, setterDropped>>
    BY <1>5 DEF S!Claim
  <2>2. CASE setterStatus[x] \in S!Claimable
    <3>1. /\ setterStatus' = [setterStatus EXCEPT ![x] = "SENDING"] /\ S!Becomes(r, "sending")
      BY <1>5, <2>2 DEF S!Claim, S!Put, x
    <3>2. PICK q \in Actions : /\ q.kind = "sending" /\ q.reply = x
                               /\ setterFlying' = (setterFlying \ {r}) \cup {q}
      BY <1>4, <3>1 DEF S!ActKinds
    <3>3. OnWay' = OnWay \cup {q}
      BY <2>1, <3>2 DEF OnWay, S!Sending
    <3>4. \A p \in OnWay : p.reply # x
      BY <1>1, <2>2 DEF SentOnce, S!Claimable, S!Held
    <3>5. x \notin setterDropped /\ (x \notin setterLost => setterSends[x] = 0)
      BY <1>1, <1>2, <2>2, <3>4 DEF SentOnce, S!Claimable, S!Held
    <3>6. /\ setterStatus' \in [Replies -> S!Statuses] /\ setterStatus'[x] = "SENDING"
          /\ \A y \in Replies : y # x => setterStatus'[y] = setterStatus[y]
      BY <1>1, <1>2, <3>1 DEF SetterTypes, S!Statuses
    <3>7. SentOnce'
      <4>1. \A p, o \in OnWay' : p.reply = o.reply => p = o
        BY <1>1, <3>2, <3>3, <3>4 DEF SentOnce
      <4>2. \A p \in OnWay' :
              /\ setterStatus'[p.reply] \in {"SENDING", "DISMISSED"}
              /\ p.reply \notin setterDropped
              /\ p.reply \notin setterLost =>
                   setterSends[p.reply] = IF p.kind = "accepted" THEN 1 ELSE 0
        BY <1>1, <1>3, <3>2, <3>3, <3>4, <3>5, <3>6 DEF SentOnce
      <4>3. \A y \in Replies \ setterLost :
              \/ setterSends[y] = 0
              \/ /\ setterSends[y] = 1
                 /\ \/ setterStatus'[y] \in {"SENT", "DISMISSED"}
                    \/ \E p \in OnWay' : p.kind = "accepted" /\ p.reply = y
        BY <1>1, <3>3, <3>5, <3>6 DEF SentOnce
      <4>4. \A y \in setterDropped : setterStatus'[y] = "DISMISSED"
        BY <1>1, <3>5, <3>6 DEF SentOnce, SetterTypes
      <4>5. QED
        BY <2>1, <4>1, <4>2, <4>3, <4>4 DEF SentOnce
    <3>8. QED
      BY <1>1, <1>2, <2>1, <3>2, <3>6, <3>7, ServingKeeps DEF SetterTypes
  <2>3. CASE setterStatus[x] \notin S!Claimable
    <3>1. UNCHANGED setterStatus /\ S!Becomes(r, "refused")
      BY <1>5, <2>3 DEF S!Claim, x
    <3>2. PICK q \in Actions : /\ q.kind = "refused" /\ q.reply = x
                               /\ setterFlying' = (setterFlying \ {r}) \cup {q}
      BY <1>4, <3>1 DEF S!ActKinds
    <3>3. OnWay' = OnWay
      BY <2>1, <3>2 DEF OnWay, S!Sending
    <3>4. SentOnce'
      BY <1>1, <2>1, <3>1, <3>3, SendsStay
    <3>5. QED
      BY <1>1, <1>2, <2>1, <3>1, <3>2, <3>4, ServingKeeps DEF SetterTypes
  <2>4. QED
    BY <2>2, <2>3
<1>6. CASE S!Accept(r)
  <2>1. /\ S!Serving /\ r.kind = "sending" /\ S!Becomes(r, "accepted")
        /\ setterSends' = [setterSends EXCEPT ![x] = @ + 1]
        /\ UNCHANGED <<setterStatus, setterLost, setterDropped>>
    BY <1>6 DEF S!Accept, x
  <2>2. PICK q \in Actions : /\ q.kind = "accepted" /\ q.reply = x
                             /\ setterFlying' = (setterFlying \ {r}) \cup {q}
    BY <1>4, <2>1 DEF S!ActKinds
  <2>3. r \in OnWay /\ OnWay' = (OnWay \ {r}) \cup {q}
    BY <2>1, <2>2 DEF OnWay, S!Sending
  <2>4. \A p \in OnWay \ {r} : p.reply # x
    BY <1>1, <2>3 DEF SentOnce, x
  <2>5. /\ setterSends' \in [Replies -> Nat]
        /\ x \notin setterLost => setterSends'[x] = 1
        /\ \A y \in Replies : y # x => setterSends'[y] = setterSends[y]
    BY <1>1, <1>2, <2>1, <2>3 DEF SetterTypes, SentOnce, x
  <2>6. setterStatus[x] \in {"SENDING", "DISMISSED"} /\ x \notin setterDropped
    BY <1>1, <2>3 DEF SentOnce, x
  <2>7. SentOnce'
    <3>1. \A p, o \in OnWay' : p.reply = o.reply => p = o
      BY <1>1, <2>2, <2>3, <2>4 DEF SentOnce
    <3>2. \A p \in OnWay' :
            /\ setterStatus[p.reply] \in {"SENDING", "DISMISSED"}
            /\ p.reply \notin setterDropped
            /\ p.reply \notin setterLost =>
                 setterSends'[p.reply] = IF p.kind = "accepted" THEN 1 ELSE 0
      BY <1>1, <1>3, <2>2, <2>3, <2>4, <2>5, <2>6 DEF SentOnce
    <3>3. \A y \in Replies \ setterLost :
            \/ setterSends'[y] = 0
            \/ /\ setterSends'[y] = 1
               /\ \/ setterStatus[y] \in {"SENT", "DISMISSED"}
                  \/ \E p \in OnWay' : p.kind = "accepted" /\ p.reply = y
      BY <1>1, <2>1, <2>2, <2>3, <2>5 DEF SentOnce
    <3>4. QED
      BY <1>1, <2>1, <3>1, <3>2, <3>3 DEF SentOnce
  <2>8. QED
    BY <1>1, <1>2, <2>1, <2>2, <2>5, <2>7, ServingKeeps DEF SetterTypes
<1>7. CASE S!Refuse(r) \/ S!Quarantine(r) \/ S!RecordSent(r)
  <2>1. PICK kind \in {"refused", "decided"} : S!Becomes(r, kind)
    BY <1>7 DEF S!Refuse, S!Quarantine, S!RecordSent
  <2>2. PICK q \in Actions : /\ q.kind = kind /\ q.reply = x
                             /\ setterFlying' = (setterFlying \ {r}) \cup {q}
    BY <1>4, <2>1 DEF S!ActKinds
  <2>3. r \in OnWay /\ OnWay' = OnWay \ {r}
    BY <1>7, <2>2 DEF S!Refuse, S!Quarantine, S!RecordSent, OnWay, S!Sending
  <2>4. /\ S!Serving /\ UNCHANGED <<setterSends, setterDropped>>
        /\ setterLost \subseteq setterLost' /\ setterLost' \subseteq setterLost \cup {x}
    BY <1>7 DEF S!Refuse, S!Quarantine, S!RecordSent, x
  <2>5. /\ setterStatus' \in [Replies -> S!Statuses]
        /\ \A y \in Replies : y # x => setterStatus'[y] = setterStatus[y]
    <3>1. \E value \in S!Statuses :
            \/ setterStatus' = [setterStatus EXCEPT ![x] = value]
            \/ setterStatus' = setterStatus
      BY <1>2, <1>7 DEF S!Refuse, S!Quarantine, S!RecordSent, S!Put, S!Statuses, x
    <3>2. QED
      BY <1>1, <1>2, <3>1 DEF SetterTypes
  <2>6. x \notin setterLost' =>
          setterSends[x] = 0 \/ (setterSends[x] = 1 /\ setterStatus'[x] = "SENT")
    <3>1. CASE S!Refuse(r)
      BY <1>1, <2>3, <2>4, <3>1 DEF S!Refuse, SentOnce, x
    <3>2. CASE S!Quarantine(r)
      BY <3>2 DEF S!Quarantine, x
    <3>3. CASE S!RecordSent(r)
      <4>1. /\ r.kind = "accepted" /\ setterStatus' = [setterStatus EXCEPT ![x] = "SENT"]
        BY <3>3 DEF S!RecordSent, S!Put, x
      <4>2. setterStatus'[x] = "SENT"
        BY <1>1, <1>2, <4>1 DEF SetterTypes
      <4>3. QED
        BY <1>1, <2>3, <2>4, <4>1, <4>2 DEF SentOnce, x
    <3>4. QED
      BY <1>7, <3>1, <3>2, <3>3
  <2>7. x \notin setterDropped /\ \A p \in OnWay \ {r} : p.reply # x
    BY <1>1, <2>3 DEF SentOnce, x
  <2>8. SentOnce'
    <3>1. \A p \in OnWay' :
            /\ setterStatus'[p.reply] \in {"SENDING", "DISMISSED"}
            /\ p.reply \notin setterDropped
            /\ p.reply \notin setterLost' =>
                 setterSends[p.reply] = IF p.kind = "accepted" THEN 1 ELSE 0
      BY <1>1, <1>3, <2>3, <2>4, <2>5, <2>7 DEF SentOnce
    <3>2. \A y \in Replies \ setterLost' :
            \/ setterSends[y] = 0
            \/ /\ setterSends[y] = 1
               /\ \/ setterStatus'[y] \in {"SENT", "DISMISSED"}
                  \/ \E p \in OnWay' : p.kind = "accepted" /\ p.reply = y
      <4> SUFFICES ASSUME NEW y \in Replies \ setterLost', setterSends[y] # 0
                   PROVE  /\ setterSends[y] = 1
                          /\ \/ setterStatus'[y] \in {"SENT", "DISMISSED"}
                             \/ \E p \in OnWay' : p.kind = "accepted" /\ p.reply = y
        OBVIOUS
      <4>1. CASE y = x
        BY <2>6, <4>1
      <4>2. CASE y # x
        BY <1>1, <2>3, <2>4, <2>5, <4>2 DEF SentOnce, x
      <4>3. QED
        BY <4>1, <4>2
    <3>3. \A y \in setterDropped : setterStatus'[y] = "DISMISSED"
      BY <1>1, <2>5, <2>7 DEF SentOnce, SetterTypes
    <3>4. QED
      BY <1>1, <2>3, <2>4, <3>1, <3>2, <3>3 DEF SentOnce
  <2>9. QED
    BY <1>1, <1>2, <2>2, <2>4, <2>5, <2>8, ServingKeeps DEF SetterTypes
<1>8. QED
  BY <1>5, <1>6, <1>7

-----------------------------------------------------------------------------
(* The setter's page: the theorems *)

THEOREM SetterInvariance == S!Spec => []SetterInv
<1>1. S!Init => SetterInv
  BY SetterStarts
<1>2. SetterInv /\ [S!Next]_(S!vars) => SetterInv'
  <2> SUFFICES ASSUME SetterInv, [S!Next]_(S!vars) PROVE SetterInv'
    OBVIOUS
  <2>1. CASE UNCHANGED S!vars
    BY <2>1 DEF S!vars, S!formVars, S!feedVars, SetterInv, SetterTypes, SetterFlies, SentOnce,
       OnWay, Waited, OneLoad, OneSave
  <2>2. CASE S!Next
    BY <2>2, SettingsKeep, SettingsAnswered, CardsKeep, ActionsKeep, SendsKeep DEF S!Next
  <2>3. QED
    BY <2>1, <2>2
<1>3. QED
  BY <1>1, <1>2, PTL DEF S!Spec

THEOREM SetterIsKept == S!Spec => [](S!TypeOK /\ SetterHolds)
<1>1. SetterInv => S!TypeOK
  BY DEF SetterInv, SetterTypes, S!TypeOK, Form, Chosen
<1>2. SetterInv => S!OwnSettings /\ S!SavedIsTrue
  BY DEF SetterInv, SetterTypes, Waited, Own, S!OwnSettings, S!SavedIsTrue
<1>3. SetterInv => S!StaleCardIsHarmless
  <2> SUFFICES ASSUME SetterInv PROVE S!StaleCardIsHarmless
    OBVIOUS
  <2>1. SetterTypes /\ SentOnce
    BY DEF SetterInv
  <2>2. \A x \in Replies : setterSends[x] > 1 => x \in setterLost
    BY <2>1 DEF SentOnce
  <2>3. \A x \in setterDropped : setterStatus[x] = "DISMISSED" /\ ~ S!OnItsWay(x)
    BY <2>1 DEF SentOnce, OnWay, S!OnItsWay
  <2>4. QED
    BY <2>2, <2>3 DEF S!StaleCardIsHarmless
<1>4. QED
  BY <1>1, <1>2, <1>3, SetterInvariance, PTL DEF SetterHolds, S!SetterHolds

-----------------------------------------------------------------------------
(* The form of a campaign: its invariant *)

Fields ==
  [queue : Seq(Nat), edited : {0, 1}, loading : BOOLEAN, saving : BOOLEAN, content : Nat,
   account : Accounts \cup {None}, post : Posts \cup {None}, astray : BOOLEAN,
   known : BOOLEAN, library : Accounts \cup {None}, broken : BOOLEAN, used : SUBSET Posts,
   made : SUBSET Posts, early : BOOLEAN]
Campaign ==
  [content : Nat, account : Accounts, post : Posts \cup {None}, astray : BOOLEAN]
Storage == [queue : Seq(Nat), account : Accounts \cup {None}]
Save ==
  [content : Nat, account : Accounts, post : Posts \cup {None}, astray : BOOLEAN,
   edited : {0, 1}, queue : Seq(Nat), state : {"sent", "done", "refused"},
   reader : {"builder", "tab", "none"}, number : Nat]

\* A post is of the account it is with, unless it was picked for another.
OwnPost(k) == k.post # None /\ ~ k.astray => PostOwner[k.post] = k.account
\* What the server lists: the campaign that is edited comes first.
Listing(l) ==
  /\ l \in Seq(Campaign) /\ 1 <= Len(l)
  /\ l[1].content = B!Old
  /\ \A c \in 1..Len(l) : OwnPost(l[c])
\* Rows to come are of those staged, no two the same.
RowQueue(q) ==
  /\ \A i \in 1..Len(q) : q[i] \in 1..formRows
  /\ \A i, j \in 1..Len(q) : i # j => q[i] # q[j]
\* What is filled in: the first of the rows, or the campaign that is edited.
Filled(f, there) ==
  /\ f.queue # <<>> => f.content = Head(f.queue) /\ f.edited = 0
  /\ f.queue = <<>> => f.content = IF f.edited # 0 /\ there THEN B!Old ELSE B!Blank

FormTypes ==
  /\ formPlace \in {"list", "import", "builder", "leaving"}
  /\ formForm \in Fields /\ formStored \in Storage
  /\ formRows \in 0..MaxRows /\ IsFiniteSet(formSaves)
  /\ Listing(formCampaigns)
  /\ formPlace \in {"list", "import"} => formForm = B!Form /\ formAsked = {}

FormFits ==
  /\ RowQueue(formForm.queue) /\ RowQueue(formStored.queue)
  /\ Filled(formForm, ~ formForm.loading)
  /\ formForm.loading => formForm.edited # 0
  /\ formForm.post # None /\ ~ formForm.astray =>
       PostOwner[formForm.post] = B!Effective(formForm.account)

\* A read that is under way is as it should be.
AskFits(a) ==
  /\ a.kind \in {"accounts", "library", "used", "campaign"} /\ a.account \in Accounts
  /\ {"kind", "account", "cached", "seen"} \subseteq DOMAIN a
  /\ a.seen = <<>> \/ Listing(a.seen)
FormAsks == \A a \in formAsked : AskFits(a) /\ (a.kind = "campaign" => formForm.loading)

\* The posts this builder has used are flagged.
FormFlags ==
  /\ B!UsedIsFlagged
  /\ formForm.made # {} => ~ formForm.loading /\ formForm.account # None
  /\ \A a \in formAsked : a.kind = "used" /\ formForm.made # {} => formForm.early

\* Contents of the campaigns, numbers of rows among them.
Contents == {formCampaigns[c].content : c \in 1..Len(formCampaigns)}

\* A save is of what the form had; where the tab may not know of it, its row is doubtful.
SaveFits(s) ==
  /\ s \in Save
  /\ RowQueue(s.queue) /\ Filled(s, TRUE) /\ OwnPost(s)
  /\ s.state = "done" /\ s.edited = 0 => s.content \in Contents
  /\ s.reader # "builder" => s.content \in formDoubtful
  /\ s.reader = "tab" => B!Set(s.queue) \subseteq formDoubtful
  /\ s.reader = "builder" =>
       /\ formPlace \in {"builder", "leaving"}
       /\ formForm.saving /\ ~ formForm.loading /\ formForm.account # None
       /\ s.edited = formForm.edited /\ s.queue = formForm.queue
SavesFit == \A s \in formSaves : SaveFits(s)

OneWaits == \A s, t \in formSaves : s.reader = "builder" /\ t.reader = "builder" => s = t

\* Where the rows of the import are.
Keeps(q) == formStaged \subseteq B!Set(q) \cup formSkipped \cup Contents
RowsStay ==
  /\ Keeps(formStored.queue)
  /\ formForm.queue # <<>> => Keeps(formForm.queue)
  /\ \A s \in formSaves : s.reader # "none" /\ s.queue # <<>> => Keeps(s.queue)

\* A row that the builder has saved and is still to hear of.
Saving(r) == \E s \in formSaves : s.reader = "builder" /\ s.state = "done" /\ s.content = r

\* A row with a campaign has just this one, and is not offered again.
RowsOnce ==
  /\ Contents \subseteq 0..formRows \cup {B!Old}
  /\ \A r \in (1..formRows) \ formDoubtful :
       /\ \A c, d \in 1..Len(formCampaigns) :
            formCampaigns[c].content = r /\ formCampaigns[d].content = r => c = d
       /\ \A s \in formSaves : s.content = r /\ s.state = "sent" => r \notin Contents
       /\ r \in Contents /\ r \in B!Set(formStored.queue) => Saving(r)
       /\ r \in Contents /\ r \in B!Set(formForm.queue) =>
            Saving(r) \/ (formPlace = "leaving" /\ formForm.queue = <<r>>)

FormInv ==
  /\ FormTypes /\ FormFits /\ FormAsks /\ FormFlags
  /\ SavesFit /\ OneWaits /\ RowsStay /\ RowsOnce

-----------------------------------------------------------------------------
(* The form of a campaign: what it holds *)

LEMMA FormFacts ==
  /\ First \in Accounts /\ PostOwner \in [Posts -> Accounts]
  /\ None \notin Accounts /\ None \notin Posts
  /\ MaxRows \in Nat /\ B!Old = MaxRows + 1 /\ B!Blank = 0
BY DashboardBounds DEF B!FormBounds, B!Old, B!Blank

\* An account is chosen, whatever was selected.
LEMMA Effectively ==
  ASSUME NEW x \in Accounts \cup {None}
  PROVE  /\ B!Effective(x) \in Accounts /\ B!Effective(B!Effective(x)) = B!Effective(x)
         /\ x # None => B!Effective(x) = x
BY FormFacts DEF B!Effective

\* The first of the rows to come, and those after it.
LEMMA FirstAndRest ==
  ASSUME NEW q \in Seq(Nat), q # <<>>
  PROVE  /\ Tail(q) \in Seq(Nat) /\ Head(q) \in Nat /\ Head(q) \in B!Set(q)
         /\ B!Set(q) = {Head(q)} \cup B!Set(Tail(q))
         /\ Len(q) > 1 => Tail(q) # <<>>
         /\ ~ (Len(q) > 1) => q = <<Head(q)>> /\ B!Set(q) = {Head(q)}
         /\ RowQueue(q) => /\ RowQueue(Tail(q)) /\ Head(q) \in 1..formRows
                           /\ Head(q) \notin B!Set(Tail(q))
<1>1. /\ Tail(q) \in Seq(Nat) /\ Len(q) \in Nat /\ Len(q) >= 1 /\ Len(Tail(q)) = Len(q) - 1
      /\ \A i \in 1..Len(Tail(q)) : Tail(q)[i] = q[i + 1]
      /\ Head(q) = q[1] /\ Head(q) \in Nat
  OBVIOUS
<1> HIDE DEF RowQueue
<1>2. Head(q) \in B!Set(q)
  BY <1>1 DEF B!Set
<1>3. B!Set(q) = {Head(q)} \cup B!Set(Tail(q))
  <2>1. ASSUME NEW r \in B!Set(q) PROVE r \in {Head(q)} \cup B!Set(Tail(q))
    <3>1. PICK i \in 1..Len(q) : r = q[i]
      BY <2>1 DEF B!Set
    <3>2. CASE i = 1
      BY <3>1, <3>2, <1>1
    <3>3. CASE i # 1
      <4>1. i - 1 \in 1..Len(Tail(q)) /\ r = Tail(q)[i - 1]
        BY <3>1, <3>3, <1>1
      <4> QED BY <4>1 DEF B!Set
    <3> QED BY <3>2, <3>3
  <2>2. ASSUME NEW r \in B!Set(Tail(q)) PROVE r \in B!Set(q)
    <3>1. PICK i \in 1..Len(Tail(q)) : r = Tail(q)[i]
      BY <2>2 DEF B!Set
    <3>2. i + 1 \in 1..Len(q) /\ r = q[i + 1]
      BY <3>1, <1>1
    <3> QED BY <3>2 DEF B!Set
  <2> QED BY <2>1, <2>2, <1>2
<1>4. Len(q) > 1 => Tail(q) # <<>>
  <2>1. Len(<<>>) = 0
    OBVIOUS
  <2>2. Len(q) > 1 => Len(Tail(q)) # 0
    BY <1>1
  <2> QED BY <2>1, <2>2
<1>5. ~ (Len(q) > 1) => q = <<Head(q)>> /\ B!Set(q) = {Head(q)}
  <2> SUFFICES ASSUME ~ (Len(q) > 1) PROVE q = <<Head(q)>> /\ B!Set(q) = {Head(q)}
    OBVIOUS
  <2>1. Len(q) = 1
    BY <1>1
  <2>2. q = <<Head(q)>>
    BY <2>1, <1>1
  <2>3. 1..Len(q) = {1}
    BY <2>1
  <2> QED BY <2>2, <2>3, <1>1 DEF B!Set
<1>6. RowQueue(q) => /\ RowQueue(Tail(q)) /\ Head(q) \in 1..formRows
                     /\ Head(q) \notin B!Set(Tail(q))
  <2> SUFFICES ASSUME RowQueue(q)
      PROVE /\ RowQueue(Tail(q)) /\ Head(q) \in 1..formRows
            /\ Head(q) \notin B!Set(Tail(q))
    OBVIOUS
  <2>1. /\ \A i \in 1..Len(q) : q[i] \in 1..formRows
        /\ \A i, j \in 1..Len(q) : i # j => q[i] # q[j]
    BY DEF RowQueue
  <2>2. \A i \in 1..Len(Tail(q)) : i + 1 \in 1..Len(q) /\ Tail(q)[i] = q[i + 1] /\ i + 1 # 1
    BY <1>1
  <2>3. RowQueue(Tail(q))
    BY <2>1, <2>2 DEF RowQueue
  <2>4. Head(q) \in 1..formRows
    BY <2>1, <1>1
  <2>5. Head(q) \notin B!Set(Tail(q))
    BY <2>1, <2>2, <1>1 DEF B!Set
  <2> QED BY <2>3, <2>4, <2>5
<1> QED BY <1>1, <1>2, <1>3, <1>4, <1>5, <1>6

\* Rows that are staged later leave the queues as they are.
LEMMA RowQueueGrows ==
  ASSUME NEW q \in Seq(Nat), RowQueue(q), formRows \in Nat, formRows' \in Nat,
         formRows <= formRows'
  PROVE  RowQueue(q)'
BY DEF RowQueue

LEMMA MoreThanOne ==
  ASSUME NEW q \in Seq(Nat), Len(q) > 1
  PROVE  \A r : q # <<r>>
<1>1. Len(q) # 1
  <2>1. Len(q) \in Nat
    OBVIOUS
  <2>2. \A n \in Nat : n > 1 => n # 1
    OBVIOUS
  <2> QED BY <2>1, <2>2
<1>2. ASSUME NEW r, q = <<r>> PROVE FALSE
  <2>1. Len(q) = Len(<<r>>)
    BY <1>2
  <2>2. Len(<<r>>) = 1
    OBVIOUS
  <2> QED BY <1>1, <2>1, <2>2
<1> QED BY <1>2

LEMMA EmptyQueue ==
  /\ <<>> \in Seq(Nat) /\ RowQueue(<<>>) /\ B!Set(<<>>) = {} /\ RowQueue(<<>>)'
BY DEF RowQueue, B!Set

-----------------------------------------------------------------------------
(* The form of a campaign: its steps *)

\* Steps of the form that leave the saves, and the form's rows, as they are.
LEMMA RowsUntouched ==
  ASSUME SavesFit, OneWaits, RowsStay, RowsOnce,
         UNCHANGED <<formPlace, formSaves, formStored, formCampaigns, formRows, formStaged,
                     formSkipped, formDoubtful>>,
         formForm'.queue = formForm.queue,
         \A s \in formSaves : s.reader = "builder" =>
           /\ formForm'.saving /\ ~ formForm'.loading /\ formForm'.account # None
           /\ formForm'.edited = formForm.edited
  PROVE  SavesFit' /\ OneWaits' /\ RowsStay' /\ RowsOnce'
<1>1. Contents' = Contents
  BY DEF Contents
<1>2. \A q : RowQueue(q)' <=> RowQueue(q)
  BY DEF RowQueue
<1>3. \A q : Keeps(q)' <=> Keeps(q)
  BY <1>1 DEF Keeps
<1>4. \A r : Saving(r)' <=> Saving(r)
  BY DEF Saving
<1> HIDE DEF Contents, RowQueue, Keeps, Saving
<1>5. SavesFit'
  <2> SUFFICES ASSUME NEW s \in formSaves PROVE SaveFits(s)'
    BY DEF SavesFit
  <2>1. SaveFits(s)
    BY DEF SavesFit
  <2>2. RowQueue(s.queue)'
    BY <2>1, <1>2 DEF SaveFits
  <2>3. s \in Save' /\ Filled(s, TRUE)' /\ OwnPost(s)'
    BY <2>1 DEF SaveFits, Save, Filled, OwnPost
  <2>4. /\ s.state = "done" /\ s.edited = 0 => s.content \in Contents'
        /\ s.reader # "builder" => s.content \in formDoubtful'
        /\ s.reader = "tab" => B!Set(s.queue) \subseteq formDoubtful'
        /\ s.reader = "builder" =>
             /\ formPlace' \in {"builder", "leaving"}
             /\ s.edited = formForm'.edited /\ s.queue = formForm'.queue
    BY <2>1, <1>1 DEF SaveFits
  <2> QED BY <2>2, <2>3, <2>4 DEF SaveFits, B!Set
<1>6. OneWaits'
  BY DEF OneWaits
<1>7. RowsStay'
  BY <1>3 DEF RowsStay
<1>8. RowsOnce'
  BY <1>1, <1>4 DEF RowsOnce, B!Set, B!Old
<1> QED BY <1>5, <1>6, <1>7, <1>8

LEMMA FormIsField ==
  B!Form \in Fields /\ RowQueue(B!Form.queue) /\ Filled(B!Form, TRUE)
BY EmptyQueue, FormFacts DEF B!Form, Fields, Filled

\* What the builder asks for.
LEMMA AsksFit ==
  /\ \A x \in Accounts \cup {None}, c \in BOOLEAN : \A b \in B!Asks(x, c) :
       AskFits(b) /\ b.kind \notin {"campaign", "accounts"}
  /\ AskFits(B!Ask("accounts", First, FALSE)) /\ B!Ask("accounts", First, FALSE).kind = "accounts"
  /\ AskFits(B!Ask("campaign", First, FALSE)) /\ B!Ask("campaign", First, FALSE).kind = "campaign"
<1>1. ASSUME NEW x \in Accounts \cup {None}, NEW c \in BOOLEAN, NEW b \in B!Asks(x, c)
      PROVE AskFits(b) /\ b.kind \notin {"campaign", "accounts"}
  <2>1. b = B!Ask("library", B!Effective(x), c) \/ (x # None /\ b = B!Ask("used", x, FALSE))
    BY <1>1 DEF B!Asks
  <2>2. CASE b = B!Ask("library", B!Effective(x), c)
    BY <2>2, Effectively DEF B!Ask, AskFits
  <2>3. CASE x # None /\ b = B!Ask("used", x, FALSE)
    BY <2>3 DEF B!Ask, AskFits
  <2> QED BY <2>1, <2>2, <2>3
<1>2. AskFits(B!Ask("accounts", First, FALSE)) /\ B!Ask("accounts", First, FALSE).kind = "accounts"
  BY FormFacts DEF AskFits, B!Ask
<1>3. AskFits(B!Ask("campaign", First, FALSE)) /\ B!Ask("campaign", First, FALSE).kind = "campaign"
  BY FormFacts DEF AskFits, B!Ask
<1> QED BY <1>1, <1>2, <1>3

\* The builder opens on the rows q, or on the campaign e.
LEMMA BuilderOpens ==
  ASSUME NEW q \in Seq(Nat), NEW x \in Accounts \cup {None}, NEW e \in {0, 1},
         NEW c \in BOOLEAN, q # <<>> => e = 0, B!Opens(q, x, e, c)
  PROVE  /\ formPlace' = "builder" /\ formForm' \in Fields /\ formForm'.queue = q
         /\ Filled(formForm, ~ formForm.loading)' /\ (formForm'.loading => formForm'.edited # 0)
         /\ formForm'.post = None /\ FormAsks' /\ FormFlags'
<1>1. PICK f : f = B!Form
  OBVIOUS
<1>2. PICK h : h = IF q = <<>> THEN B!Blank ELSE Head(q)
  OBVIOUS
<1>3. PICK l : l = IF c /\ e = 0 THEN B!Effective(x) ELSE None
  OBVIOUS
<1>4. /\ f \in Fields /\ f.made = {} /\ f.used = {} /\ f.post = None
      /\ h \in Nat /\ l \in Accounts \cup {None}
  <2>1. f \in Fields
    BY <1>1, FormIsField
  <2>2. f.made = {} /\ f.used = {} /\ f.post = None
    BY <1>1 DEF B!Form
  <2>3. h \in Nat
    BY <1>2, FirstAndRest, FormFacts
  <2>4. l \in Accounts \cup {None}
    BY <1>3, Effectively
  <2> QED BY <2>1, <2>2, <2>3, <2>4
<1>5. formPlace' = "builder"
       /\ formForm' = [f EXCEPT !.queue = q, !.edited = e, !.loading = e # 0, !.content = h,
                                !.account = x, !.library = l]
  BY <1>1, <1>2, <1>3 DEF B!Opens
<1>6. /\ formForm' \in Fields /\ formForm'.queue = q /\ formForm'.edited = e
      /\ formForm'.loading = (e # 0)
      /\ formForm'.content = IF q = <<>> THEN B!Blank ELSE Head(q)
      /\ formForm'.post = None /\ formForm'.made = {} /\ formForm'.used = {}
  <2>1. (e # 0) \in BOOLEAN
    OBVIOUS
  <2>2. formForm' \in Fields
    BY <1>4, <1>5, <2>1 DEF Fields
  <2>3. /\ formForm'.queue = q /\ formForm'.edited = e /\ formForm'.loading = (e # 0)
        /\ formForm'.content = h /\ formForm'.post = f.post
        /\ formForm'.made = f.made /\ formForm'.used = f.used
    BY <1>4, <1>5 DEF Fields
  <2> QED BY <2>2, <2>3, <1>4, <1>2
<1>7. Filled(formForm, ~ formForm.loading)' /\ (formForm'.loading => formForm'.edited # 0)
  BY <1>6 DEF Filled
<1>8. \A a \in formAsked' : \/ a = B!Ask("accounts", First, FALSE)
                            \/ e = 0 /\ a \in B!Asks(x, c)
                            \/ e # 0 /\ a = B!Ask("campaign", First, FALSE)
  BY DEF B!Opens
<1>9. \A a \in formAsked' : AskFits(a) /\ (a.kind = "campaign" => e # 0)
  BY <1>8, AsksFit
<1>10. \A a \in formAsked' : AskFits(a)' /\ (a.kind = "campaign" => e # 0)
  BY <1>9 DEF AskFits, Listing, Campaign, OwnPost
<1>11. FormAsks'
  BY <1>6, <1>10 DEF FormAsks, AskFits
<1>12. FormFlags'
  BY <1>6 DEF FormFlags, B!UsedIsFlagged
<1> QED BY <1>5, <1>6, <1>7, <1>11, <1>12

\* The builder is gone, or is a new one: its saves are nobody's, or the tab's.
LEMMA BuilderIsGone ==
  ASSUME FormTypes, FormFits, SavesFit, RowsStay, RowsOnce,
         UNCHANGED <<formStored, formCampaigns, formRows, formStaged, formSkipped>>,
         formDoubtful \subseteq formDoubtful',
         \A s \in formSaves' :
           /\ \E t \in formSaves, w \in {"tab", "none"} :
                s = [t EXCEPT !.reader = w] /\ (w = "tab" => t.reader # "none")
           /\ s.content \in formDoubtful'
           /\ s.reader = "tab" => B!Set(s.queue) \subseteq formDoubtful',
         \A s \in formSaves : s.reader = "builder" => s.content \in formDoubtful',
         formForm'.queue \in {<<>>, formStored.queue}
  PROVE  SavesFit' /\ OneWaits' /\ RowsStay' /\ RowsOnce'
<1>1. Contents' = Contents
  BY DEF Contents
<1>2. \A q : RowQueue(q)' <=> RowQueue(q)
  BY DEF RowQueue
<1>3. \A q : Keeps(q)' <=> Keeps(q)
  BY <1>1 DEF Keeps
<1> HIDE DEF Contents, RowQueue, Keeps, Saving
<1>4. ASSUME NEW s \in formSaves'
      PROVE \E t \in formSaves :
              /\ s \in Save /\ s.content = t.content /\ s.queue = t.queue /\ s.edited = t.edited
              /\ s.state = t.state /\ OwnPost(s) /\ Filled(s, TRUE)
              /\ s.reader # "builder" /\ (s.reader # "none" => t.reader # "none")
  <2>1. PICK t \in formSaves, w \in {"tab", "none"} :
          s = [t EXCEPT !.reader = w] /\ (w = "tab" => t.reader # "none")
    OBVIOUS
  <2>2. t \in Save /\ OwnPost(t) /\ Filled(t, TRUE)
    BY DEF SavesFit, SaveFits
  <2>3. /\ s \in Save /\ s.content = t.content /\ s.queue = t.queue /\ s.edited = t.edited
        /\ s.state = t.state /\ s.post = t.post /\ s.astray = t.astray
        /\ s.account = t.account /\ s.reader = w
    BY <2>1, <2>2 DEF Save
  <2>4. OwnPost(s) /\ Filled(s, TRUE)
    BY <2>2, <2>3 DEF OwnPost, Filled
  <2> QED BY <2>1, <2>3, <2>4
<1>5. SavesFit'
  <2> SUFFICES ASSUME NEW s \in formSaves' PROVE SaveFits(s)'
    BY DEF SavesFit
  <2>1. PICK t \in formSaves :
              /\ s \in Save /\ s.content = t.content /\ s.queue = t.queue /\ s.edited = t.edited
              /\ s.state = t.state /\ OwnPost(s) /\ Filled(s, TRUE)
              /\ s.reader # "builder" /\ (s.reader # "none" => t.reader # "none")
    BY <1>4
  <2>2. SaveFits(t)
    BY DEF SavesFit
  <2>3. RowQueue(s.queue)'
    BY <2>1, <2>2, <1>2 DEF SaveFits
  <2>4. (s \in Save)' /\ Filled(s, TRUE)' /\ OwnPost(s)'
    BY <2>1 DEF Save, Filled, OwnPost
  <2>5. s.state = "done" /\ s.edited = 0 => s.content \in Contents'
    BY <2>1, <2>2, <1>1 DEF SaveFits
  <2>6. /\ s.content \in formDoubtful'
        /\ s.reader = "tab" => B!Set(s.queue) \subseteq formDoubtful'
    OBVIOUS
  <2> QED BY <2>1, <2>3, <2>4, <2>5, <2>6 DEF SaveFits, B!Set
<1>6. OneWaits'
  BY <1>4 DEF OneWaits
<1>7. RowsStay'
  <2>1. Keeps(formStored.queue)'
    BY <1>3 DEF RowsStay
  <2>2. formForm'.queue # <<>> => Keeps(formForm.queue)'
    BY <1>3 DEF RowsStay
  <2>3. ASSUME NEW s \in formSaves', s.reader # "none", s.queue # <<>> PROVE Keeps(s.queue)'
    <3>1. PICK t \in formSaves : s.queue = t.queue /\ t.reader # "none"
      BY <1>4, <2>3
    <3>2. Keeps(t.queue)
      BY <3>1, <2>3 DEF RowsStay
    <3> QED BY <3>1, <3>2, <1>3
  <2> QED BY <2>1, <2>2, <2>3 DEF RowsStay
<1>8. RowsOnce'
  <2>1. Contents' \subseteq 0..formRows' \cup {B!Old}
    BY <1>1 DEF RowsOnce
  <2>2. ASSUME NEW r \in (1..formRows) \ formDoubtful'
        PROVE /\ \A c, d \in 1..Len(formCampaigns) :
                   formCampaigns[c].content = r /\ formCampaigns[d].content = r => c = d
              /\ \A s \in formSaves' : s.content = r /\ s.state = "sent" => r \notin Contents
              /\ r \in Contents => r \notin B!Set(formStored.queue)
                                /\ r \notin B!Set(formForm'.queue)
    <3>1. r \in (1..formRows) \ formDoubtful
      OBVIOUS
    <3>2. r \in Contents => r \notin B!Set(formStored.queue)
      BY <3>1, <2>2 DEF RowsOnce, Saving
    <3> QED BY <3>1, <3>2, <1>4, EmptyQueue DEF RowsOnce
  <2> QED BY <2>1, <2>2, <1>1 DEF RowsOnce, B!Set, B!Old
<1> QED BY <1>5, <1>6, <1>7, <1>8

\* The builder opens on what is stored, or on a campaign.
LEMMA BuilderResumes ==
  ASSUME FormInv, NEW e \in {0, 1}, NEW c \in BOOLEAN, B!Resumes(e, c),
         UNCHANGED <<formStored, formCampaigns, formRows>>, IsFiniteSet(formSaves')
  PROVE  /\ FormTypes' /\ FormFits' /\ FormAsks' /\ FormFlags'
         /\ formForm'.queue \in {<<>>, formStored.queue}
<1>1. /\ formStored \in Storage /\ formStored.queue \in Seq(Nat)
      /\ formStored.account \in Accounts \cup {None} /\ RowQueue(formStored.queue)
  BY DEF FormInv, FormTypes, FormFits, Storage
<1>2. PICK q \in Seq(Nat), x \in Accounts \cup {None} :
        /\ q = <<>> \/ q = formStored.queue
        /\ q # <<>> => e = 0
        /\ B!Opens(q, x, e, c)
  <2>1. CASE e = 0 /\ formStored.queue # <<>>
    BY <2>1, <1>1 DEF B!Resumes
  <2>2. CASE ~ (e = 0 /\ formStored.queue # <<>>)
    BY <2>2, EmptyQueue DEF B!Resumes
  <2> QED BY <2>1, <2>2
<1>3. /\ formPlace' = "builder" /\ formForm' \in Fields /\ formForm'.queue = q
      /\ Filled(formForm, ~ formForm.loading)' /\ (formForm'.loading => formForm'.edited # 0)
      /\ formForm'.post = None /\ FormAsks' /\ FormFlags'
  BY <1>2, BuilderOpens
<1>4. RowQueue(q)' /\ RowQueue(formStored.queue)'
  BY <1>1, <1>2, EmptyQueue DEF RowQueue
<1>5. FormFits'
  BY <1>3, <1>4 DEF FormFits
<1>6. FormTypes'
  BY <1>3 DEF FormInv, FormTypes, Fields, Storage, Listing, Campaign, OwnPost
<1> QED BY <1>2, <1>3, <1>5, <1>6

\* What is said of a save with this reader is said of it with another.
LEMMA AnotherReader ==
  ASSUME NEW s \in Save, NEW w \in {"builder", "tab", "none"}
  PROVE  /\ [s EXCEPT !.reader = w].content = s.content
         /\ [s EXCEPT !.reader = w].queue = s.queue
         /\ [s EXCEPT !.reader = w].reader = w
         /\ [s EXCEPT !.reader = s.reader] = s
BY DEF Save

LEMMA OpenBuilderForm ==
  ASSUME FormInv, NEW e \in {0, 1}, NEW c \in BOOLEAN, B!OpenBuilder(e, c)
  PROVE  FormInv'
<1>1. /\ formPlace = "list" /\ B!Resumes(e, c)
      /\ UNCHANGED <<formSaves, formStored, formCampaigns, formRows, formStaged, formSkipped,
                     formDoubtful>>
  BY DEF B!OpenBuilder, B!watched
<1>2. /\ FormTypes' /\ FormFits' /\ FormAsks' /\ FormFlags'
      /\ formForm'.queue \in {<<>>, formStored.queue}
  BY <1>1, BuilderResumes DEF FormInv, FormTypes
<1>3. \A s \in formSaves : /\ s \in Save /\ s.reader \in {"tab", "none"}
                           /\ s.content \in formDoubtful
                           /\ s.reader = "tab" => B!Set(s.queue) \subseteq formDoubtful
  <2>1. ASSUME NEW s \in formSaves
        PROVE /\ s \in Save /\ s.reader \in {"tab", "none"} /\ s.content \in formDoubtful
              /\ s.reader = "tab" => B!Set(s.queue) \subseteq formDoubtful
    <3>1. SaveFits(s)
      BY DEF FormInv, SavesFit
    <3>2. s.reader # "builder"
      BY <3>1, <1>1 DEF SaveFits
    <3> QED BY <3>1, <3>2 DEF SaveFits, Save
  <2> QED BY <2>1
<1>4. \A s \in formSaves' : \E t \in formSaves, w \in {"tab", "none"} :
        s = [t EXCEPT !.reader = w] /\ (w = "tab" => t.reader # "none")
  <2>1. ASSUME NEW s \in formSaves
        PROVE \E t \in formSaves, w \in {"tab", "none"} :
                s = [t EXCEPT !.reader = w] /\ (w = "tab" => t.reader # "none")
    <3>1. s = [s EXCEPT !.reader = s.reader] /\ s.reader \in {"tab", "none"}
      BY <1>3, AnotherReader
    <3> QED BY <3>1
  <2> QED BY <2>1, <1>1
<1>5. SavesFit' /\ OneWaits' /\ RowsStay' /\ RowsOnce'
  <2>1. \A s \in formSaves' : /\ s.content \in formDoubtful'
                              /\ s.reader = "tab" => B!Set(s.queue) \subseteq formDoubtful'
    BY <1>1, <1>3
  <2>2. \A s \in formSaves : s.reader = "builder" => s.content \in formDoubtful'
    BY <1>1, <1>3
  <2>3. FormTypes /\ FormFits /\ SavesFit /\ RowsStay /\ RowsOnce
    BY DEF FormInv
  <2> QED BY <1>1, <1>2, <1>4, <2>1, <2>2, <2>3, BuilderIsGone
<1> QED BY <1>2, <1>5 DEF FormInv

LEMMA ReloadForm ==
  ASSUME FormInv, NEW c \in BOOLEAN, B!Reload(c)
  PROVE  FormInv'
<1>1. /\ B!Resumes(formForm.edited, c)
      /\ formSaves' = {[s EXCEPT !.reader = "none"] : s \in formSaves}
      /\ formDoubtful' = formDoubtful \cup {s.content : s \in formSaves}
      /\ UNCHANGED <<formStored, formCampaigns, formRows, formStaged, formSkipped>>
  BY DEF B!Reload
<1>2. IsFiniteSet(formSaves')
  <2>1. IsFiniteSet(formSaves)
    BY DEF FormInv, FormTypes
  <2>2. PICK f : f = [s \in formSaves |-> [s EXCEPT !.reader = "none"]]
    OBVIOUS
  <2>3. f \in Surjection(formSaves, formSaves')
    BY <1>1, <2>2 DEF Surjection
  <2> QED BY <2>1, <2>3, FS_Surjection
<1>3. /\ FormTypes' /\ FormFits' /\ FormAsks' /\ FormFlags'
      /\ formForm'.queue \in {<<>>, formStored.queue}
  <2>1. formForm.edited \in {0, 1}
    BY DEF FormInv, FormTypes, Fields
  <2> QED BY <2>1, <1>1, <1>2, BuilderResumes
<1>4. \A s \in formSaves : s \in Save
  BY DEF FormInv, SavesFit, SaveFits
<1>5. \A s \in formSaves' : /\ \E t \in formSaves, w \in {"tab", "none"} :
                                   s = [t EXCEPT !.reader = w] /\ (w = "tab" => t.reader # "none")
                            /\ s.content \in formDoubtful' /\ s.reader # "tab"
  <2>1. ASSUME NEW s \in formSaves'
        PROVE /\ \E t \in formSaves, w \in {"tab", "none"} :
                   s = [t EXCEPT !.reader = w] /\ (w = "tab" => t.reader # "none")
              /\ s.content \in formDoubtful' /\ s.reader # "tab"
    <3>1. PICK t \in formSaves : s = [t EXCEPT !.reader = "none"]
      BY <1>1
    <3>2. s.content = t.content /\ s.reader = "none"
      BY <3>1, <1>4, AnotherReader
    <3>3. s.content \in formDoubtful'
      BY <3>2, <1>1
    <3>4. \E w \in {"tab", "none"} :
            s = [t EXCEPT !.reader = w] /\ (w = "tab" => t.reader # "none")
      BY <3>1
    <3> QED BY <3>2, <3>3, <3>4
  <2> QED BY <2>1
<1>6. SavesFit' /\ OneWaits' /\ RowsStay' /\ RowsOnce'
  <2>1. formDoubtful \subseteq formDoubtful'
        /\ \A s \in formSaves : s.content \in formDoubtful'
    BY <1>1
  <2>2. FormTypes /\ FormFits /\ SavesFit /\ RowsStay /\ RowsOnce
    BY DEF FormInv
  <2> QED BY <1>1, <1>3, <1>5, <2>1, <2>2, BuilderIsGone
<1> QED BY <1>3, <1>6 DEF FormInv

LEMMA GoToForm ==
  ASSUME FormInv, NEW page \in {"list", "import"}, B!GoTo(page)
  PROVE  FormInv'
<1>1. /\ formPlace' = page /\ formForm' = B!Form /\ formAsked' = {}
      /\ formSaves' = {IF s.reader = "none" THEN s ELSE [s EXCEPT !.reader = "tab"]
                          : s \in formSaves}
      /\ formDoubtful' = formDoubtful \cup UNION {B!AtStake(s) : s \in formSaves}
      /\ UNCHANGED <<formStored, formCampaigns, formRows, formStaged, formSkipped>>
  BY DEF B!GoTo
<1>2. IsFiniteSet(formSaves')
  <2>1. IsFiniteSet(formSaves)
    BY DEF FormInv, FormTypes
  <2>2. PICK f : f = [s \in formSaves |-> IF s.reader = "none" THEN s
                                          ELSE [s EXCEPT !.reader = "tab"]]
    OBVIOUS
  <2>3. f \in Surjection(formSaves, formSaves')
    BY <1>1, <2>2 DEF Surjection
  <2> QED BY <2>1, <2>3, FS_Surjection
<1>3. FormTypes'
  BY <1>1, <1>2, FormIsField DEF FormInv, FormTypes, Fields, Storage, Listing, Campaign, OwnPost
<1>4. FormFits'
  <2>1. RowQueue(B!Form.queue)' /\ RowQueue(formStored.queue)'
    BY <1>1, EmptyQueue DEF FormInv, FormFits, RowQueue, B!Form
  <2> QED BY <2>1, <1>1 DEF FormFits, B!Form, Filled
<1>5. FormAsks' /\ FormFlags'
  BY <1>1 DEF FormAsks, FormFlags, B!UsedIsFlagged, B!Form
<1>6. \A s \in formSaves : s \in Save /\ s.reader \in {"builder", "tab", "none"}
  BY DEF FormInv, SavesFit, SaveFits, Save
<1>7. ASSUME NEW t \in formSaves
      PROVE /\ t.content \in formDoubtful'
            /\ t.reader # "none" => B!Set(t.queue) \subseteq formDoubtful'
  BY <1>1 DEF B!AtStake
<1>8. \A s \in formSaves' : /\ \E t \in formSaves, w \in {"tab", "none"} :
                                   s = [t EXCEPT !.reader = w] /\ (w = "tab" => t.reader # "none")
                            /\ s.content \in formDoubtful'
                            /\ s.reader = "tab" => B!Set(s.queue) \subseteq formDoubtful'
  <2>1. ASSUME NEW s \in formSaves'
        PROVE /\ \E t \in formSaves, w \in {"tab", "none"} :
                   s = [t EXCEPT !.reader = w] /\ (w = "tab" => t.reader # "none")
              /\ s.content \in formDoubtful'
              /\ s.reader = "tab" => B!Set(s.queue) \subseteq formDoubtful'
    <3>1. PICK t \in formSaves :
            s = IF t.reader = "none" THEN t ELSE [t EXCEPT !.reader = "tab"]
      BY <1>1
    <3>2. CASE t.reader = "none"
      BY <3>1, <3>2, <1>6, <1>7, AnotherReader
    <3>3. CASE t.reader # "none"
      <4>1. s = [t EXCEPT !.reader = "tab"] /\ s.content = t.content /\ s.queue = t.queue
        BY <3>1, <3>3, <1>6, AnotherReader
      <4> QED BY <4>1, <3>3, <1>7
    <3> QED BY <3>2, <3>3
  <2> QED BY <2>1
<1>9. SavesFit' /\ OneWaits' /\ RowsStay' /\ RowsOnce'
  <2>1. formDoubtful \subseteq formDoubtful'
        /\ \A s \in formSaves : s.content \in formDoubtful'
    BY <1>1, <1>7
  <2>2. FormTypes /\ FormFits /\ SavesFit /\ RowsStay /\ RowsOnce
    BY DEF FormInv
  <2>3. formForm'.queue = <<>>
    BY <1>1 DEF B!Form
  <2> QED BY <1>1, <1>8, <2>1, <2>2, <2>3, BuilderIsGone
<1> QED BY <1>3, <1>4, <1>5, <1>9 DEF FormInv

\* The rows of a file are new, and replace those stored.
LEMMA StartImportForm ==
  ASSUME FormInv, NEW n \in 1..MaxRows, NEW x \in Accounts \cup {None}, NEW c \in BOOLEAN,
         B!StartImport(n, x, c)
  PROVE  FormInv'
<1>1. PICK q : q = [i \in 1..n |-> formRows + i]
  OBVIOUS
<1>2. PICK kept : kept = IF x = None THEN formStored.account ELSE x
  OBVIOUS
<1>3. /\ formPlace = "import" /\ formRows + n <= MaxRows
      /\ formStored' = [queue |-> q, account |-> kept]
      /\ formStaged' = IF \A s \in formSaves : s.reader = "none" THEN B!Set(q) ELSE {}
      /\ B!Opens(q, kept, 0, c)
      /\ formRows' = formRows + n
      /\ UNCHANGED <<formSaves, formCampaigns, formSkipped, formDoubtful>>
  BY <1>1, <1>2 DEF B!StartImport
<1>4. /\ formRows \in Nat /\ n \in Nat /\ n >= 1 /\ formRows' \in 0..MaxRows /\ MaxRows \in Nat
      /\ formRows <= formRows' /\ formRows' \in Nat
  BY <1>3, FormFacts DEF FormInv, FormTypes
<1>5. /\ q \in Seq(Nat) /\ Len(q) = n /\ \A i \in 1..n : q[i] = formRows + i
  BY <1>1, <1>4
<1>6. RowQueue(q)'
  BY <1>3, <1>4, <1>5 DEF RowQueue
<1>7. \A r \in B!Set(q) : r \in Nat /\ formRows < r /\ r <= MaxRows
  BY <1>3, <1>4, <1>5 DEF B!Set
<1>8. kept \in Accounts \cup {None}
  BY <1>2, FormFacts DEF FormInv, FormTypes, Storage
<1>9. /\ formPlace' = "builder" /\ formForm' \in Fields /\ formForm'.queue = q
      /\ Filled(formForm, ~ formForm.loading)' /\ (formForm'.loading => formForm'.edited # 0)
      /\ formForm'.post = None /\ FormAsks' /\ FormFlags'
  BY <1>3, <1>5, <1>8, BuilderOpens
<1>10. FormTypes'
  BY <1>3, <1>4, <1>5, <1>8, <1>9
     DEF FormInv, FormTypes, Fields, Storage, Listing, Campaign, OwnPost
<1>11. FormFits'
  BY <1>3, <1>6, <1>9 DEF FormFits
<1>12. Contents' = Contents /\ Contents \subseteq 0..formRows \cup {B!Old}
  BY <1>3 DEF Contents, FormInv, RowsOnce
<1> HIDE DEF Contents
<1>13. ASSUME NEW s \in formSaves PROVE SaveFits(s)' /\ s.reader # "builder"
  <2>1. SaveFits(s)
    BY DEF FormInv, SavesFit
  <2>2. s.reader # "builder" /\ s.queue \in Seq(Nat)
    BY <2>1, <1>3 DEF SaveFits, Save
  <2>3. RowQueue(s.queue)'
    BY <2>1, <2>2, <1>4, RowQueueGrows DEF SaveFits
  <2>4. (s \in Save)' /\ Filled(s, TRUE)' /\ OwnPost(s)'
    BY <2>1 DEF SaveFits, Save, Filled, OwnPost
  <2>5. /\ s.state = "done" /\ s.edited = 0 => s.content \in Contents'
        /\ s.reader # "builder" => s.content \in formDoubtful'
        /\ s.reader = "tab" => B!Set(s.queue) \subseteq formDoubtful'
    BY <2>1, <1>3, <1>12 DEF SaveFits
  <2> QED BY <2>2, <2>3, <2>4, <2>5 DEF SaveFits, B!Set
<1>14. SavesFit' /\ OneWaits'
  BY <1>3, <1>13 DEF SavesFit, OneWaits
<1>15. RowsStay'
  <2>1. formStaged' = B!Set(q) \/ formStaged' = {}
    BY <1>3
  <2>2. formStored'.queue = q /\ formForm'.queue = q
    BY <1>3, <1>9
  <2>3. Keeps(q)'
    BY <2>1 DEF Keeps, B!Set
  <2>4. ASSUME NEW s \in formSaves, s.reader # "none" PROVE Keeps(s.queue)'
    BY <2>4, <1>3 DEF Keeps
  <2> QED BY <2>2, <2>3, <2>4, <1>3 DEF RowsStay
<1>16. RowsOnce'
  <2>1. Contents' \subseteq 0..formRows' \cup {B!Old}
    BY <1>12, <1>4
  <2>2. \A r \in B!Set(q) : r \notin Contents
    BY <1>7, <1>12, <1>4, FormFacts
  <2>3. formStored'.queue = q /\ formForm'.queue = q
    BY <1>3, <1>9
  <2>4. ASSUME NEW r \in (1..formRows') \ formDoubtful
        PROVE /\ \A i, j \in 1..Len(formCampaigns) :
                   formCampaigns[i].content = r /\ formCampaigns[j].content = r => i = j
              /\ \A s \in formSaves : s.content = r /\ s.state = "sent" => r \notin Contents
    <3>1. CASE r \in 1..formRows
      BY <3>1, <2>4 DEF FormInv, RowsOnce
    <3>2. CASE r \notin 1..formRows
      <4>1. r \notin Contents
        BY <3>2, <2>4, <1>4, <1>12, FormFacts
      <4> QED BY <4>1 DEF Contents
    <3> QED BY <3>1, <3>2
  <2> QED BY <2>1, <2>2, <2>3, <2>4, <1>3, <1>12 DEF RowsOnce, B!Set, B!Old
<1> QED BY <1>9, <1>10, <1>11, <1>14, <1>15, <1>16 DEF FormInv

\* Steps that change nothing but the fields of the form, and what is asked.
LEMMA FieldsMove ==
  ASSUME FormInv, formForm' \in Fields,
         formPlace \in {"list", "import"} => formForm' = formForm /\ formAsked' = formAsked,
         UNCHANGED <<formPlace, formSaves, formStored, formCampaigns, formRows, formStaged,
                     formSkipped, formDoubtful>>,
         formForm'.queue = formForm.queue, formForm'.edited = formForm.edited,
         formForm'.saving = formForm.saving,
         Filled(formForm, ~ formForm.loading)',
         formForm'.loading => formForm.loading,
         formForm.account # None => formForm'.account # None,
         formForm'.post # None /\ ~ formForm'.astray =>
           PostOwner[formForm'.post] = B!Effective(formForm'.account),
         FormAsks', FormFlags'
  PROVE  FormInv'
<1>1. FormTypes'
  BY DEF FormInv, FormTypes, Storage, Listing, Campaign, OwnPost, Fields
<1>2. FormFits'
  BY DEF FormInv, FormFits, RowQueue
<1>3. \A s \in formSaves : s.reader = "builder" =>
        /\ formForm'.saving /\ ~ formForm'.loading /\ formForm'.account # None
        /\ formForm'.edited = formForm.edited
  BY DEF FormInv, SavesFit, SaveFits
<1>4. SavesFit' /\ OneWaits' /\ RowsStay' /\ RowsOnce'
  BY <1>3, RowsUntouched DEF FormInv
<1> QED BY <1>1, <1>2, <1>4 DEF FormInv

LEMMA ReadForm ==
  ASSUME FormInv, NEW a, B!Read(a)
  PROVE  FormInv'
<1>1. /\ a \in formAsked
      /\ formAsked' = (formAsked \ {a}) \cup {[a EXCEPT !.seen = formCampaigns]}
      /\ UNCHANGED <<formPlace, formForm, formSaves, formStored, formCampaigns, formRows,
                     formStaged, formSkipped, formDoubtful>>
  BY DEF B!Read, B!watched
<1>2. FormTypes /\ FormFits /\ FormAsks /\ FormFlags /\ Listing(formCampaigns) /\ formForm \in Fields
  BY DEF FormInv, FormTypes
<1>3. AskFits(a)
  BY <1>1, <1>2 DEF FormAsks
<1>4. PICK b : b = [a EXCEPT !.seen = formCampaigns]
  OBVIOUS
<1>5. /\ b.kind = a.kind /\ b.account = a.account /\ b.seen = formCampaigns
      /\ {"kind", "account", "cached", "seen"} \subseteq DOMAIN b
  BY <1>3, <1>4 DEF AskFits
<1>6. AskFits(b)
  BY <1>2, <1>3, <1>5 DEF AskFits
<1>7. \A d \in formAsked' : AskFits(d) /\ (d.kind = "campaign" => formForm.loading)
  BY <1>1, <1>2, <1>4, <1>5, <1>6 DEF FormAsks
<1>8. FormAsks'
  BY <1>1, <1>7 DEF FormAsks, AskFits, Listing, Campaign, OwnPost
<1>9. FormFlags'
  BY <1>1, <1>2, <1>4, <1>5 DEF FormFlags, B!UsedIsFlagged
<1>10. formPlace \notin {"list", "import"}
  BY <1>1 DEF FormInv, FormTypes
<1> QED BY <1>1, <1>2, <1>8, <1>9, <1>10, FieldsMove DEF FormFits

LEMMA UsedArrivesForm ==
  ASSUME FormInv, NEW a \in formAsked, B!UsedArrives(a),
         UNCHANGED <<formPlace, formSaves, formStored, formCampaigns, formRows, formStaged,
                     formSkipped, formDoubtful>>
  PROVE  FormInv'
<1>1. PICK posts : posts =
        {a.seen[c].post : c \in {c \in 1..Len(a.seen) : a.seen[c].account = a.account
                                                          /\ c # formForm.edited}} \ {None}
  OBVIOUS
<1>2. /\ a.kind = "used" /\ a.seen # <<>> /\ formAsked' = formAsked \ {a}
      /\ formForm' = [formForm EXCEPT !.used = posts]
  BY <1>1 DEF B!UsedArrives
<1>3. FormTypes /\ FormFits /\ FormAsks /\ FormFlags /\ formForm \in Fields
  BY DEF FormInv, FormTypes
<1>4. posts \subseteq Posts
  <2>1. a.seen \in Seq(Campaign)
    BY <1>2, <1>3 DEF FormAsks, AskFits, Listing
  <2>2. \A c \in 1..Len(a.seen) : a.seen[c] \in Campaign
    BY <2>1
  <2> QED BY <1>1, <2>2 DEF Campaign
<1>5. /\ formForm' \in Fields /\ formForm'.queue = formForm.queue
      /\ formForm'.edited = formForm.edited /\ formForm'.saving = formForm.saving
      /\ formForm'.loading = formForm.loading /\ formForm'.content = formForm.content
      /\ formForm'.account = formForm.account /\ formForm'.post = formForm.post
      /\ formForm'.astray = formForm.astray /\ formForm'.made = formForm.made
      /\ formForm'.early = formForm.early
  BY <1>2, <1>3, <1>4 DEF Fields
<1>6. FormAsks'
  BY <1>2, <1>3, <1>5 DEF FormAsks, AskFits, Listing, Campaign, OwnPost
<1>7. FormFlags'
  BY <1>2, <1>3, <1>5 DEF FormFlags, B!UsedIsFlagged
<1>8. formPlace \notin {"list", "import"}
  BY DEF FormInv, FormTypes
<1>9. Filled(formForm, ~ formForm.loading)'
  BY <1>3, <1>5 DEF FormFits, Filled
<1> QED BY <1>3, <1>5, <1>6, <1>7, <1>8, <1>9, FieldsMove DEF FormFits

LEMMA CampaignArrivesForm ==
  ASSUME FormInv, NEW a \in formAsked, B!CampaignArrives(a),
         UNCHANGED <<formPlace, formSaves, formStored, formCampaigns, formRows, formStaged,
                     formSkipped, formDoubtful>>
  PROVE  FormInv'
<1>1. PICK k : k = a.seen[formForm.edited]
  OBVIOUS
<1>2. /\ a.kind = "campaign" /\ a.seen # <<>>
      /\ formForm' = [formForm EXCEPT !.loading = FALSE, !.content = k.content,
                                      !.account = k.account, !.post = k.post,
                                      !.astray = k.astray]
      /\ formAsked' = {b \in formAsked : \/ b.kind = "accounts"
                                         \/ b.kind = "used" /\ b.account = k.account}
                        \cup {b \in B!Asks(k.account, FALSE) :
                                b.kind = "used" => k.account # formForm.account}
  BY <1>1 DEF B!CampaignArrives
<1>3. FormTypes /\ FormFits /\ FormAsks /\ FormFlags /\ formForm \in Fields
  BY DEF FormInv, FormTypes
<1>4. formForm.loading /\ formForm.edited = 1 /\ formForm.queue = <<>> /\ formForm.made = {}
  <2>1. formForm.loading
    BY <1>2, <1>3 DEF FormAsks
  <2>2. formForm.edited = 1
    BY <1>3, <2>1 DEF FormFits, Fields
  <2> QED BY <1>3, <2>1, <2>2 DEF FormFits, Filled, FormFlags
<1>5. k \in Campaign /\ k.content = B!Old /\ OwnPost(k)
  <2>1. Listing(a.seen)
    BY <1>2, <1>3 DEF FormAsks, AskFits
  <2>2. 1 \in 1..Len(a.seen) /\ a.seen \in Seq(Campaign)
    BY <2>1 DEF Listing
  <2>3. a.seen[1] \in Campaign
    BY <2>2
  <2> QED BY <1>1, <1>4, <2>1, <2>2, <2>3 DEF Listing
<1>6. /\ formForm' \in Fields /\ formForm'.queue = formForm.queue
      /\ formForm'.edited = formForm.edited /\ formForm'.saving = formForm.saving
      /\ formForm'.loading = FALSE /\ formForm'.content = B!Old
      /\ formForm'.account = k.account /\ formForm'.post = k.post
      /\ formForm'.astray = k.astray /\ formForm'.made = formForm.made
      /\ formForm'.early = formForm.early
  BY <1>2, <1>3, <1>5 DEF Fields, Campaign
<1>7. k.account \in Accounts /\ k.account # None /\ B!Effective(k.account) = k.account
  BY <1>5, FormFacts, Effectively DEF Campaign
<1>8. \A b \in formAsked' : AskFits(b) /\ b.kind # "campaign"
  BY <1>2, <1>3, <1>7, AsksFit DEF FormAsks
<1>9. FormAsks'
  BY <1>8 DEF FormAsks, AskFits, Listing, Campaign, OwnPost
<1>10. FormFlags'
  BY <1>4, <1>6 DEF FormFlags, B!UsedIsFlagged
<1>11. formPlace \notin {"list", "import"}
  BY DEF FormInv, FormTypes
<1>12. Filled(formForm, ~ formForm.loading)'
  BY <1>4, <1>6 DEF Filled
<1>13. formForm'.post # None /\ ~ formForm'.astray =>
         PostOwner[formForm'.post] = B!Effective(formForm'.account)
  BY <1>5, <1>6, <1>7 DEF OwnPost
<1> QED BY <1>6, <1>7, <1>9, <1>10, <1>11, <1>12, <1>13, FieldsMove

LEMMA AccountsArriveForm ==
  ASSUME FormInv, NEW a \in formAsked, B!AccountsArrive(a),
         UNCHANGED <<formPlace, formSaves, formStored, formCampaigns, formRows, formStaged,
                     formSkipped, formDoubtful>>
  PROVE  FormInv'
<1>1. PICK x : x = B!Effective(formForm.account)
  OBVIOUS
<1>2. /\ formForm' = [formForm EXCEPT !.known = TRUE, !.account = x]
      /\ formAsked' = IF formForm.account # None THEN formAsked \ {a}
                        ELSE {b \in formAsked : b.kind = "campaign"}
                               \cup {b \in B!Asks(First, FALSE) :
                                       formForm.loading => b.kind = "used"}
  BY <1>1 DEF B!AccountsArrive
<1>3. FormTypes /\ FormFits /\ FormAsks /\ FormFlags /\ formForm \in Fields
  BY DEF FormInv, FormTypes
<1>4. /\ x \in Accounts /\ x # None /\ B!Effective(x) = x
      /\ formForm.account # None => x = formForm.account
  BY <1>1, <1>3, Effectively, FormFacts DEF Fields
<1>5. /\ formForm' \in Fields /\ formForm'.queue = formForm.queue
      /\ formForm'.edited = formForm.edited /\ formForm'.saving = formForm.saving
      /\ formForm'.loading = formForm.loading /\ formForm'.content = formForm.content
      /\ formForm'.account = x /\ formForm'.post = formForm.post
      /\ formForm'.astray = formForm.astray /\ formForm'.made = formForm.made
      /\ formForm'.early = formForm.early /\ formForm'.used = formForm.used
  BY <1>2, <1>3, <1>4 DEF Fields
<1>6. \A b \in formAsked' : AskFits(b) /\ (b.kind = "campaign" => formForm.loading)
  BY <1>2, <1>3, FormFacts, AsksFit DEF FormAsks
<1>7. FormAsks'
  BY <1>5, <1>6 DEF FormAsks, AskFits, Listing, Campaign, OwnPost
<1>8. FormFlags'
  BY <1>2, <1>3, <1>4, <1>5 DEF FormFlags, B!UsedIsFlagged
<1>9. formPlace \notin {"list", "import"}
  BY DEF FormInv, FormTypes
<1>10. Filled(formForm, ~ formForm.loading)'
  BY <1>3, <1>5 DEF FormFits, Filled
<1>11. formForm'.post # None /\ ~ formForm'.astray =>
         PostOwner[formForm'.post] = B!Effective(formForm'.account)
  BY <1>1, <1>3, <1>4, <1>5 DEF FormFits
<1> QED BY <1>4, <1>5, <1>7, <1>8, <1>9, <1>10, <1>11, FieldsMove

LEMMA LibraryArrivesForm ==
  ASSUME FormInv, NEW a \in formAsked, B!LibraryArrives(a) \/ B!Fails(a),
         UNCHANGED <<formPlace, formSaves, formStored, formCampaigns, formRows, formStaged,
                     formSkipped, formDoubtful>>
  PROVE  FormInv'
<1>1. FormTypes /\ FormFits /\ FormAsks /\ FormFlags /\ formForm \in Fields
  BY DEF FormInv, FormTypes
<1>2. a.account \in Accounts
  BY <1>1 DEF FormAsks, AskFits
<1>3. formAsked' = formAsked \ {a}
  BY DEF B!LibraryArrives, B!Fails
<1>4. /\ formForm' \in Fields /\ formForm'.queue = formForm.queue
      /\ formForm'.edited = formForm.edited /\ formForm'.saving = formForm.saving
      /\ formForm'.loading = formForm.loading /\ formForm'.content = formForm.content
      /\ formForm'.account = formForm.account /\ formForm'.post = formForm.post
      /\ formForm'.astray = formForm.astray /\ formForm'.made = formForm.made
      /\ formForm'.early = formForm.early /\ formForm'.used = formForm.used
  <2>1. CASE B!LibraryArrives(a)
    BY <2>1, <1>1, <1>2 DEF Fields, B!LibraryArrives
  <2>2. CASE B!Fails(a)
    <3>1. PICK b \in BOOLEAN : formForm' = [formForm EXCEPT !.broken = b]
      <4>1. (formForm.broken \/ (a.kind = "library" /\ ~ a.cached)) \in BOOLEAN
        OBVIOUS
      <4> QED BY <2>2, <4>1 DEF B!Fails
    <3> QED BY <3>1, <1>1 DEF Fields
  <2> QED BY <2>1, <2>2
<1>5. FormAsks'
  BY <1>1, <1>3, <1>4 DEF FormAsks, AskFits, Listing, Campaign, OwnPost
<1>6. FormFlags'
  BY <1>1, <1>3, <1>4 DEF FormFlags, B!UsedIsFlagged
<1>7. formPlace \notin {"list", "import"}
  BY DEF FormInv, FormTypes
<1>8. Filled(formForm, ~ formForm.loading)'
  BY <1>1, <1>4 DEF FormFits, Filled
<1> QED BY <1>1, <1>4, <1>5, <1>6, <1>7, <1>8, FieldsMove DEF FormFits

LEMMA SelectAccountForm ==
  ASSUME FormInv, NEW x \in Accounts, NEW c \in BOOLEAN, B!SelectAccount(x, c)
  PROVE  FormInv'
<1>1. PICK l : l = IF c THEN x ELSE formForm.library
  OBVIOUS
<1>2. /\ formPlace \in {"builder", "leaving"} /\ ~ formForm.loading
      /\ formForm' = [formForm EXCEPT !.account = x, !.post = None, !.astray = FALSE,
                                      !.made = {}, !.early = FALSE, !.library = l]
      /\ formAsked' = {a \in formAsked : a.kind = "accounts"} \cup B!Asks(x, c)
      /\ UNCHANGED <<formPlace, formSaves, formStored, formCampaigns, formRows, formStaged,
                     formSkipped, formDoubtful>>
  BY <1>1 DEF B!SelectAccount, B!Shown, B!watched
<1>3. FormTypes /\ FormFits /\ FormAsks /\ FormFlags /\ formForm \in Fields
  BY DEF FormInv, FormTypes
<1>4. l \in Accounts \cup {None} /\ x # None
  BY <1>1, <1>3, FormFacts DEF Fields
<1>5. /\ formForm' \in Fields /\ formForm'.queue = formForm.queue
      /\ formForm'.edited = formForm.edited /\ formForm'.saving = formForm.saving
      /\ formForm'.loading = formForm.loading /\ formForm'.content = formForm.content
      /\ formForm'.account = x /\ formForm'.post = None /\ formForm'.made = {}
  BY <1>2, <1>3, <1>4 DEF Fields
<1>6. \A b \in formAsked' : AskFits(b) /\ b.kind # "campaign"
  BY <1>2, <1>3, AsksFit DEF FormAsks
<1>7. FormAsks'
  BY <1>6 DEF FormAsks, AskFits, Listing, Campaign, OwnPost
<1>8. FormFlags'
  BY <1>5 DEF FormFlags, B!UsedIsFlagged
<1>9. Filled(formForm, ~ formForm.loading)'
  BY <1>3, <1>5 DEF FormFits, Filled
<1> QED BY <1>2, <1>4, <1>5, <1>7, <1>8, <1>9, FieldsMove

LEMMA PickPostForm ==
  ASSUME FormInv, NEW p \in Posts, B!PickPost(p)
  PROVE  FormInv'
<1>1. PICK o \in BOOLEAN : o = (PostOwner[p] # B!Effective(formForm.account))
  OBVIOUS
<1>2. /\ formPlace \in {"builder", "leaving"}
      /\ formForm' = [formForm EXCEPT !.post = p, !.astray = o]
      /\ UNCHANGED <<formPlace, formAsked, formSaves, formStored, formCampaigns, formRows,
                     formStaged, formSkipped, formDoubtful>>
  BY <1>1 DEF B!PickPost, B!Shown, B!watched
<1>3. FormTypes /\ FormFits /\ FormAsks /\ FormFlags /\ formForm \in Fields
  BY DEF FormInv, FormTypes
<1>4. /\ formForm' \in Fields /\ formForm'.queue = formForm.queue
      /\ formForm'.edited = formForm.edited /\ formForm'.saving = formForm.saving
      /\ formForm'.loading = formForm.loading /\ formForm'.content = formForm.content
      /\ formForm'.account = formForm.account /\ formForm'.post = p
      /\ formForm'.astray = o /\ formForm'.made = formForm.made
      /\ formForm'.early = formForm.early /\ formForm'.used = formForm.used
  BY <1>2, <1>3 DEF Fields
<1>5. FormAsks'
  BY <1>2, <1>3, <1>4 DEF FormAsks, AskFits, Listing, Campaign, OwnPost
<1>6. FormFlags'
  BY <1>2, <1>3, <1>4 DEF FormFlags, B!UsedIsFlagged
<1>7. Filled(formForm, ~ formForm.loading)'
  BY <1>3, <1>4 DEF FormFits, Filled
<1>8. formForm'.post # None /\ ~ formForm'.astray =>
         PostOwner[formForm'.post] = B!Effective(formForm'.account)
  BY <1>1, <1>4
<1> QED BY <1>2, <1>3, <1>4, <1>5, <1>6, <1>7, <1>8, FieldsMove

\* The first of the rows to come is what the form has, and nothing else is a row.
LEMMA ContentIsFirst ==
  ASSUME NEW s, NEW there \in BOOLEAN, Filled(s, there), s.queue \in Seq(Nat),
         formRows \in 0..MaxRows, s.content \in 1..formRows
  PROVE  s.queue # <<>> /\ s.content = Head(s.queue) /\ s.content \in B!Set(s.queue)
<1>1. B!Old > formRows /\ B!Blank = 0
  BY FormFacts
<1>2. s.queue # <<>>
  BY <1>1 DEF Filled
<1>3. s.content = Head(s.queue)
  BY <1>2 DEF Filled
<1> QED BY <1>2, <1>3, FirstAndRest

LEMMA SubmitForm ==
  ASSUME FormInv, NEW post \in Posts \cup {None}, B!Submit(post)
  PROVE  FormInv'
<1>1. PICK m : m = B!Payload(post)
  OBVIOUS
<1>2. /\ formPlace \in {"builder", "leaving"} /\ ~ formForm.loading /\ ~ formForm.saving
      /\ formForm.account # None /\ post \in {formForm.post, None}
      /\ formForm' = [formForm EXCEPT !.saving = TRUE]
      /\ formSaves' = formSaves \cup {m}
      /\ formDoubtful' = IF formPlace = "leaving" THEN formDoubtful \cup {formForm.content}
                                                  ELSE formDoubtful
      /\ UNCHANGED <<formPlace, formAsked, formStored, formCampaigns, formRows, formStaged,
                     formSkipped>>
  BY <1>1 DEF B!Submit, B!Shown
<1>3. /\ FormTypes /\ FormFits /\ FormAsks /\ FormFlags /\ formForm \in Fields
      /\ SavesFit /\ RowsStay /\ RowsOnce /\ IsFiniteSet(formSaves)
      /\ formRows \in 0..MaxRows /\ Filled(formForm, TRUE)
  BY <1>2 DEF FormInv, FormTypes, FormFits, Filled
<1>4. /\ formForm' \in Fields /\ formForm'.queue = formForm.queue
      /\ formForm'.edited = formForm.edited /\ formForm'.saving
      /\ formForm'.loading = formForm.loading /\ formForm'.content = formForm.content
      /\ formForm'.account = formForm.account /\ formForm'.post = formForm.post
      /\ formForm'.astray = formForm.astray /\ formForm'.made = formForm.made
      /\ formForm'.early = formForm.early /\ formForm'.used = formForm.used
  BY <1>2, <1>3 DEF Fields
<1>5. /\ m.content = formForm.content /\ m.queue = formForm.queue
      /\ m.edited = formForm.edited /\ m.state = "sent" /\ m.reader = "builder"
      /\ m.account = formForm.account /\ m.post = post
      /\ m.astray = (post # None /\ formForm.astray)
  BY <1>1 DEF B!Payload
<1>6. m \in Save
  <2>1. B!Cardinality(formSaves) \in Nat
    BY <1>3, FS_CardinalityType DEF B!Cardinality, Cardinality
  <2>2. (post # None /\ formForm.astray) \in BOOLEAN
    OBVIOUS
  <2>3. /\ formForm.content \in Nat /\ formForm.queue \in Seq(Nat) /\ formForm.edited \in {0, 1}
        /\ formForm.account \in Accounts
    BY <1>2, <1>3 DEF Fields
  <2> QED BY <1>1, <2>1, <2>2, <2>3 DEF B!Payload, Save
<1>7. FormTypes'
  <2>1. IsFiniteSet(formSaves')
    BY <1>2, <1>3, FS_AddElement
  <2> QED BY <1>2, <1>3, <1>4, <2>1
      DEF FormTypes, Storage, Listing, Campaign, OwnPost, Fields
<1>8. FormFits'
  <2>1. RowQueue(formForm.queue)' /\ RowQueue(formStored.queue)'
    BY <1>2, <1>3, <1>4 DEF FormFits, RowQueue
  <2>2. Filled(formForm, ~ formForm.loading)'
    BY <1>3, <1>4 DEF FormFits, Filled
  <2> QED BY <2>1, <2>2, <1>3, <1>4 DEF FormFits
<1>9. FormAsks'
  BY <1>2, <1>3, <1>4 DEF FormAsks, AskFits, Listing, Campaign, OwnPost
<1>10. FormFlags'
  BY <1>2, <1>3, <1>4 DEF FormFlags, B!UsedIsFlagged
<1>11. Contents' = Contents
  BY <1>2 DEF Contents
<1>12. \A s \in formSaves : s.reader # "builder"
  BY <1>2, <1>3 DEF SavesFit, SaveFits
<1>13. SaveFits(m)'
  <2>1. RowQueue(m.queue)'
    BY <1>2, <1>3, <1>5 DEF FormFits, RowQueue
  <2>2. (m \in Save)' /\ Filled(m, TRUE)'
    BY <1>3, <1>5, <1>6 DEF Save, Filled
  <2>3. OwnPost(m)'
    <3>1. formForm.account \in Accounts \cup {None}
      BY <1>3 DEF Fields
    <3>2. B!Effective(formForm.account) = formForm.account
      BY <1>2, <3>1, Effectively
    <3> QED BY <1>2, <1>3, <1>5, <3>2 DEF OwnPost, FormFits
  <2> QED BY <1>2, <1>4, <1>5, <2>1, <2>2, <2>3 DEF SaveFits
<1> HIDE DEF Contents
<1>14. ASSUME NEW s \in formSaves PROVE SaveFits(s)'
  <2>1. SaveFits(s) /\ s.reader # "builder"
    BY <1>3, <1>12 DEF SavesFit
  <2>2. RowQueue(s.queue)'
    BY <2>1, <1>2 DEF SaveFits, RowQueue
  <2>3. (s \in Save)' /\ Filled(s, TRUE)' /\ OwnPost(s)'
    BY <2>1 DEF SaveFits, Save, Filled, OwnPost
  <2>4. formDoubtful \subseteq formDoubtful'
    BY <1>2
  <2>5. /\ s.state = "done" /\ s.edited = 0 => s.content \in Contents'
        /\ s.reader # "builder" => s.content \in formDoubtful'
        /\ s.reader = "tab" => B!Set(s.queue) \subseteq formDoubtful'
    BY <2>1, <2>4, <1>11 DEF SaveFits
  <2> QED BY <2>1, <2>2, <2>3, <2>5 DEF SaveFits, B!Set
<1>15. SavesFit' /\ OneWaits'
  BY <1>2, <1>12, <1>13, <1>14 DEF SavesFit, OneWaits
<1>16. RowsStay'
  <2>1. \A q : Keeps(q)' <=> Keeps(q)
    BY <1>2, <1>11 DEF Keeps
  <2> HIDE DEF Keeps
  <2> QED BY <1>2, <1>3, <1>4, <1>5, <2>1 DEF RowsStay
<1>17. RowsOnce'
  <2>1. Contents' \subseteq 0..formRows' \cup {B!Old}
    BY <1>2, <1>3, <1>11 DEF RowsOnce
  <2>2. ASSUME NEW r \in (1..formRows) \ formDoubtful'
        PROVE /\ \A i, j \in 1..Len(formCampaigns) :
                   formCampaigns[i].content = r /\ formCampaigns[j].content = r => i = j
              /\ \A s \in formSaves' : s.content = r /\ s.state = "sent" => r \notin Contents
              /\ r \in Contents => r \notin B!Set(formStored.queue)
              /\ r \in Contents /\ r \in B!Set(formForm.queue) =>
                   formPlace = "leaving" /\ formForm.queue = <<r>>
    <3>1. /\ r \in (1..formRows) \ formDoubtful
          /\ formPlace = "leaving" => r # formForm.content
      BY <1>2, <2>2
    <3>2. ~ Saving(r)
      BY <1>12 DEF Saving
    <3>3. /\ \A i, j \in 1..Len(formCampaigns) :
                 formCampaigns[i].content = r /\ formCampaigns[j].content = r => i = j
          /\ \A s \in formSaves : s.content = r /\ s.state = "sent" => r \notin Contents
          /\ r \in Contents => r \notin B!Set(formStored.queue)
          /\ r \in Contents /\ r \in B!Set(formForm.queue) =>
                   formPlace = "leaving" /\ formForm.queue = <<r>>
      BY <1>3, <3>1, <3>2 DEF RowsOnce
    <3>4. m.content = r => r \notin Contents
      <4>1. SUFFICES ASSUME m.content = r, r \in Contents PROVE FALSE
        OBVIOUS
      <4>2. formForm.queue \in Seq(Nat) /\ formForm.content = r
        BY <1>3, <1>5, <4>1 DEF Fields
      <4>3. r = Head(formForm.queue) /\ r \in B!Set(formForm.queue)
        BY <1>3, <4>2, <3>1, ContentIsFirst
      <4> QED BY <4>1, <4>2, <4>3, <3>1, <3>3
    <3> QED BY <3>3, <3>4, <1>2
  <2> QED BY <2>1, <2>2, <1>2, <1>4, <1>11 DEF RowsOnce, B!Set, B!Old
<1> QED BY <1>7, <1>8, <1>9, <1>10, <1>15, <1>16, <1>17 DEF FormInv

\* What a save leaves is of a post of its account's, or known not to be.
LEMMA CampaignIsMade ==
  ASSUME FormInv, NEW s \in formSaves
  PROVE  B!Made(s) \in Campaign /\ B!Made(s).content = s.content /\ OwnPost(B!Made(s))
<1>1. s \in Save /\ OwnPost(s) /\ s.edited \in {0, 1}
  BY DEF FormInv, SavesFit, SaveFits, Save
<1>2. formCampaigns \in Seq(Campaign) /\ 1 <= Len(formCampaigns)
  BY DEF FormInv, FormTypes, Listing
<1>3. s.edited # 0 => formCampaigns[s.edited].account \in Accounts
  <2>1. s.edited # 0 => formCampaigns[s.edited] \in Campaign
    BY <1>1, <1>2
  <2> QED BY <2>1 DEF Campaign
<1>4. PICK whose \in Accounts :
        B!Made(s) = [content |-> s.content, account |-> whose, post |-> s.post,
                     astray |-> s.astray \/ (s.post # None /\ s.account # whose)]
  BY <1>1, <1>3 DEF B!Made, Save
<1>5. PICK astray \in BOOLEAN : astray = (s.astray \/ (s.post # None /\ s.account # whose))
  BY <1>1 DEF Save
<1>6. B!Made(s) = [content |-> s.content, account |-> whose, post |-> s.post,
                   astray |-> astray]
  BY <1>4, <1>5
<1>7. s.post # None /\ ~ astray => ~ s.astray /\ s.account = whose
  BY <1>5
<1>8. B!Made(s) \in Campaign /\ B!Made(s).content = s.content
  BY <1>1, <1>6 DEF Save, Campaign
<1>9. OwnPost(B!Made(s))
  BY <1>1, <1>6, <1>7 DEF OwnPost
<1> QED BY <1>8, <1>9

\* What a save makes of the campaigns: one more, or the one that is edited anew.
LEMMA CampaignsMove ==
  ASSUME FormInv, NEW s \in formSaves, NEW k, k = B!Made(s),
         IF s.edited = 0 THEN formCampaigns' = Append(formCampaigns, k)
                         ELSE formCampaigns' = [formCampaigns EXCEPT ![s.edited] = k]
  PROVE  /\ Listing(formCampaigns)'
         /\ s.edited = 0 => Contents' = Contents \cup {s.content}
         /\ s.edited # 0 => Contents' = Contents /\ s.content = B!Old
         /\ \A r : (r = s.content => s.edited # 0 \/ r \notin Contents)
                 /\ (\A i, j \in 1..Len(formCampaigns) :
                       formCampaigns[i].content = r /\ formCampaigns[j].content = r => i = j)
                 => \A i, j \in 1..Len(formCampaigns') :
                      formCampaigns'[i].content = r /\ formCampaigns'[j].content = r => i = j
<1>1. /\ formCampaigns \in Seq(Campaign) /\ 1 <= Len(formCampaigns) /\ Len(formCampaigns) \in Nat
      /\ formCampaigns[1].content = B!Old
      /\ \A c \in 1..Len(formCampaigns) : OwnPost(formCampaigns[c])
  BY DEF FormInv, FormTypes, Listing
<1>2. /\ s \in Save /\ OwnPost(s) /\ Filled(s, TRUE) /\ s.edited \in {0, 1}
  BY DEF FormInv, SavesFit, SaveFits, Save
<1>3. k.content = s.content /\ k \in Campaign /\ OwnPost(k)
  BY CampaignIsMade
<1>4. CASE s.edited = 0
  <2>1. /\ formCampaigns' \in Seq(Campaign) /\ Len(formCampaigns') = Len(formCampaigns) + 1
        /\ \A c \in 1..Len(formCampaigns) : formCampaigns'[c] = formCampaigns[c]
        /\ formCampaigns'[Len(formCampaigns) + 1] = k
    BY <1>1, <1>3, <1>4
  <2> HIDE DEF Campaign
  <2>2. \A c \in 1..Len(formCampaigns') :
          \/ c \in 1..Len(formCampaigns) /\ formCampaigns'[c] = formCampaigns[c]
          \/ c = Len(formCampaigns) + 1 /\ formCampaigns'[c] = k
    BY <1>1, <2>1
  <2>3. Contents' = Contents \cup {s.content}
    <3>1. Len(formCampaigns) + 1 \in 1..Len(formCampaigns')
      BY <1>1, <2>1
    <3>2. \A c \in 1..Len(formCampaigns) : c \in 1..Len(formCampaigns')
      BY <1>1, <2>1
    <3> QED BY <2>1, <2>2, <1>3, <3>1, <3>2 DEF Contents
  <2>4. Listing(formCampaigns)'
    <3>1. \A c \in 1..Len(formCampaigns') : OwnPost(formCampaigns'[c])
      BY <1>1, <1>3, <2>2
    <3>2. formCampaigns'[1].content = B!Old /\ 1 <= Len(formCampaigns')
      BY <1>1, <2>1
    <3> QED BY <2>1, <3>1, <3>2 DEF Listing, OwnPost, Campaign
  <2>5. ASSUME NEW r, r = s.content => r \notin Contents,
               \A i, j \in 1..Len(formCampaigns) :
                 formCampaigns[i].content = r /\ formCampaigns[j].content = r => i = j,
               NEW i \in 1..Len(formCampaigns'), NEW j \in 1..Len(formCampaigns'),
               formCampaigns'[i].content = r, formCampaigns'[j].content = r
        PROVE  i = j
    <3>1. CASE r = s.content
      <4>1. \A c \in 1..Len(formCampaigns) : formCampaigns[c].content # r
        BY <2>5, <3>1 DEF Contents
      <4> QED BY <2>2, <2>5, <4>1
    <3>2. CASE r # s.content
      BY <2>2, <2>5, <3>2, <1>3
    <3> QED BY <3>1, <3>2
  <2> QED BY <1>4, <2>3, <2>4, <2>5
<1>5. CASE s.edited # 0
  <2>1. s.edited = 1 /\ s.content = B!Old
    BY <1>2, <1>5 DEF Filled
  <2>2. /\ formCampaigns' \in Seq(Campaign) /\ Len(formCampaigns') = Len(formCampaigns)
        /\ \A c \in 1..Len(formCampaigns) :
             formCampaigns'[c] = IF c = 1 THEN k ELSE formCampaigns[c]
    BY <1>1, <1>3, <1>5, <2>1
  <2> HIDE DEF Campaign
  <2>3. \A c \in 1..Len(formCampaigns) : formCampaigns'[c].content = formCampaigns[c].content
    BY <1>1, <1>3, <2>1, <2>2
  <2>4. Contents' = Contents
    BY <2>2, <2>3 DEF Contents
  <2>5. Listing(formCampaigns)'
    <3>1. \A c \in 1..Len(formCampaigns') : OwnPost(formCampaigns'[c])
      BY <1>1, <1>3, <2>2
    <3>2. formCampaigns'[1].content = B!Old /\ 1 <= Len(formCampaigns')
      BY <1>1, <2>2, <2>3
    <3> QED BY <2>2, <3>1, <3>2 DEF Listing, OwnPost, Campaign
  <2> QED BY <1>5, <2>1, <2>2, <2>3, <2>4, <2>5
<1> QED BY <1>4, <1>5

\* A save that has the builder's queue is the only one of its row.
LEMMA OneOfItsRow ==
  ASSUME FormInv, NEW s \in formSaves, NEW t \in formSaves, s.content = t.content,
         s.content \notin formDoubtful
  PROVE  s = t /\ s.reader = "builder"
BY DEF FormInv, OneWaits, SavesFit, SaveFits, Save

\* One save gets a new state, and its content may be a campaign's from then on.
LEMMA SaveGoesOn ==
  ASSUME FormInv, NEW s \in formSaves, s.state = "sent",
         NEW w \in {"done", "refused"},
         formSaves' = (formSaves \ {s}) \cup {[s EXCEPT !.state = w]},
         UNCHANGED <<formPlace, formForm, formAsked, formStored, formRows, formStaged,
                     formSkipped, formDoubtful>>,
         Listing(formCampaigns)',
         Contents \subseteq Contents', Contents' \subseteq Contents \cup {s.content},
         s.content \notin Contents' => w = "refused",
         s.content \in Contents' /\ s.content \notin Contents => w = "done",
         \A r \in (1..formRows) \ formDoubtful : \A i, j \in 1..Len(formCampaigns') :
           formCampaigns'[i].content = r /\ formCampaigns'[j].content = r => i = j
  PROVE  FormInv'
<1>1. PICK z : z = [s EXCEPT !.state = w]
  OBVIOUS
<1>2. SaveFits(s) /\ s \in Save
  BY DEF FormInv, SavesFit, SaveFits
<1>3. /\ z \in Save /\ z.content = s.content /\ z.queue = s.queue /\ z.edited = s.edited
      /\ z.reader = s.reader /\ z.state = w /\ z.post = s.post /\ z.account = s.account
      /\ z.astray = s.astray
  BY <1>1, <1>2 DEF Save
<1>4. formSaves' = (formSaves \ {s}) \cup {z}
  BY <1>1
<1>5. FormTypes'
  <2>1. IsFiniteSet(formSaves')
    <3>1. IsFiniteSet(formSaves)
      BY DEF FormInv, FormTypes
    <3>2. IsFiniteSet(formSaves \ {s})
      BY <3>1, FS_RemoveElement
    <3>3. IsFiniteSet((formSaves \ {s}) \cup {z})
      BY <3>2, FS_AddElement
    <3> QED BY <3>3, <1>4
  <2> QED BY <2>1 DEF FormInv, FormTypes, Fields, Storage
<1>6. FormFits' /\ FormAsks' /\ FormFlags'
  BY DEF FormInv, FormFits, FormAsks, FormFlags, RowQueue, Filled, AskFits, Listing, Campaign,
         OwnPost, B!UsedIsFlagged
<1> HIDE DEF Contents
<1>7. ASSUME NEW t \in formSaves PROVE SaveFits(t)'
  <2>1. SaveFits(t)
    BY DEF FormInv, SavesFit
  <2>2. RowQueue(t.queue)'
    BY <2>1 DEF SaveFits, RowQueue
  <2>3. (t \in Save)' /\ Filled(t, TRUE)' /\ OwnPost(t)'
    BY <2>1 DEF SaveFits, Save, Filled, OwnPost
  <2>4. t.state = "done" /\ t.edited = 0 => t.content \in Contents'
    BY <2>1 DEF SaveFits
  <2> QED BY <2>1, <2>2, <2>3, <2>4 DEF SaveFits, B!Set
<1>8. SaveFits(z)'
  <2>1. RowQueue(z.queue)'
    BY <1>2, <1>3 DEF SaveFits, RowQueue
  <2>2. (z \in Save)' /\ Filled(z, TRUE)' /\ OwnPost(z)'
    BY <1>2, <1>3 DEF SaveFits, Save, Filled, OwnPost
  <2>3. z.state = "done" => z.content \in Contents'
    BY <1>3
  <2> QED BY <1>2, <1>3, <2>1, <2>2, <2>3 DEF SaveFits, B!Set
<1>9. SavesFit'
  BY <1>4, <1>7, <1>8 DEF SavesFit
<1>10. OneWaits'
  BY <1>3, <1>4 DEF FormInv, OneWaits
<1>11. RowsStay'
  <2>1. ASSUME NEW q, Keeps(q) PROVE Keeps(q)'
    BY <2>1 DEF Keeps, B!Set
  <2> HIDE DEF Keeps
  <2>2. RowsStay
    BY DEF FormInv
  <2>3. Keeps(formStored.queue)' /\ (formForm.queue # <<>> => Keeps(formForm.queue)')
    BY <2>1, <2>2 DEF RowsStay
  <2>4. ASSUME NEW t \in formSaves', t.reader # "none", t.queue # <<>> PROVE Keeps(t.queue)'
    <3>1. PICK u \in formSaves : u.reader = t.reader /\ u.queue = t.queue
      BY <1>3, <1>4
    <3> QED BY <2>1, <2>2, <2>4, <3>1 DEF RowsStay
  <2> QED BY <2>3, <2>4 DEF RowsStay
<1>12. \A r \in (1..formRows) \ formDoubtful : r = s.content => s.reader = "builder"
  BY OneOfItsRow
<1>13. ASSUME NEW r, Saving(r) PROVE Saving(r)'
  <2>1. PICK t \in formSaves : t.reader = "builder" /\ t.state = "done" /\ t.content = r
    BY <1>13 DEF Saving
  <2>2. t \in formSaves'
    BY <1>4, <2>1
  <2> QED BY <2>1, <2>2 DEF Saving
<1>14. w = "done" /\ s.reader = "builder" => Saving(s.content)'
  BY <1>3, <1>4 DEF Saving
<1>15. RowsOnce'
  <2>1. RowsOnce
    BY DEF FormInv
  <2>2. Contents' \subseteq 0..formRows' \cup {B!Old}
    <3>1. s.content \in 0..formRows \cup {B!Old}
      <4>1. s.queue \in Seq(Nat) /\ Filled(s, TRUE) /\ RowQueue(s.queue)
        BY <1>2 DEF SaveFits, Save
      <4>2. CASE s.queue = <<>>
        <5>1. formRows \in Nat
          BY FormFacts DEF FormInv, FormTypes
        <5> QED BY <4>1, <4>2, <5>1, FormFacts DEF Filled
      <4>3. CASE s.queue # <<>>
        <5>1. s.content \in 1..formRows
          BY <4>1, <4>3, FirstAndRest DEF Filled
        <5> QED BY <5>1
      <4> QED BY <4>2, <4>3
    <3> QED BY <2>1, <3>1 DEF RowsOnce
  <2>3. ASSUME NEW r \in (1..formRows) \ formDoubtful
        PROVE /\ \A t \in formSaves' : t.content = r /\ t.state = "sent" => r \notin Contents'
              /\ r \in Contents' /\ r \in B!Set(formStored.queue) => Saving(r)'
              /\ r \in Contents' /\ r \in B!Set(formForm.queue) =>
                   Saving(r)' \/ (formPlace = "leaving" /\ formForm.queue = <<r>>)
    <3>1. CASE r = s.content
      <4>1. r \notin Contents
        BY <2>1, <3>1 DEF RowsOnce
      <4>2. r \in Contents' => Saving(r)'
        BY <3>1, <4>1, <1>12, <1>14
      <4>3. \A t \in formSaves' : t.content = r => t.state # "sent"
        <5>1. \A t \in formSaves : t.content = r => t = s
          BY <3>1, OneOfItsRow
        <5> QED BY <5>1, <1>3, <1>4
      <4> QED BY <4>2, <4>3
    <3>2. CASE r # s.content
      <4>1. r \in Contents' => r \in Contents
        BY <3>2
      <4> QED BY <2>1, <2>3, <3>2, <4>1, <1>3, <1>4, <1>13 DEF RowsOnce
    <3> QED BY <3>1, <3>2
  <2> QED BY <2>2, <2>3 DEF RowsOnce, B!Set, B!Old
<1> QED BY <1>5, <1>6, <1>9, <1>10, <1>11, <1>15 DEF FormInv

LEMMA HandleForm ==
  ASSUME FormInv, NEW s \in formSaves, B!Handle(s)
  PROVE  FormInv'
<1>1. /\ s.state = "sent"
      /\ UNCHANGED <<formPlace, formForm, formAsked, formStored, formRows, formStaged,
                     formSkipped, formDoubtful>>
  BY DEF B!Handle, B!watched
<1>2. RowsOnce /\ Listing(formCampaigns)
  BY DEF FormInv, FormTypes
<1>3. CASE /\ formSaves' = (formSaves \ {s}) \cup {[s EXCEPT !.state = "refused"]}
           /\ UNCHANGED formCampaigns
  <2>1. Contents' = Contents /\ Listing(formCampaigns)'
    BY <1>2, <1>3 DEF Contents, Listing, Campaign, OwnPost
  <2>2. \A r \in (1..formRows) \ formDoubtful : \A i, j \in 1..Len(formCampaigns') :
          formCampaigns'[i].content = r /\ formCampaigns'[j].content = r => i = j
    BY <1>2, <1>3 DEF RowsOnce
  <2>3. s.content \in Contents' /\ s.content \notin Contents => FALSE
    BY <2>1
  <2> QED BY <1>1, <1>3, <2>1, <2>2, <2>3, SaveGoesOn
<1>4. CASE formSaves' = (formSaves \ {s}) \cup {[s EXCEPT !.state = "done"]}
           /\ \E k : /\ k = B!Made(s)
                     /\ IF s.edited = 0 THEN formCampaigns' = Append(formCampaigns, k)
                                        ELSE formCampaigns' = [formCampaigns EXCEPT ![s.edited] = k]
  <2>1. /\ Listing(formCampaigns)'
        /\ s.edited = 0 => Contents' = Contents \cup {s.content}
        /\ s.edited # 0 => Contents' = Contents /\ s.content = B!Old
        /\ \A r : (r = s.content => s.edited # 0 \/ r \notin Contents)
                 /\ (\A i, j \in 1..Len(formCampaigns) :
                       formCampaigns[i].content = r /\ formCampaigns[j].content = r => i = j)
                 => \A i, j \in 1..Len(formCampaigns') :
                      formCampaigns'[i].content = r /\ formCampaigns'[j].content = r => i = j
    BY <1>4, CampaignsMove
  <2>2. B!Old \in Contents
    <3>1. 1 \in 1..Len(formCampaigns) /\ formCampaigns[1].content = B!Old
      BY <1>2 DEF Listing
    <3> QED BY <3>1 DEF Contents
  <2>3. \A r \in (1..formRows) \ formDoubtful : \A i, j \in 1..Len(formCampaigns') :
          formCampaigns'[i].content = r /\ formCampaigns'[j].content = r => i = j
    <3> SUFFICES ASSUME NEW r \in (1..formRows) \ formDoubtful
        PROVE \A i, j \in 1..Len(formCampaigns') :
                formCampaigns'[i].content = r /\ formCampaigns'[j].content = r => i = j
      OBVIOUS
    <3>1. r = s.content => r \notin Contents
      BY <1>1, <1>2 DEF RowsOnce
    <3>2. \A i, j \in 1..Len(formCampaigns) :
            formCampaigns[i].content = r /\ formCampaigns[j].content = r => i = j
      BY <1>2 DEF RowsOnce
    <3> QED BY <2>1, <3>1, <3>2
  <2>4. /\ Contents \subseteq Contents' /\ Contents' \subseteq Contents \cup {s.content}
        /\ s.content \in Contents'
    BY <2>1, <2>2
  <2> QED BY <1>1, <1>4, <2>1, <2>3, <2>4, SaveGoesOn
<1> QED BY <1>3, <1>4 DEF B!Handle

\* The tab has heard of a save, or of none: those that are left are as they were.
LEMMA SaveIsHeard ==
  ASSUME FormInv, formSaves' \subseteq formSaves,
         UNCHANGED <<formCampaigns, formRows, formStaged>>,
         formDoubtful \subseteq formDoubtful', formSkipped \subseteq formSkipped',
         \A t \in formSaves' : t.reader = "builder" =>
           formForm' = formForm /\ formPlace' \in {"builder", "leaving"}
  PROVE  SavesFit' /\ OneWaits' /\ IsFiniteSet(formSaves') /\ Listing(formCampaigns)'
         /\ \A t \in formSaves' : t.reader # "none" /\ t.queue # <<>> => Keeps(t.queue)'
<1>1. Contents' = Contents
  BY DEF Contents
<1>2. IsFiniteSet(formSaves') /\ Listing(formCampaigns)'
  BY FS_Subset DEF FormInv, FormTypes, Listing, Campaign, OwnPost
<1> HIDE DEF Contents
<1>3. ASSUME NEW t \in formSaves' PROVE SaveFits(t)'
  <2>1. SaveFits(t)
    BY DEF FormInv, SavesFit
  <2>2. RowQueue(t.queue)'
    BY <2>1 DEF SaveFits, RowQueue
  <2>3. (t \in Save)' /\ Filled(t, TRUE)' /\ OwnPost(t)'
    BY <2>1 DEF SaveFits, Save, Filled, OwnPost
  <2>4. /\ t.state = "done" /\ t.edited = 0 => t.content \in Contents'
        /\ t.reader # "builder" => t.content \in formDoubtful'
        /\ t.reader = "tab" => B!Set(t.queue) \subseteq formDoubtful'
    BY <2>1, <1>1 DEF SaveFits
  <2>5. t.reader = "builder" =>
          /\ formPlace' \in {"builder", "leaving"}
          /\ formForm'.saving /\ ~ formForm'.loading /\ formForm'.account # None
          /\ t.edited = formForm'.edited /\ t.queue = formForm'.queue
    BY <2>1 DEF SaveFits
  <2> QED BY <2>2, <2>3, <2>4, <2>5 DEF SaveFits, B!Set
<1>4. SavesFit' /\ OneWaits'
  BY <1>3 DEF SavesFit, OneWaits, FormInv
<1>5. ASSUME NEW t \in formSaves', t.reader # "none", t.queue # <<>> PROVE Keeps(t.queue)'
  <2>1. Keeps(t.queue)
    BY <1>5 DEF FormInv, RowsStay
  <2> QED BY <2>1, <1>1 DEF Keeps, B!Set
<1> QED BY <1>2, <1>4, <1>5

\* What a new queue of the storage, and of the form, must be.
LEMMA RowsMove ==
  ASSUME FormInv, UNCHANGED <<formCampaigns, formRows, formStaged>>,
         formSaves' \subseteq formSaves,
         formDoubtful \subseteq formDoubtful', formSkipped \subseteq formSkipped',
         Keeps(formStored.queue)', formForm'.queue # <<>> => Keeps(formForm.queue)',
         \A t \in formSaves' : t.reader # "none" /\ t.queue # <<>> => Keeps(t.queue)',
         \A r \in (1..formRows) \ formDoubtful' : r \in Contents =>
           /\ r \in B!Set(formStored'.queue) => Saving(r)'
           /\ r \in B!Set(formForm'.queue) =>
                Saving(r)' \/ (formPlace' = "leaving" /\ formForm'.queue = <<r>>)
  PROVE  RowsStay' /\ RowsOnce'
<1>1. Contents' = Contents
  BY DEF Contents
<1> HIDE DEF Contents
<1>2. RowsStay'
  BY DEF RowsStay
<1>3. RowsOnce'
  <2>1. RowsOnce
    BY DEF FormInv
  <2>2. Contents' \subseteq 0..formRows' \cup {B!Old}
    BY <1>1, <2>1 DEF RowsOnce
  <2>3. ASSUME NEW r \in (1..formRows) \ formDoubtful'
        PROVE /\ \A i, j \in 1..Len(formCampaigns) :
                   formCampaigns[i].content = r /\ formCampaigns[j].content = r => i = j
              /\ \A s \in formSaves' : s.content = r /\ s.state = "sent" => r \notin Contents
    BY <2>1, <2>3 DEF RowsOnce
  <2> QED BY <1>1, <2>2, <2>3 DEF RowsOnce, B!Set, B!Old
<1> QED BY <1>2, <1>3

\* router.push: the builder is on its way out, the import page gone.
LEMMA Pushes ==
  ASSUME FormInv, B!Push
  PROVE  /\ formPlace' \in {"list", "leaving"}
         /\ formPlace \in {"builder", "leaving"} <=> formPlace' = "leaving"
         /\ formPlace' = "list" => formForm = B!Form /\ formAsked = {}
BY DEF FormInv, FormTypes, B!Push

LEMMA UnsavedForm ==
  ASSUME FormInv, NEW s \in formSaves, B!Unsaved(s)
  PROVE  FormInv'
<1>1. /\ formSaves' = formSaves \ {s}
      /\ formForm' = IF s.reader = "builder" THEN [formForm EXCEPT !.saving = FALSE] ELSE formForm
      /\ formDoubtful' = IF s.state = "done" THEN formDoubtful \cup {s.content} ELSE formDoubtful
      /\ UNCHANGED <<formPlace, formAsked, formStored, formCampaigns, formRows, formStaged,
                     formSkipped>>
  BY DEF B!Unsaved
<1>2. FormTypes /\ FormFits /\ FormAsks /\ FormFlags /\ formForm \in Fields /\ RowsStay
  BY DEF FormInv, FormTypes
<1>3. /\ formForm' \in Fields /\ formForm'.queue = formForm.queue
      /\ formForm'.edited = formForm.edited
      /\ formForm'.loading = formForm.loading /\ formForm'.content = formForm.content
      /\ formForm'.account = formForm.account /\ formForm'.post = formForm.post
      /\ formForm'.astray = formForm.astray /\ formForm'.made = formForm.made
      /\ formForm'.early = formForm.early /\ formForm'.used = formForm.used
  BY <1>1, <1>2 DEF Fields
<1>4. /\ \A t \in formSaves \ {s} : t.reader = "builder" => s.reader # "builder"
      /\ \A t \in formSaves : t.reader = "builder" => formPlace \in {"builder", "leaving"}
  BY DEF FormInv, OneWaits, SavesFit, SaveFits
<1>5. formDoubtful \subseteq formDoubtful'
  BY <1>1
<1>6. /\ SavesFit' /\ OneWaits' /\ IsFiniteSet(formSaves') /\ Listing(formCampaigns)'
      /\ \A t \in formSaves' : t.reader # "none" /\ t.queue # <<>> => Keeps(t.queue)'
  BY <1>1, <1>4, <1>5, SaveIsHeard
<1>7. FormTypes'
  <2>1. formPlace \in {"list", "import"} => s.reader # "builder"
    BY <1>4
  <2> QED BY <1>1, <1>2, <1>3, <1>6, <2>1 DEF FormTypes, Fields, Storage
<1>8. FormFits'
  BY <1>1, <1>2, <1>3 DEF FormFits, RowQueue, Filled
<1>9. FormAsks' /\ FormFlags'
  BY <1>1, <1>2, <1>3
     DEF FormAsks, AskFits, Listing, Campaign, OwnPost, FormFlags, B!UsedIsFlagged
<1>10. RowsStay' /\ RowsOnce'
  <2>1. Keeps(formStored.queue)'
    BY <1>1, <1>2 DEF RowsStay, Keeps, Contents, B!Set
  <2>2. formForm'.queue # <<>> => Keeps(formForm.queue)'
    BY <1>1, <1>2, <1>3 DEF RowsStay, Keeps, Contents, B!Set
  <2>3. ASSUME NEW r \in (1..formRows) \ formDoubtful', r \in Contents
        PROVE /\ r \in B!Set(formStored.queue) => Saving(r)'
              /\ r \in B!Set(formForm.queue) =>
                   Saving(r)' \/ (formPlace = "leaving" /\ formForm.queue = <<r>>)
    <3>1. Saving(r) => Saving(r)'
      <4>1. SUFFICES ASSUME Saving(r) PROVE Saving(r)'
        OBVIOUS
      <4>2. PICK t \in formSaves : t.reader = "builder" /\ t.state = "done" /\ t.content = r
        BY <4>1 DEF Saving
      <4>3. t # s
        BY <4>2, <2>3, <1>1
      <4> QED BY <4>2, <4>3, <1>1 DEF Saving
    <3> QED BY <2>3, <3>1, <1>5 DEF FormInv, RowsOnce
  <2> QED BY <1>1, <1>3, <1>5, <1>6, <2>1, <2>2, <2>3, RowsMove
<1> QED BY <1>6, <1>7, <1>8, <1>9, <1>10 DEF FormInv

\* The form moves on to the next row.
LEMMA FormAdvances ==
  ASSUME formForm \in Fields, formForm.edited = 0, NEW q \in Seq(Nat), q # <<>>, NEW f,
         f = B!Advanced(q)
  PROVE  /\ f \in Fields /\ f.queue = q /\ f.edited = formForm.edited
         /\ f.loading = formForm.loading /\ f.content = Head(q)
         /\ f.account = formForm.account /\ f.post = None
         /\ f.made = formForm.made /\ f.used = formForm.used /\ f.early = formForm.early
         /\ \A there : Filled(f, there)
<1>1. PICK h : h = Head(q)
  OBVIOUS
<1>2. h \in Nat
  BY <1>1
<1>3. f = [formForm EXCEPT !.saving = FALSE, !.queue = q, !.content = h,
                           !.post = None, !.astray = FALSE]
  BY <1>1 DEF B!Advanced
<1>4. /\ f \in Fields /\ f.queue = q /\ f.edited = formForm.edited
      /\ f.loading = formForm.loading /\ f.content = h
      /\ f.account = formForm.account /\ f.post = None
      /\ f.made = formForm.made /\ f.used = formForm.used /\ f.early = formForm.early
  BY <1>2, <1>3 DEF Fields
<1>5. \A there : Filled(f, there)
  BY <1>1, <1>4 DEF Filled
<1> QED BY <1>1, <1>4, <1>5

\* The post of a save is flagged.
LEMMA PostIsFlagged ==
  ASSUME FormInv, NEW s \in formSaves, s.reader = "builder", NEW f \in Fields,
         f.made = formForm.made, f.used = formForm.used, f.early = formForm.early, NEW g,
         g = B!Flagged(f, s)
  PROVE  /\ g \in Fields /\ g.queue = f.queue /\ g.edited = f.edited
         /\ g.loading = f.loading /\ g.content = f.content /\ g.account = f.account
         /\ g.post = f.post /\ g.astray = f.astray
         /\ g.early \/ g.made \subseteq g.used
         /\ \A a \in formAsked : a.kind = "used" /\ g.made # {} => g.early
<1>1. /\ FormFlags /\ s \in Save
  BY DEF FormInv, SavesFit, SaveFits
<1>2. CASE s.post = None
  BY <1>1, <1>2 DEF B!Flagged, FormFlags, B!UsedIsFlagged
<1>3. CASE s.post # None
  <2>1. s.post \in Posts
    BY <1>1, <1>3 DEF Save
  <2>2. PICK u : u = f.used \cup {s.post}
    OBVIOUS
  <2>3. PICK m : m = IF s.account = formForm.account THEN f.made \cup {s.post} ELSE f.made
    OBVIOUS
  <2>4. PICK e \in BOOLEAN : e = (f.early \/ \E a \in formAsked : a.kind = "used")
    OBVIOUS
  <2>5. u \in SUBSET Posts /\ m \in SUBSET Posts
    BY <2>1, <2>2, <2>3 DEF Fields
  <2>6. g = [f EXCEPT !.used = u, !.made = m, !.early = e]
    BY <1>3, <2>2, <2>3, <2>4 DEF B!Flagged
  <2>7. /\ g \in Fields /\ g.queue = f.queue /\ g.edited = f.edited
        /\ g.loading = f.loading /\ g.content = f.content /\ g.account = f.account
        /\ g.post = f.post /\ g.astray = f.astray
        /\ g.used = u /\ g.made = m /\ g.early = e
    BY <2>5, <2>6 DEF Fields
  <2>8. e \/ m \subseteq u
    BY <1>1, <2>2, <2>3, <2>4 DEF FormFlags, B!UsedIsFlagged
  <2>9. \A a \in formAsked : a.kind = "used" => e
    BY <2>4
  <2> QED BY <2>7, <2>8, <2>9
<1> QED BY <1>2, <1>3

\* The builder goes on after an answer, or a skipped row: the form keeps its account,
\* its edit and its flags, and the storage and the form the rows that are to come.
LEMMA FormGoesOn ==
  ASSUME FormInv, formSaves' \subseteq formSaves,
         UNCHANGED <<formAsked, formCampaigns, formRows, formStaged>>,
         formDoubtful \subseteq formDoubtful', formSkipped \subseteq formSkipped',
         \A t \in formSaves' : t.reader = "builder" =>
           formForm' = formForm /\ formPlace' \in {"builder", "leaving"},
         formPlace' \in {"list", "import", "builder", "leaving"},
         formPlace' \in {"list", "import"} => formForm' = B!Form /\ formAsked = {},
         formForm' \in Fields, RowQueue(formForm'.queue),
         Filled(formForm', ~ formForm'.loading),
         formForm'.loading = formForm.loading, formForm'.edited = formForm.edited,
         formForm'.account = formForm.account,
         formForm'.post # None /\ ~ formForm'.astray =>
           PostOwner[formForm'.post] = B!Effective(formForm'.account),
         formForm'.early \/ formForm'.made \subseteq formForm'.used,
         formForm'.made # {} => ~ formForm.loading /\ formForm.account # None,
         \A a \in formAsked : a.kind = "used" /\ formForm'.made # {} => formForm'.early,
         formStored' \in Storage, RowQueue(formStored'.queue),
         Keeps(formStored.queue)', formForm'.queue # <<>> => Keeps(formForm.queue)',
         \A r \in (1..formRows) \ formDoubtful' : r \in Contents =>
           /\ r \in B!Set(formStored'.queue) => Saving(r)'
           /\ r \in B!Set(formForm'.queue) =>
                Saving(r)' \/ (formPlace' = "leaving" /\ formForm'.queue = <<r>>)
  PROVE  FormInv'
<1>1. /\ SavesFit' /\ OneWaits' /\ IsFiniteSet(formSaves') /\ Listing(formCampaigns)'
      /\ \A t \in formSaves' : t.reader # "none" /\ t.queue # <<>> => Keeps(t.queue)'
  BY SaveIsHeard
<1>2. FormTypes'
  BY <1>1 DEF FormInv, FormTypes, Fields, Storage
<1>3. FormFits'
  BY DEF FormInv, FormFits, RowQueue
<1>4. FormAsks'
  BY DEF FormInv, FormAsks, AskFits, Listing, Campaign, OwnPost
<1>5. FormFlags'
  BY DEF FormFlags, B!UsedIsFlagged
<1>6. RowsStay' /\ RowsOnce'
  BY <1>1, RowsMove
<1> QED BY <1>1, <1>2, <1>3, <1>4, <1>5, <1>6 DEF FormInv

\* Fewer rows to come, for those that are done: what the new queues must keep.
LEMMA RestIsKept ==
  ASSUME NEW q \in Seq(Nat), q # <<>>, Keeps(q),
         UNCHANGED <<formCampaigns, formStaged>>, formSkipped \subseteq formSkipped',
         Head(q) \in Contents \/ Head(q) \in formSkipped'
  PROVE  Keeps(Tail(q))' /\ Keeps(q)' /\ (~ (Len(q) > 1) => Keeps(<<>>)')
<1>1. Contents' = Contents
  BY DEF Contents
<1> HIDE DEF Contents
<1>2. formStaged \subseteq B!Set(q) \cup formSkipped \cup Contents
  BY DEF Keeps
<1>3. B!Set(q) = {Head(q)} \cup B!Set(Tail(q)) /\ (~ (Len(q) > 1) => B!Set(q) = {Head(q)})
  BY FirstAndRest
<1>4. Keeps(q)'
  BY <1>1, <1>2 DEF Keeps, B!Set
<1>5. Keeps(Tail(q))'
  <2>1. formStaged' \subseteq B!Set(Tail(q)) \cup formSkipped' \cup Contents'
    BY <1>1, <1>2, <1>3
  <2> QED BY <2>1 DEF Keeps, B!Set
<1>6. ~ (Len(q) > 1) => Keeps(<<>>)'
  <2>1. ~ (Len(q) > 1) => formStaged' \subseteq formSkipped' \cup Contents'
    BY <1>1, <1>2, <1>3
  <2> QED BY <2>1 DEF Keeps
<1> QED BY <1>4, <1>5, <1>6

\* A save is answered, and there are rows after its own.
LEMMA SavedAndOn ==
  ASSUME FormInv, NEW s \in formSaves, B!Saved(s), Len(s.queue) > 1
  PROVE  FormInv'
<1>1. PICK q : q = Tail(s.queue)
  OBVIOUS
<1>2. /\ s.state = "done" /\ s.reader # "none" /\ formSaves' = formSaves \ {s}
      /\ formStored' = [formStored EXCEPT !.queue = q]
      /\ formForm' = IF s.reader = "builder" THEN B!Flagged(B!Advanced(q), s) ELSE formForm
      /\ UNCHANGED <<formPlace, formAsked, formCampaigns, formRows, formStaged, formSkipped,
                     formDoubtful>>
  BY <1>1 DEF B!Saved, B!watched
<1>3. /\ FormTypes /\ FormFits /\ FormFlags /\ RowsStay /\ RowsOnce /\ OneWaits
      /\ SaveFits(s) /\ s \in Save /\ s.queue \in Seq(Nat) /\ s.queue # <<>>
      /\ RowQueue(s.queue) /\ formForm \in Fields /\ formStored \in Storage
  <2>1. s.queue \in Seq(Nat)
    BY DEF FormInv, SavesFit, SaveFits, Save
  <2>2. s.queue # <<>>
    <3>1. Len(<<>>) = 0
      OBVIOUS
    <3> QED BY <3>1
  <2> QED BY <2>1, <2>2 DEF FormInv, FormTypes, SavesFit, SaveFits
<1>4. /\ s.edited = 0 /\ s.content = Head(s.queue) /\ s.content \in Contents
  BY <1>2, <1>3 DEF SaveFits, Filled
<1>5. /\ q \in Seq(Nat) /\ q # <<>> /\ B!Set(s.queue) = {Head(s.queue)} \cup B!Set(q)
      /\ RowQueue(q) /\ Head(s.queue) \notin B!Set(q)
  BY <1>1, <1>3, FirstAndRest
<1>6. formStored' \in Storage /\ formStored'.queue = q
  BY <1>2, <1>3, <1>5 DEF Storage
<1>7. Keeps(q)'
  <2>1. Keeps(s.queue)
    BY <1>2, <1>3 DEF RowsStay
  <2> QED BY <2>1, <1>1, <1>2, <1>3, <1>4, RestIsKept
<1>8. ASSUME NEW r, Saving(r), s.reader # "builder" PROVE Saving(r)'
  BY <1>8, <1>2 DEF Saving
<1> HIDE DEF Contents
<1>9. CASE s.reader = "builder"
  <2>1. /\ formForm.queue = s.queue /\ formForm.edited = 0 /\ ~ formForm.loading
        /\ formForm.account # None
    BY <1>3, <1>4, <1>9 DEF SaveFits
  <2>2. PICK f : f = B!Advanced(q)
    OBVIOUS
  <2>3. /\ f \in Fields /\ f.queue = q /\ f.edited = formForm.edited
        /\ f.loading = formForm.loading /\ f.content = Head(q)
        /\ f.account = formForm.account /\ f.post = None
        /\ f.made = formForm.made /\ f.used = formForm.used /\ f.early = formForm.early
        /\ \A there : Filled(f, there)
    BY <2>1, <2>2, <1>3, <1>5, FormAdvances
  <2>4. PICK g : g = B!Flagged(f, s)
    OBVIOUS
  <2>5. /\ g \in Fields /\ g.queue = f.queue /\ g.edited = f.edited
        /\ g.loading = f.loading /\ g.content = f.content /\ g.account = f.account
        /\ g.post = f.post /\ g.astray = f.astray
        /\ g.early \/ g.made \subseteq g.used
        /\ \A a \in formAsked : a.kind = "used" /\ g.made # {} => g.early
    BY <2>3, <2>4, <1>9, PostIsFlagged
  <2>6. formForm' = g
    BY <2>2, <2>4, <1>2, <1>9
  <2>7. Filled(g, ~ g.loading)
    BY <2>3, <2>5 DEF Filled
  <2>8. ASSUME NEW r \in (1..formRows) \ formDoubtful, r \in Contents PROVE r \notin B!Set(q)
    <3>1. SUFFICES ASSUME r \in B!Set(q) PROVE FALSE
      OBVIOUS
    <3>2. r \in B!Set(formForm.queue) /\ r # s.content
      BY <3>1, <2>1, <1>4, <1>5
    <3>3. formForm.queue # <<r>>
      BY <2>1, <1>3, MoreThanOne
    <3>4. Saving(r)
      BY <2>8, <3>2, <3>3, <1>3 DEF RowsOnce
    <3>5. PICK t \in formSaves : t.reader = "builder" /\ t.content = r
      BY <3>4 DEF Saving
    <3>6. t = s
      BY <3>5, <1>3, <1>9 DEF OneWaits
    <3> QED BY <3>2, <3>5, <3>6
  <2>9. \A t \in formSaves' : t.reader # "builder"
    BY <1>2, <1>3, <1>9 DEF OneWaits
  <2>10. formPlace' \in {"builder", "leaving"}
    BY <1>2, <1>3, <1>9 DEF SaveFits
  <2>11. /\ formForm' \in Fields /\ RowQueue(formForm'.queue)
         /\ Filled(formForm', ~ formForm'.loading)
         /\ formForm'.loading = formForm.loading /\ formForm'.edited = formForm.edited
         /\ formForm'.account = formForm.account /\ formForm'.post = None
         /\ formForm'.early \/ formForm'.made \subseteq formForm'.used
         /\ formForm'.queue = q
         /\ \A a \in formAsked : a.kind = "used" /\ formForm'.made # {} => formForm'.early
    BY <2>3, <2>5, <2>6, <2>7, <1>5
  <2>12. /\ RowQueue(formStored'.queue) /\ Keeps(formStored.queue)' /\ Keeps(formForm.queue)'
    BY <2>11, <1>5, <1>6, <1>7
  <2>13. \A r \in (1..formRows) \ formDoubtful' : r \in Contents =>
           r \notin B!Set(formStored'.queue) /\ r \notin B!Set(formForm'.queue)
    BY <2>8, <2>11, <1>2, <1>6
  <2> QED BY <2>1, <2>9, <2>10, <2>11, <2>12, <2>13, <1>2, <1>6, FormGoesOn
<1>10. CASE s.reader # "builder"
  <2>1. s.reader = "tab"
    BY <1>2, <1>3, <1>10 DEF Save
  <2>2. B!Set(q) \subseteq formDoubtful
    BY <2>1, <1>3, <1>5 DEF SaveFits
  <2>3. formForm' = formForm /\ formPlace' = formPlace
    BY <1>2, <1>10
  <2>4. /\ formForm'.early \/ formForm'.made \subseteq formForm'.used
        /\ formForm'.made # {} => ~ formForm.loading /\ formForm.account # None
        /\ \A a \in formAsked : a.kind = "used" /\ formForm'.made # {} => formForm'.early
    BY <2>3, <1>3 DEF FormFlags, B!UsedIsFlagged
  <2>5. /\ formForm' \in Fields /\ RowQueue(formForm'.queue)
        /\ Filled(formForm', ~ formForm'.loading)
        /\ formForm'.loading = formForm.loading /\ formForm'.edited = formForm.edited
        /\ formForm'.account = formForm.account
        /\ formForm'.post # None /\ ~ formForm'.astray =>
              PostOwner[formForm'.post] = B!Effective(formForm'.account)
    BY <2>3, <1>3 DEF FormFits
  <2>6. /\ formPlace' \in {"list", "import", "builder", "leaving"}
        /\ formPlace' \in {"list", "import"} => formForm' = B!Form /\ formAsked = {}
        /\ \A t \in formSaves' : t.reader = "builder" =>
              formForm' = formForm /\ formPlace' \in {"builder", "leaving"}
    BY <2>3, <1>2, <1>3 DEF FormTypes, FormInv, SavesFit, SaveFits
  <2>7. formForm'.queue # <<>> => Keeps(formForm.queue)'
    BY <2>3, <1>2, <1>3 DEF RowsStay, Keeps, Contents, B!Set
  <2>8. RowQueue(formStored'.queue) /\ Keeps(formStored.queue)'
    BY <1>5, <1>6, <1>7
  <2>9. \A r \in (1..formRows) \ formDoubtful' : r \in Contents =>
          /\ r \in B!Set(formStored'.queue) => Saving(r)'
          /\ r \in B!Set(formForm'.queue) =>
               Saving(r)' \/ (formPlace' = "leaving" /\ formForm'.queue = <<r>>)
    BY <2>2, <2>3, <1>2, <1>3, <1>6, <1>8, <1>10 DEF RowsOnce
  <2> QED BY <2>4, <2>5, <2>6, <2>7, <2>8, <2>9, <1>2, <1>6, FormGoesOn
<1> QED BY <1>9, <1>10

\* A save is answered, of the last row or of no row: the tab leaves the builder.
LEMMA SavedAndGone ==
  ASSUME FormInv, NEW s \in formSaves, B!Saved(s), ~ (Len(s.queue) > 1)
  PROVE  FormInv'
<1>1. /\ s.state = "done" /\ s.reader # "none" /\ formSaves' = formSaves \ {s}
      /\ formStored' = IF s.queue = <<>> THEN formStored ELSE B!Nothing
      /\ formForm' = IF s.reader = "builder"
                       THEN B!Flagged([formForm EXCEPT !.saving = FALSE], s) ELSE formForm
      /\ B!Push
      /\ UNCHANGED <<formAsked, formCampaigns, formRows, formStaged, formSkipped,
                     formDoubtful>>
  BY DEF B!Saved, B!watched
<1>2. /\ FormTypes /\ FormFits /\ FormFlags /\ RowsStay /\ RowsOnce /\ OneWaits
      /\ SaveFits(s) /\ s \in Save /\ s.queue \in Seq(Nat)
      /\ RowQueue(s.queue) /\ formForm \in Fields /\ formStored \in Storage
  BY DEF FormInv, FormTypes, SavesFit, SaveFits, Save
<1>3. /\ formPlace' \in {"list", "leaving"}
      /\ formPlace \in {"builder", "leaving"} <=> formPlace' = "leaving"
      /\ formPlace' = "list" => formForm = B!Form /\ formAsked = {}
  BY <1>1, Pushes
<1>4. \A t \in formSaves : t.reader = "builder" =>
        formPlace \in {"builder", "leaving"} /\ t.queue = formForm.queue
  BY DEF FormInv, SavesFit, SaveFits
<1>5. s.queue # <<>> => /\ s.content = Head(s.queue) /\ s.content \in Contents
                        /\ s.queue = <<s.content>> /\ B!Set(s.queue) = {s.content}
  <2>1. s.queue # <<>> => s.content = Head(s.queue) /\ s.content \in Contents
    BY <1>1, <1>2 DEF SaveFits, Filled
  <2> QED BY <2>1, <1>2, FirstAndRest
<1>6. /\ formStored' \in Storage /\ RowQueue(formStored'.queue)
      /\ B!Set(formStored'.queue) \subseteq B!Set(formStored.queue)
      /\ s.queue # <<>> => formStored'.queue = <<>>
      /\ s.queue = <<>> => formStored' = formStored
  BY <1>1, <1>2, EmptyQueue DEF B!Nothing, Storage, FormFits
<1>7. Contents' = Contents
  BY <1>1 DEF Contents
<1> HIDE DEF Contents
<1>8. Keeps(formStored.queue)'
  <2>1. CASE s.queue = <<>>
    BY <2>1, <1>1, <1>2, <1>6, <1>7 DEF RowsStay, Keeps, B!Set
  <2>2. CASE s.queue # <<>>
    <3>1. Keeps(s.queue)
      BY <2>2, <1>1, <1>2 DEF RowsStay
    <3>2. Keeps(<<>>)'
      BY <2>2, <3>1, <1>1, <1>2, <1>5, RestIsKept
    <3> QED BY <3>2, <2>2, <1>6
  <2> QED BY <2>1, <2>2
<1>9. \A r \in (1..formRows) \ formDoubtful : r \in Contents => r \notin B!Set(formStored'.queue)
                                                              \/ Saving(r)'
  <2> SUFFICES ASSUME NEW r \in (1..formRows) \ formDoubtful, r \in Contents,
                      r \in B!Set(formStored'.queue)
               PROVE  Saving(r)'
    OBVIOUS
  <2>1. s.queue = <<>>
    BY <1>6, EmptyQueue
  <2>2. Saving(r)
    BY <1>2, <1>6 DEF RowsOnce
  <2>3. PICK t \in formSaves : t.reader = "builder" /\ t.state = "done" /\ t.content = r
    BY <2>2 DEF Saving
  <2>4. t # s
    <3>1. Filled(s, TRUE) /\ formRows \in 0..MaxRows
      BY <1>2 DEF SaveFits, FormTypes
    <3>2. s.content \notin 1..formRows
      BY <2>1, <3>1, <1>2, ContentIsFirst
    <3> QED BY <2>3, <3>2
  <2> QED BY <2>3, <2>4, <1>1 DEF Saving
<1>10. CASE s.reader = "builder"
  <2>1. /\ formForm.queue = s.queue /\ s.edited = formForm.edited /\ ~ formForm.loading
        /\ formForm.account # None
    BY <1>2, <1>10 DEF SaveFits
  <2>2. PICK f : f = [formForm EXCEPT !.saving = FALSE]
    OBVIOUS
  <2>3. /\ f \in Fields /\ f.queue = formForm.queue /\ f.edited = formForm.edited
        /\ f.loading = formForm.loading /\ f.content = formForm.content
        /\ f.account = formForm.account /\ f.post = formForm.post
        /\ f.astray = formForm.astray
        /\ f.made = formForm.made /\ f.used = formForm.used /\ f.early = formForm.early
    BY <2>2, <1>2 DEF Fields
  <2>4. PICK g : g = B!Flagged(f, s)
    OBVIOUS
  <2>5. /\ g \in Fields /\ g.queue = f.queue /\ g.edited = f.edited
        /\ g.loading = f.loading /\ g.content = f.content /\ g.account = f.account
        /\ g.post = f.post /\ g.astray = f.astray
        /\ g.early \/ g.made \subseteq g.used
        /\ \A a \in formAsked : a.kind = "used" /\ g.made # {} => g.early
    BY <2>3, <2>4, <1>10, PostIsFlagged
  <2>6. formForm' = g
    BY <2>2, <2>4, <1>1, <1>10
  <2>7. Filled(g, ~ g.loading)
    BY <2>3, <2>5, <1>2 DEF FormFits, Filled
  <2>8. \A t \in formSaves' : t.reader # "builder"
    BY <1>1, <1>2, <1>10 DEF OneWaits
  <2>9. formPlace' = "leaving"
    BY <1>3, <1>4, <1>10
  <2>10. /\ formForm' \in Fields /\ RowQueue(formForm'.queue)
         /\ Filled(formForm', ~ formForm'.loading)
         /\ formForm'.loading = formForm.loading /\ formForm'.edited = formForm.edited
         /\ formForm'.account = formForm.account
         /\ formForm'.post # None /\ ~ formForm'.astray =>
              PostOwner[formForm'.post] = B!Effective(formForm'.account)
         /\ formForm'.early \/ formForm'.made \subseteq formForm'.used
         /\ formForm'.queue = s.queue
         /\ \A a \in formAsked : a.kind = "used" /\ formForm'.made # {} => formForm'.early
    BY <2>1, <2>3, <2>5, <2>6, <2>7, <1>2 DEF FormFits
  <2>11. formForm'.queue # <<>> => Keeps(formForm.queue)'
    <3>1. SUFFICES ASSUME s.queue # <<>> PROVE Keeps(s.queue)'
      BY <2>10
    <3>2. Keeps(s.queue)
      BY <3>1, <1>1, <1>2 DEF RowsStay
    <3> QED BY <3>1, <3>2, <1>1, <1>2, <1>5, RestIsKept
  <2>12. ASSUME NEW r \in B!Set(formForm'.queue) PROVE formForm'.queue = <<r>>
    BY <2>10, <1>5, EmptyQueue
  <2>13. \A r \in (1..formRows) \ formDoubtful' : r \in Contents =>
           /\ r \in B!Set(formStored'.queue) => Saving(r)'
           /\ r \in B!Set(formForm'.queue) =>
                Saving(r)' \/ (formPlace' = "leaving" /\ formForm'.queue = <<r>>)
    BY <2>9, <2>12, <1>1, <1>9
  <2> QED BY <2>1, <2>8, <2>9, <2>10, <2>11, <2>13, <1>1, <1>6, <1>8, FormGoesOn
<1>11. CASE s.reader # "builder"
  <2>1. formForm' = formForm
    BY <1>1, <1>11
  <2>2. /\ formForm'.early \/ formForm'.made \subseteq formForm'.used
        /\ formForm'.made # {} => ~ formForm.loading /\ formForm.account # None
        /\ \A a \in formAsked : a.kind = "used" /\ formForm'.made # {} => formForm'.early
    BY <2>1, <1>2 DEF FormFlags, B!UsedIsFlagged
  <2>3. /\ formForm' \in Fields /\ RowQueue(formForm'.queue)
        /\ Filled(formForm', ~ formForm'.loading)
        /\ formForm'.loading = formForm.loading /\ formForm'.edited = formForm.edited
        /\ formForm'.account = formForm.account
        /\ formForm'.post # None /\ ~ formForm'.astray =>
              PostOwner[formForm'.post] = B!Effective(formForm'.account)
    BY <2>1, <1>2 DEF FormFits
  <2>4. /\ formPlace' \in {"list", "import", "builder", "leaving"}
        /\ formPlace' \in {"list", "import"} => formForm' = B!Form /\ formAsked = {}
        /\ \A t \in formSaves' : t.reader = "builder" =>
              formForm' = formForm /\ formPlace' \in {"builder", "leaving"}
    BY <2>1, <1>1, <1>3, <1>4
  <2>5. formForm'.queue # <<>> => Keeps(formForm.queue)'
    BY <2>1, <1>1, <1>2, <1>7 DEF RowsStay, Keeps, B!Set
  <2>6. \A r \in (1..formRows) \ formDoubtful : Saving(r) => Saving(r)'
    BY <1>1, <1>11 DEF Saving
  <2>7. formPlace = "leaving" => formPlace' = "leaving"
    BY <1>3
  <2>8. \A r \in (1..formRows) \ formDoubtful' : r \in Contents =>
          /\ r \in B!Set(formStored'.queue) => Saving(r)'
          /\ r \in B!Set(formForm'.queue) =>
               Saving(r)' \/ (formPlace' = "leaving" /\ formForm'.queue = <<r>>)
    BY <2>1, <2>6, <2>7, <1>1, <1>2, <1>9 DEF RowsOnce
  <2> QED BY <2>2, <2>3, <2>4, <2>5, <2>8, <1>1, <1>6, <1>8, FormGoesOn
<1> QED BY <1>10, <1>11

LEMMA SkipRowForm ==
  ASSUME FormInv, B!SkipRow
  PROVE  FormInv'
<1>1. PICK q : q = Tail(formForm.queue)
  OBVIOUS
<1>2. /\ formPlace \in {"builder", "leaving"} /\ ~ formForm.loading /\ ~ formForm.saving
      /\ formForm.queue # <<>>
      /\ formSkipped' = formSkipped \cup {Head(formForm.queue)}
      /\ UNCHANGED <<formAsked, formSaves, formCampaigns, formRows, formStaged, formDoubtful>>
  BY DEF B!SkipRow, B!Shown
<1>3. \/ /\ Len(formForm.queue) > 1
         /\ formStored' = [formStored EXCEPT !.queue = q]
         /\ formForm' = B!Advanced(q)
         /\ UNCHANGED formPlace
      \/ /\ ~ (Len(formForm.queue) > 1)
         /\ formStored' = B!Nothing /\ B!Push /\ UNCHANGED formForm
  BY <1>1 DEF B!SkipRow
<1>4. /\ FormTypes /\ FormFits /\ FormFlags /\ RowsStay /\ RowsOnce /\ SavesFit
      /\ formForm \in Fields /\ formForm.queue \in Seq(Nat) /\ formForm.edited = 0
      /\ RowQueue(formForm.queue) /\ formStored \in Storage
  BY <1>2 DEF FormInv, FormTypes, FormFits, Filled, Fields
<1>5. \A t \in formSaves : t.reader # "builder"
  BY <1>2, <1>4 DEF SavesFit, SaveFits
<1>6. \A r : ~ Saving(r)
  BY <1>5 DEF Saving
<1>7. /\ Keeps(q)' /\ Keeps(formForm.queue)
      /\ ~ (Len(formForm.queue) > 1) => Keeps(<<>>)'
  BY <1>1, <1>2, <1>4, RestIsKept DEF RowsStay
<1>8. /\ B!Set(formForm.queue) = {Head(formForm.queue)} \cup B!Set(q)
      /\ ~ (Len(formForm.queue) > 1) => formForm.queue = <<Head(formForm.queue)>>
                                      /\ B!Set(formForm.queue) = {Head(formForm.queue)}
      /\ q \in Seq(Nat) /\ RowQueue(q) /\ (Len(formForm.queue) > 1 => q # <<>>)
  BY <1>1, <1>2, <1>4, FirstAndRest
<1> HIDE DEF Contents
<1>9. CASE /\ Len(formForm.queue) > 1
           /\ formStored' = [formStored EXCEPT !.queue = q]
           /\ formForm' = B!Advanced(q)
           /\ UNCHANGED formPlace
  <2>1. formStored' \in Storage /\ formStored'.queue = q
    BY <1>4, <1>8, <1>9 DEF Storage
  <2>2. /\ formForm' \in Fields /\ formForm'.queue = q /\ formForm'.edited = formForm.edited
        /\ formForm'.loading = formForm.loading /\ formForm'.content = Head(q)
        /\ formForm'.account = formForm.account /\ formForm'.post = None
        /\ formForm'.made = formForm.made /\ formForm'.used = formForm.used
        /\ formForm'.early = formForm.early
        /\ \A there : Filled(formForm', there)
    <3>1. q # <<>> /\ q \in Seq(Nat)
      BY <1>8, <1>9
    <3> QED BY <3>1, <1>4, <1>9, FormAdvances
  <2>3. Filled(formForm', ~ formForm'.loading)
    BY <2>2
  <2>4. /\ formForm'.early \/ formForm'.made \subseteq formForm'.used
        /\ formForm'.made # {} => ~ formForm.loading /\ formForm.account # None
        /\ \A a \in formAsked : a.kind = "used" /\ formForm'.made # {} => formForm'.early
    BY <2>2, <1>4 DEF FormFlags, B!UsedIsFlagged
  <2>5. ASSUME NEW r \in (1..formRows) \ formDoubtful, r \in Contents PROVE r \notin B!Set(q)
    <3>1. SUFFICES ASSUME r \in B!Set(q) PROVE FALSE
      OBVIOUS
    <3>2. formForm.queue = <<r>>
      BY <3>1, <2>5, <1>4, <1>6, <1>8 DEF RowsOnce
    <3> QED BY <3>2, <1>4, <1>9, MoreThanOne
  <2>6. /\ formSkipped \subseteq formSkipped' /\ formSaves' \subseteq formSaves
        /\ \A t \in formSaves' : t.reader # "builder"
        /\ formPlace' \in {"builder", "leaving"}
    BY <1>2, <1>5, <1>9
  <2>7. /\ RowQueue(formForm'.queue) /\ RowQueue(formStored'.queue)
        /\ Keeps(formStored.queue)' /\ Keeps(formForm.queue)'
    BY <2>1, <2>2, <1>7, <1>8
  <2>8. \A r \in (1..formRows) \ formDoubtful' : r \in Contents =>
          r \notin B!Set(formStored'.queue) /\ r \notin B!Set(formForm'.queue)
    BY <2>1, <2>2, <2>5, <1>2
  <2> QED BY <2>1, <2>2, <2>3, <2>4, <2>6, <2>7, <2>8, <1>2, FormGoesOn
<1>10. CASE /\ ~ (Len(formForm.queue) > 1)
            /\ formStored' = B!Nothing /\ B!Push /\ UNCHANGED formForm
  <2>1. formPlace' = "leaving"
    BY <1>2, <1>10, Pushes
  <2>2. formStored' \in Storage /\ formStored'.queue = <<>> /\ B!Set(formStored'.queue) = {}
    BY <1>10, EmptyQueue DEF B!Nothing, Storage
  <2>3. /\ formForm'.early \/ formForm'.made \subseteq formForm'.used
        /\ formForm'.made # {} => ~ formForm.loading /\ formForm.account # None
        /\ \A a \in formAsked : a.kind = "used" /\ formForm'.made # {} => formForm'.early
    BY <1>4, <1>10 DEF FormFlags, B!UsedIsFlagged
  <2>4. /\ formForm' \in Fields /\ RowQueue(formForm'.queue)
        /\ Filled(formForm', ~ formForm'.loading)
        /\ formForm'.loading = formForm.loading /\ formForm'.edited = formForm.edited
        /\ formForm'.account = formForm.account
        /\ formForm'.post # None /\ ~ formForm'.astray =>
              PostOwner[formForm'.post] = B!Effective(formForm'.account)
    BY <1>4, <1>10 DEF FormFits
  <2>5. Keeps(formForm.queue)'
    BY <1>2, <1>7, <1>10 DEF Keeps, Contents, B!Set
  <2>6. Keeps(formStored.queue)' /\ RowQueue(formStored'.queue)
    BY <2>2, <1>7, <1>10, EmptyQueue
  <2>7. \A r \in B!Set(formForm'.queue) : formForm'.queue = <<r>>
    BY <1>8, <1>10
  <2>8. /\ formSkipped \subseteq formSkipped' /\ formSaves' \subseteq formSaves
        /\ \A t \in formSaves' : t.reader # "builder"
    BY <1>2, <1>5
  <2> QED BY <2>1, <2>2, <2>3, <2>4, <2>5, <2>6, <2>7, <2>8, <1>2, FormGoesOn
<1> QED BY <1>3, <1>9, <1>10

LEMMA FormStarts == B!Init => FormInv
<1> SUFFICES ASSUME B!Init PROVE FormInv
  OBVIOUS
<1>1. /\ formPlace = "list" /\ formForm = B!Form /\ formAsked = {} /\ formSaves = {}
      /\ formStored = B!Nothing /\ formRows = 0 /\ formStaged = {} /\ formSkipped = {}
      /\ formDoubtful = {}
  BY DEF B!Init
<1>2. PICK p \in Posts : formCampaigns = <<[content |-> B!Old, account |-> PostOwner[p],
                                           post |-> p, astray |-> FALSE]>>
  BY DEF B!Init
<1>3. PICK k : k = [content |-> B!Old, account |-> PostOwner[p], post |-> p, astray |-> FALSE]
  OBVIOUS
<1>4. k \in Campaign /\ OwnPost(k) /\ k.content = B!Old
  BY <1>3, FormFacts DEF Campaign, OwnPost
<1>5. /\ formCampaigns = <<k>> /\ formCampaigns \in Seq(Campaign) /\ Len(formCampaigns) = 1
      /\ formCampaigns[1] = k
  <2>1. formCampaigns = <<k>>
    BY <1>2, <1>3
  <2> QED BY <2>1, <1>4
<1>6. 1..Len(formCampaigns) = {1}
  BY <1>5
<1>7. Listing(formCampaigns) /\ Contents = {B!Old}
  BY <1>4, <1>5, <1>6 DEF Listing, Contents
<1>8. formStored \in Storage /\ formStored.queue = <<>>
  BY <1>1, EmptyQueue DEF B!Nothing, Storage
<1>9. B!Form.queue = <<>> /\ B!Form.made = {} /\ B!Form.loading = FALSE /\ B!Form.post = None
  BY DEF B!Form
<1>10. FormTypes
  BY <1>1, <1>7, <1>8, FormIsField, FormFacts, FS_EmptySet DEF FormTypes
<1>11. FormFits
  BY <1>1, <1>8, <1>9, FormIsField DEF FormFits, Filled
<1>12. FormAsks /\ FormFlags
  BY <1>1, <1>9 DEF FormAsks, FormFlags, B!UsedIsFlagged
<1>13. SavesFit /\ OneWaits
  BY <1>1 DEF SavesFit, OneWaits
<1>14. RowsStay
  BY <1>1, <1>9 DEF RowsStay, Keeps
<1>15. RowsOnce
  BY <1>1, <1>7, FormFacts DEF RowsOnce
<1> QED BY <1>10, <1>11, <1>12, <1>13, <1>14, <1>15 DEF FormInv

LEMMA FormSteps == FormInv /\ [B!Next]_(B!vars) => FormInv'
<1> SUFFICES ASSUME FormInv, [B!Next]_(B!vars) PROVE FormInv'
  OBVIOUS
<1>1. CASE \E edited \in {0, 1}, cached \in BOOLEAN : B!OpenBuilder(edited, cached)
  BY <1>1, OpenBuilderForm
<1>2. CASE \E cached \in BOOLEAN : B!Reload(cached)
  BY <1>2, ReloadForm
<1>3. CASE \E page \in {"list", "import"} : B!GoTo(page)
  BY <1>3, GoToForm
<1>4. CASE \E n \in 1..MaxRows, x \in Accounts \cup {None}, cached \in BOOLEAN :
             B!StartImport(n, x, cached)
  BY <1>4, StartImportForm
<1>5. CASE \E a \in formAsked : B!Read(a) \/ B!Arrive(a)
  <2>1. PICK a \in formAsked : B!Read(a) \/ B!Arrive(a)
    BY <1>5
  <2>2. CASE B!Read(a)
    BY <2>2, ReadForm
  <2>3. CASE B!Arrive(a)
    <3>1. UNCHANGED <<formPlace, formSaves, formStored, formCampaigns, formRows, formStaged,
                      formSkipped, formDoubtful>>
      BY <2>3 DEF B!Arrive, B!watched
    <3>2. \/ B!UsedArrives(a) \/ B!CampaignArrives(a) \/ B!AccountsArrive(a)
          \/ B!LibraryArrives(a) \/ B!Fails(a)
      BY <2>3 DEF B!Arrive
    <3> QED BY <3>1, <3>2, UsedArrivesForm, CampaignArrivesForm, AccountsArriveForm,
               LibraryArrivesForm
  <2> QED BY <2>1, <2>2, <2>3
<1>6. CASE \E x \in Accounts, cached \in BOOLEAN : B!SelectAccount(x, cached)
  BY <1>6, SelectAccountForm
<1>7. CASE \E p \in Posts : B!PickPost(p)
  BY <1>7, PickPostForm
<1>8. CASE \E post \in Posts \cup {None} : B!Submit(post)
  BY <1>8, SubmitForm
<1>9. CASE \E s \in formSaves : B!Handle(s) \/ B!Saved(s) \/ B!Unsaved(s)
  BY <1>9, HandleForm, SavedAndOn, SavedAndGone, UnsavedForm
<1>10. CASE B!SkipRow
  BY <1>10, SkipRowForm
<1>11. CASE UNCHANGED B!vars
  <2>1. UNCHANGED <<formPlace, formForm, formAsked, formSaves, formStored, formCampaigns,
                    formRows, formStaged, formSkipped, formDoubtful>>
    BY <1>11 DEF B!vars, B!watched
  <2>2. FormFlags' /\ FormFits'
    BY <2>1 DEF FormInv, FormFlags, B!UsedIsFlagged, FormFits, RowQueue, Filled
  <2>3. FormAsks'
    BY <2>1 DEF FormInv, FormAsks, AskFits, Listing, Campaign, OwnPost
  <2>4. Filled(formForm, ~ formForm.loading)'
    BY <2>2 DEF FormFits
  <2>5. formForm \in Fields /\ formForm' \in Fields
    BY <2>1 DEF FormInv, FormTypes
  <2>6. formForm'.post # None /\ ~ formForm'.astray =>
          PostOwner[formForm'.post] = B!Effective(formForm'.account)
    BY <2>2 DEF FormFits
  <2> QED BY <2>1, <2>2, <2>3, <2>4, <2>5, <2>6, FieldsMove
<1> QED BY <1>1, <1>2, <1>3, <1>4, <1>5, <1>6, <1>7, <1>8, <1>9, <1>10, <1>11 DEF B!Next

-----------------------------------------------------------------------------
(* The form of a campaign: the theorems *)

\* The invariant of the form, from which its properties follow: the rows that are
\* stored, shown or asked to be saved are distinct rows of the import, and a row that
\* has a campaign is not among them once the tab has heard of it.
THEOREM FormInvariance == B!Spec => []FormInv
BY FormStarts, FormSteps, PTL DEF B!Spec

LEMMA FormIsGood == FormInv => B!TypeOK /\ FormHolds
<1> SUFFICES ASSUME FormInv PROVE B!TypeOK /\ FormHolds
  OBVIOUS
<1>1. /\ FormTypes /\ FormFits /\ FormFlags /\ SavesFit /\ RowsStay /\ RowsOnce
      /\ Listing(formCampaigns) /\ formForm \in Fields /\ formStored \in Storage
  BY DEF FormInv, FormTypes
<1>2. B!TypeOK
  <2>1. /\ formPlace \in {"list", "import", "builder", "leaving"}
        /\ formPlace \in {"list", "import"} => formForm = B!Form /\ formAsked = {}
    BY <1>1 DEF FormTypes
  <2>2. formForm.account \in Accounts \cup {None} /\ formForm.used \subseteq Posts
    BY <1>1 DEF Fields
  <2>3. \A s \in formSaves : s.reader \in {"builder", "tab", "none"}
    BY <1>1 DEF SavesFit, SaveFits, Save
  <2>4. B!Set(formStored.queue) \subseteq 1..formRows
    BY <1>1 DEF FormFits, RowQueue, B!Set
  <2> QED BY <2>1, <2>2, <2>3, <2>4 DEF B!TypeOK
<1>3. B!RowsAreKept
  <2>1. formStaged \subseteq B!Set(formStored.queue) \cup formSkipped \cup Contents
    BY <1>1 DEF RowsStay, Keeps
  <2> QED BY <2>1 DEF B!RowsAreKept, Contents
<1>4. B!OnceEach
  <2> SUFFICES ASSUME NEW r \in 1..formRows, r \notin formDoubtful
               PROVE  B!Cardinality({c \in 1..Len(formCampaigns) :
                                       formCampaigns[c].content = r}) <= 1
    BY DEF B!OnceEach
  <2>1. PICK those : those = {c \in 1..Len(formCampaigns) : formCampaigns[c].content = r}
    OBVIOUS
  <2>2. \A c, d \in those : c = d
    BY <1>1, <2>1 DEF RowsOnce
  <2>3. CASE those = {}
    <3>1. Cardinality(those) = 0
      BY <2>3, FS_EmptySet
    <3> QED BY <2>1, <3>1 DEF B!Cardinality, Cardinality
  <2>4. CASE those # {}
    <3>1. PICK c : those = {c}
      BY <2>2, <2>4
    <3>2. Cardinality(those) = 1
      BY <3>1, FS_Singleton
    <3> QED BY <2>1, <3>2 DEF B!Cardinality, Cardinality
  <2> QED BY <2>3, <2>4
<1>5. B!PostIsOwn
  BY <1>1 DEF B!PostIsOwn, Listing, OwnPost
<1>6. B!UsedIsFlagged
  BY <1>1 DEF FormFlags
<1> QED BY <1>2, <1>3, <1>4, <1>5, <1>6 DEF FormHolds, B!FormHolds

\* Each row of an import makes one campaign, of a post of its own account, or is still
\* to come; the post of a row before is flagged.  So for every number of rows, saves
\* and clicks.
THEOREM FormIsKept == B!Spec => [](B!TypeOK /\ FormHolds)
BY FormInvariance, FormIsGood, PTL

\* An edit leaves a campaign's fields as they were loaded, and writes no other's.
THEOREM EditIsKept == B!Spec => EditKeepsFields
<1>1. FormInv /\ [B!Next]_(B!vars) =>
        [\A c \in 1..Len(formCampaigns) :
           formCampaigns'[c].content = formCampaigns[c].content]_formCampaigns
  <2> SUFFICES ASSUME FormInv, [B!Next]_(B!vars), formCampaigns' # formCampaigns,
                      NEW c \in 1..Len(formCampaigns)
               PROVE  formCampaigns'[c].content = formCampaigns[c].content
    OBVIOUS
  <2>1. PICK s \in formSaves : B!Handle(s)
    <3>1. \A n, x, e, cached : ~ (\/ B!OpenBuilder(e, cached) \/ B!Reload(cached)
                                  \/ B!GoTo(x) \/ B!StartImport(n, x, cached))
      BY DEF B!OpenBuilder, B!Reload, B!GoTo, B!StartImport
    <3>2. \A a, x, cached : ~ (\/ B!Read(a) \/ B!Arrive(a) \/ B!SelectAccount(x, cached)
                               \/ B!PickPost(x) \/ B!Submit(x))
      BY DEF B!Read, B!Arrive, B!SelectAccount, B!PickPost, B!Submit
    <3>3. \A t : ~ (B!Saved(t) \/ B!Unsaved(t) \/ B!SkipRow)
      BY DEF B!Saved, B!Unsaved, B!SkipRow
    <3>4. ~ UNCHANGED B!vars
      BY DEF B!vars
    <3> QED BY <3>1, <3>2, <3>3, <3>4 DEF B!Next
  <2>2. PICK k : k = B!Made(s) /\ k.content = s.content
    BY CampaignIsMade
  <2>3. IF s.edited = 0 THEN formCampaigns' = Append(formCampaigns, k)
                        ELSE formCampaigns' = [formCampaigns EXCEPT ![s.edited] = k]
    BY <2>1, <2>2 DEF B!Handle
  <2>4. formCampaigns \in Seq(Campaign) /\ formCampaigns[1].content = B!Old
    BY DEF FormInv, FormTypes, Listing
  <2>5. s.edited \in {0, 1} /\ Filled(s, TRUE)
    BY DEF FormInv, SavesFit, SaveFits, Save
  <2>6. CASE s.edited = 0
    BY <2>3, <2>4, <2>6
  <2>7. CASE s.edited = 1
    <3>1. s.content = B!Old /\ k.content = s.content
      BY <2>2, <2>5, <2>7 DEF Filled
    <3> QED BY <2>3, <2>4, <2>7, <3>1
  <2> QED BY <2>5, <2>6, <2>7
<1> QED BY <1>1, FormInvariance, PTL DEF B!Spec, EditKeepsFields, B!EditKeepsFields

-----------------------------------------------------------------------------
(* The list of campaigns: its invariant *)

Entry == [account : Accounts \cup {All}, active : BOOLEAN]
\* What a screen shows of a campaign.
Visible == {e \in Entry : e = L!Gone \/ e.account \in Accounts}
ChangeKinds == {"toggle", "delete", "duplicate"}
ChangeStates == {"sent", "done", "refused"}

ListFlies ==
  \A f \in listFlying :
    /\ f.kind \in ChangeKinds \cup {"list"} /\ f.account \in Accounts \cup {All}
    /\ f.kind = "list" =>
         /\ f.rows = <<>> \/ f.rows \in [L!Ids -> Visible]
         /\ {"kind", "account", "rows"} \subseteq DOMAIN f
    /\ f.kind # "list" =>
         /\ f.id \in L!Ids /\ f.active \in BOOLEAN /\ f.owner \in Accounts \cup {All}
         /\ f.ours \in BOOLEAN /\ f.state \in ChangeStates
         /\ {"kind", "id", "active", "account", "state", "owner", "ours"} \subseteq DOMAIN f

ListTypes ==
  /\ listCampaigns \in [L!Ids -> Entry] /\ listShown \in [L!Ids -> Visible]
  /\ listPage \in 0..MaxMade /\ listAccount \in Accounts \cup {All}
  /\ listThumbs \subseteq Accounts /\ listMuddled \in BOOLEAN

\* The thumbnails that are asked for are of the accounts on the list.
PicturesFit ==
  /\ listMedia \subseteq {L!On(listShown)}
  /\ L!PicturesAreOfList

\* Nothing has gone astray, and no list is to come.
Calm == ~ listMuddled /\ \A f \in listFlying : f.kind # "list"

Toggles(c) == {f \in listFlying : f.kind = "toggle" /\ f.id = c}
Deletes(c) == {f \in listFlying : f.kind = "delete" /\ f.id = c}
Stored(c) == L!View(listAccount)[c]

\* Both gone; or deleted, of which the screen is still to hear; or the same, but for
\* switches all in one direction, which the screen or the row is still to take.
Alike(c) ==
  /\ listShown[c] # L!Gone /\ Stored(c) # L!Gone
  /\ listShown[c].account = Stored(c).account
  /\ \A f \in Deletes(c) : f.state # "done"
  /\ Toggles(c) = {} => listShown[c].active = Stored(c).active
  /\ \A f, g \in Toggles(c) : f.active = g.active
  /\ \A f \in Toggles(c) : f.state = "done" => Stored(c).active = f.active
Shows(c) ==
  \/ listShown[c] = L!Gone /\ Stored(c) = L!Gone
  \/ Stored(c) = L!Gone /\ \E f \in Deletes(c) : f.state = "done"
  \/ Alike(c)

\* A copy is made, and the list that shows it not asked for.
Copied == \E f \in listFlying : f.kind = "duplicate" /\ f.state = "done"

CalmFits ==
  /\ \A f \in listFlying : f.ours /\ (f.state = "refused" => f.kind = "duplicate")
  /\ ~ Copied => \A c \in L!Ids : listPage \in {0, c} => Shows(c)

ListInv == ListTypes /\ ListFlies /\ PicturesFit /\ (Calm => CalmFits)

-----------------------------------------------------------------------------
(* The list of campaigns: what it holds *)

LEMMA ListOfCampaigns ==
  /\ L!Gone \in Visible /\ L!Gone \in Entry /\ L!Unmade \in Entry
  /\ \A e \in Visible : e \in Entry /\ (e # L!Gone => e.account \in Accounts)
  /\ \A e \in Entry : e.account # All => e \in Visible /\ e # L!Gone
  /\ \A e, d \in Entry : e.account = d.account /\ e.active = d.active => e = d
BY DashboardBounds DEF L!ListBounds, Visible, Entry, L!Gone, L!Unmade

LEMMA ViewIs ==
  ASSUME ListTypes, NEW a \in Accounts \cup {All}
  PROVE  /\ L!View(a) \in [L!Ids -> Visible]
         /\ \A c \in L!Ids :
              L!View(a)[c] = IF listCampaigns[c].account # All
                                  /\ a \in {All, listCampaigns[c].account}
                               THEN listCampaigns[c] ELSE L!Gone
<1>1. \A c \in L!Ids :
        L!View(a)[c] = IF listCampaigns[c].account # All
                            /\ a \in {All, listCampaigns[c].account}
                         THEN listCampaigns[c] ELSE L!Gone
  BY DEF L!View, L!Kept
<1>2. \A c \in L!Ids : L!View(a)[c] \in Visible
  BY <1>1, ListOfCampaigns DEF ListTypes
<1>3. L!View(a) = [c \in L!Ids |-> L!View(a)[c]]
  BY DEF L!View
<1>4. QED
  BY <1>1, <1>2, <1>3

LEMMA OnIs ==
  ASSUME NEW table \in [L!Ids -> Visible]
  PROVE  L!On(table) \subseteq Accounts
BY ListOfCampaigns DEF L!On

\* A request for a list, as it leaves.
LEMMA ListRequest ==
  ASSUME NEW a
  PROVE  /\ L!List(a).kind = "list" /\ L!List(a).account = a /\ L!List(a).rows = <<>>
         /\ {"kind", "account", "rows"} \subseteq DOMAIN L!List(a)
BY DEF L!List

\* A change whose state or reader is another.
LEMMA ChangeGoesOn ==
  ASSUME NEW f,
         {"kind", "id", "active", "account", "state", "owner", "ours"} \subseteq DOMAIN f,
         NEW state, NEW g, g = [f EXCEPT !.state = state]
  PROVE  /\ g.kind = f.kind /\ g.id = f.id /\ g.active = f.active /\ g.account = f.account
         /\ g.state = state /\ g.owner = f.owner /\ g.ours = f.ours
         /\ {"kind", "id", "active", "account", "state", "owner", "ours"} \subseteq DOMAIN g
OBVIOUS

LEMMA ListStarts == L!Init => ListInv
<1> SUFFICES ASSUME L!Init PROVE ListInv
  OBVIOUS
<1>1. /\ listPage = 0 /\ listAccount = All /\ listThumbs = {} /\ listMedia = {}
      /\ listShown = [c \in L!Ids |-> L!Gone] /\ listFlying = {L!List(All)}
      /\ listMuddled = FALSE
      /\ listCampaigns = [c \in L!Ids |-> IF c \in DOMAIN Owners
                                            THEN L!Row(Owners[c], TRUE) ELSE L!Unmade]
  BY DEF L!Init
<1>2. listCampaigns \in [L!Ids -> Entry]
  <2>1. \A c \in DOMAIN Owners : L!Row(Owners[c], TRUE) \in Entry
    BY DashboardBounds DEF L!ListBounds, L!Row, Entry
  <2>2. QED
    BY <1>1, <2>1, ListOfCampaigns
<1>3. ListTypes
  <2>1. listPage \in 0..MaxMade
    BY <1>1, DashboardBounds DEF L!ListBounds
  <2>2. listShown \in [L!Ids -> Visible]
    BY <1>1, ListOfCampaigns
  <2>3. QED
    BY <1>1, <1>2, <2>1, <2>2 DEF ListTypes
<1>4. PicturesFit
  BY <1>1 DEF PicturesFit, L!PicturesAreOfList
<1>5. ListFlies /\ ~ Calm
  BY <1>1, ListRequest DEF ListFlies, Calm
<1>6. QED
  BY <1>3, <1>4, <1>5 DEF ListInv

\* A new list on the screen.
LEMMA PicturesFollow ==
  ASSUME ListTypes, PicturesFit, NEW table \in [L!Ids -> Visible], NEW cached \in BOOLEAN,
         L!Pictures(table, cached), listShown' = table
  PROVE  PicturesFit' /\ listThumbs' \subseteq Accounts
<1>1. CASE table = listShown
  BY <1>1 DEF L!Pictures, PicturesFit, ListTypes, L!PicturesAreOfList
<1>2. CASE table # listShown
  <2>1. listMedia' = {L!On(table)} \ {{}} /\ listThumbs' \in {listThumbs, L!On(table)}
    BY <1>2 DEF L!Pictures
  <2>2. L!On(table) \subseteq Accounts
    BY OnIs
  <2>3. L!On(listShown') = L!On(table)
    OBVIOUS
  <2>4. QED
    BY <2>1, <2>2, <2>3 DEF PicturesFit, ListTypes, L!PicturesAreOfList
<1>3. QED
  BY <1>1, <1>2

-----------------------------------------------------------------------------
(* The list of campaigns: its steps *)

\* A list is asked for, under way or read.
LEMMA ListComing ==
  ASSUME ListTypes', ListFlies', PicturesFit', NEW f \in listFlying', f.kind = "list"
  PROVE  ListInv'
BY DEF ListInv, Calm

LEMMA PagesKeep ==
  ASSUME ListInv,
         \/ \E c \in 0..MaxMade : L!GoTo(c)
         \/ \E a \in Accounts \cup {All} : L!HandleAccountChange(a)
  PROVE  ListInv'
<1>1. ListTypes /\ ListFlies /\ PicturesFit
  BY DEF ListInv
<1>2. ASSUME NEW c \in 0..MaxMade, L!GoTo(c) PROVE ListInv'
  <2> DEFINE left(f) == [f EXCEPT !.ours = FALSE]
  <2>1. /\ listPage' = c /\ listAccount' = All /\ listMedia' = {} /\ listThumbs' = {}
        /\ listShown' = [d \in L!Ids |-> L!Gone] /\ listMuddled' = FALSE
        /\ UNCHANGED listCampaigns
        /\ listFlying' = {left(f) : f \in L!Changes} \cup {L!List(All)}
    BY <1>2 DEF L!GoTo, L!Fly, L!Leave
  <2>2. ListTypes'
    BY <1>1, <2>1, ListOfCampaigns DEF ListTypes
  <2>3. PicturesFit'
    BY <2>1 DEF PicturesFit, L!PicturesAreOfList
  <2>4. \A f \in L!Changes :
          /\ left(f).kind = f.kind /\ left(f).id = f.id /\ left(f).active = f.active
          /\ left(f).account = f.account /\ left(f).owner = f.owner /\ left(f).ours = FALSE
          /\ left(f).state = f.state
          /\ {"kind", "id", "active", "account", "state", "owner", "ours"} \subseteq DOMAIN left(f)
    BY <1>1 DEF L!Changes, ListFlies
  <2>5. \A f \in L!Changes : f \in listFlying /\ f.kind # "list"
    BY DEF L!Changes
  <2> HIDE DEF left
  <2>6. \A g \in listFlying' : g = L!List(All) \/ \E f \in L!Changes : g = left(f)
    BY <2>1
  <2>7. ListFlies'
    <3>1. SUFFICES ASSUME NEW g \in listFlying'
                   PROVE  /\ g.kind \in ChangeKinds \cup {"list"} /\ g.account \in Accounts \cup {All}
                          /\ g.kind = "list" =>
                               /\ g.rows = <<>> \/ g.rows \in [L!Ids -> Visible]
                               /\ {"kind", "account", "rows"} \subseteq DOMAIN g
                          /\ g.kind # "list" =>
                               /\ g.id \in L!Ids /\ g.active \in BOOLEAN
                               /\ g.owner \in Accounts \cup {All} /\ g.ours \in BOOLEAN
                               /\ g.state \in ChangeStates
                               /\ {"kind", "id", "active", "account", "state", "owner", "ours"}
                                    \subseteq DOMAIN g
      BY DEF ListFlies
    <3>2. CASE g = L!List(All)
      BY <3>2, ListRequest
    <3>3. CASE g # L!List(All)
      <4>1. PICK f \in L!Changes : g = left(f)
        BY <2>6, <3>1, <3>3
      <4>2. QED
        BY <1>1, <2>4, <2>5, <4>1 DEF ListFlies
    <3>4. QED
      BY <3>2, <3>3
  <2>8. L!List(All) \in listFlying' /\ L!List(All).kind = "list"
    BY <2>1, ListRequest
  <2>9. QED
    BY <2>2, <2>3, <2>7, <2>8, ListComing
<1>3. ASSUME NEW a \in Accounts \cup {All}, L!HandleAccountChange(a) PROVE ListInv'
  <2>1. /\ listAccount' = a /\ listFlying' = listFlying \cup {L!List(a)}
        /\ UNCHANGED <<listCampaigns, listPage, listShown, listThumbs, listMedia, listMuddled>>
    BY <1>3 DEF L!HandleAccountChange, L!Fly, L!pictures
  <2>2. ListTypes' /\ PicturesFit'
    BY <1>1, <2>1 DEF ListTypes, PicturesFit, L!PicturesAreOfList
  <2>3. ListFlies'
    BY <1>1, <2>1, ListRequest DEF ListFlies
  <2>4. QED
    BY <2>1, <2>2, <2>3, ListRequest, ListComing
<1>4. QED
  BY <1>2, <1>3

LEMMA ListsKeep ==
  ASSUME ListInv, NEW f \in listFlying,
         L!Read(f) \/ L!Unlisted(f) \/ \E cached \in BOOLEAN : L!Listed(f, cached)
  PROVE  ListInv'
<1>1. ListTypes /\ ListFlies /\ PicturesFit
  BY DEF ListInv
<1>2. CASE L!Read(f)
  <2> DEFINE read == [f EXCEPT !.rows = L!View(f.account)]
  <2>1. /\ f.kind = "list" /\ listFlying' = (listFlying \ {f}) \cup {read}
        /\ UNCHANGED <<listCampaigns, listPage, listAccount, listShown, listThumbs, listMedia,
                       listMuddled>>
    BY <1>2 DEF L!Read, L!screen, L!pictures
  <2>2. f.account \in Accounts \cup {All} /\ {"kind", "account", "rows"} \subseteq DOMAIN f
    BY <1>1, <2>1 DEF ListFlies
  <2>3. L!View(f.account) \in [L!Ids -> Visible]
    BY <1>1, <2>2, ViewIs
  <2>4. /\ read.kind = "list" /\ read.account = f.account /\ read.rows = L!View(f.account)
        /\ {"kind", "account", "rows"} \subseteq DOMAIN read
    BY <2>1, <2>2
  <2> HIDE DEF read
  <2>5. ListTypes' /\ PicturesFit'
    BY <1>1, <2>1 DEF ListTypes, PicturesFit, L!PicturesAreOfList
  <2>6. ListFlies'
    BY <1>1, <2>1, <2>2, <2>3, <2>4 DEF ListFlies
  <2>7. QED
    BY <2>1, <2>4, <2>5, <2>6, ListComing
<1>3. CASE L!Unlisted(f)
  <2>1. /\ listFlying' = listFlying \ {f} /\ listMuddled' = TRUE
        /\ UNCHANGED <<listCampaigns, listPage, listAccount, listShown, listThumbs, listMedia>>
    BY <1>3 DEF L!Unlisted, L!pictures
  <2>2. ListTypes' /\ PicturesFit' /\ ListFlies'
    BY <1>1, <2>1 DEF ListTypes, PicturesFit, L!PicturesAreOfList, ListFlies
  <2>3. QED
    BY <2>1, <2>2 DEF ListInv, Calm
<1>4. ASSUME NEW cached \in BOOLEAN, L!Listed(f, cached) PROVE ListInv'
  <2> DEFINE table == [c \in L!Ids |-> IF listPage \in {0, c} THEN f.rows[c] ELSE L!Gone]
  <2>1. /\ f.kind = "list" /\ f.rows # <<>>
        /\ listShown' = table /\ L!Pictures(table, cached) /\ listFlying' = listFlying \ {f}
        /\ listMuddled' = (f.account # listAccount \/ f.rows # L!View(listAccount)
                            \/ L!Changes # {})
        /\ UNCHANGED <<listCampaigns, listPage, listAccount>>
    BY <1>4 DEF L!Listed
  <2>2. f.rows \in [L!Ids -> Visible]
    BY <1>1, <2>1 DEF ListFlies
  <2>3. table \in [L!Ids -> Visible]
    BY <2>2, ListOfCampaigns
  <2>4. \A c \in L!Ids : listPage \in {0, c} => table[c] = f.rows[c]
    OBVIOUS
  <2> HIDE DEF table
  <2>5. PicturesFit' /\ listThumbs' \subseteq Accounts
    BY <1>1, <2>1, <2>3, PicturesFollow
  <2>6. ListTypes' /\ ListFlies'
    BY <1>1, <2>1, <2>3, <2>5 DEF ListTypes, ListFlies
  <2>7. ASSUME Calm' PROVE CalmFits'
    <3>1. f.rows = L!View(listAccount) /\ L!Changes = {}
      BY <2>1, <2>7 DEF Calm
    <3>2. listFlying' = {}
      BY <2>1, <2>7, <3>1 DEF Calm, L!Changes
    <3>3. ASSUME NEW c \in L!Ids, listPage' \in {0, c} PROVE Shows(c)'
      <4>1. Stored(c)' = L!View(listAccount)[c]
        BY <2>1 DEF Stored, L!View, L!Kept
      <4>2. listShown'[c] = Stored(c)'
        BY <2>1, <2>4, <3>1, <3>3, <4>1
      <4>3. Toggles(c)' = {} /\ Deletes(c)' = {}
        BY <3>2 DEF Toggles, Deletes
      <4>4. QED
        BY <4>2, <4>3 DEF Shows, Alike
    <3>4. QED
      BY <3>2, <3>3 DEF CalmFits
  <2>8. QED
    BY <2>5, <2>6, <2>7 DEF ListInv
<1>5. QED
  BY <1>2, <1>3, <1>4

\* What is asked of a campaign, on the screen that is there.
LEMMA ChangesAsked ==
  ASSUME ListInv, NEW kind \in ChangeKinds, NEW c \in L!Ids, NEW active \in BOOLEAN,
         listFlying' = listFlying \cup {L!Change(kind, c, active)},
         UNCHANGED <<listCampaigns, listPage, listAccount, listShown, listThumbs, listMedia>>,
         listMuddled' \in BOOLEAN, listMuddled => listMuddled',
         listShown[c] # L!Gone,
         kind = "toggle" /\ ~ listMuddled' =>
           /\ active = ~ listShown[c].active
           /\ \A f \in L!Changes : f.id = c => f.active = active
  PROVE  ListInv'
<1>0. PICK new : new = L!Change(kind, c, active)
  OBVIOUS
<1>1. ListTypes /\ ListFlies /\ PicturesFit
  BY DEF ListInv
<1>2. /\ new.kind = kind /\ new.id = c /\ new.active = active /\ new.account = listAccount
      /\ new.state = "sent" /\ new.owner = listShown[c].account /\ new.ours = TRUE
      /\ {"kind", "id", "active", "account", "state", "owner", "ours"} \subseteq DOMAIN new
  BY <1>0 DEF L!Change
<1>3. listFlying' = listFlying \cup {new}
  BY <1>0
<1>4. ListTypes' /\ PicturesFit'
  BY <1>1 DEF ListTypes, PicturesFit, L!PicturesAreOfList
<1>5. listShown[c].account \in Accounts \cup {All}
  BY <1>1, ListOfCampaigns DEF ListTypes
<1>6. new.kind # "list" /\ new.kind \in ChangeKinds /\ new.state \in ChangeStates
  BY <1>2 DEF ChangeKinds, ChangeStates
<1>7. ListFlies'
  BY <1>1, <1>2, <1>3, <1>5, <1>6 DEF ListFlies, ListTypes
<1>8. ASSUME Calm' PROVE CalmFits'
  <2>1. Calm
    BY <1>3, <1>8 DEF Calm
  <2>2. CalmFits
    BY <2>1 DEF ListInv
  <2>3. \A f \in listFlying' : f.ours /\ (f.state = "refused" => f.kind = "duplicate")
    BY <1>2, <1>3, <2>2 DEF CalmFits
  <2>4. ASSUME ~ Copied', NEW d \in L!Ids, listPage' \in {0, d} PROVE Shows(d)'
    <3>1. ~ Copied
      BY <1>3, <2>4 DEF Copied
    <3>2. Shows(d)
      BY <2>2, <2>4, <3>1 DEF CalmFits
    <3>3. Stored(d)' = Stored(d)
      BY DEF Stored, L!View, L!Kept
    <3>4. \A f \in Deletes(d)' : f \in Deletes(d) \/ f.state = "sent"
      BY <1>2, <1>3 DEF Deletes
    <3>5. Deletes(d) \subseteq Deletes(d)'
      BY <1>3 DEF Deletes
    <3>6. CASE ~ Alike(d)
      BY <3>2, <3>3, <3>5, <3>6 DEF Shows
    <3>7. CASE Alike(d) /\ (kind # "toggle" \/ d # c)
      <4>1. Toggles(d)' = Toggles(d)
        BY <1>2, <1>3, <3>7 DEF Toggles
      <4>2. Alike(d)'
        BY <3>3, <3>4, <3>7, <4>1 DEF Alike
      <4>3. QED
        BY <4>2 DEF Shows
    <3>8. CASE Alike(d) /\ kind = "toggle" /\ d = c
      <4>1. Toggles(d)' = Toggles(d) \cup {new}
        BY <1>2, <1>3, <3>8 DEF Toggles
      <4>2. ~ listMuddled'
        BY <1>8 DEF Calm
      <4>3. \A f \in Toggles(d) : f.active = active
        BY <3>8, <4>2 DEF Toggles, L!Changes
      <4>4. \A f, g \in Toggles(d)' : f.active = g.active
        BY <1>2, <4>1, <4>3
      <4>5. \A f \in Toggles(d)' : f.state = "done" => Stored(d)'.active = f.active
        BY <1>2, <3>3, <3>8, <4>1 DEF Alike
      <4>6. Alike(d)'
        BY <3>3, <3>4, <3>8, <4>1, <4>4, <4>5 DEF Alike
      <4>7. QED
        BY <4>6 DEF Shows
    <3>9. QED
      BY <3>6, <3>7, <3>8
  <2>5. QED
    BY <2>3, <2>4 DEF CalmFits
<1>9. QED
  BY <1>4, <1>7, <1>8 DEF ListInv

LEMMA ClicksKeep ==
  ASSUME ListInv, NEW c \in L!Ids,
         L!ToggleActive(c) \/ \E kind \in {"delete", "duplicate"} : L!DeleteOrDuplicate(c, kind)
  PROVE  ListInv'
<1>1. ListTypes
  BY DEF ListInv
<1>2. listShown[c].active \in BOOLEAN
  BY <1>1 DEF ListTypes, Visible, Entry
<1>3. CASE L!ToggleActive(c)
  <2> DEFINE active == ~ listShown[c].active
  <2>1. /\ listShown[c] # L!Gone
        /\ listFlying' = listFlying \cup {L!Change("toggle", c, active)}
        /\ UNCHANGED <<listCampaigns, listPage, listAccount, listShown, listThumbs, listMedia>>
        /\ listMuddled' = (listMuddled \/ L!Conflicts(c, active))
    BY <1>3 DEF L!ToggleActive, L!Fly, L!screen, L!pictures
  <2>2. active \in BOOLEAN /\ active = ~ listShown[c].active
    BY <1>2
  <2> HIDE DEF active
  <2>3. ~ listMuddled' => \A f \in L!Changes : f.id = c => f.active = active
    BY <2>1 DEF L!Conflicts
  <2>4. listMuddled' \in BOOLEAN /\ (listMuddled => listMuddled')
    BY <2>1 DEF L!Conflicts
  <2>5. "toggle" \in ChangeKinds
    BY DEF ChangeKinds
  <2>6. QED
    BY <2>1, <2>2, <2>3, <2>4, <2>5, ChangesAsked
<1>4. ASSUME NEW kind \in {"delete", "duplicate"}, L!DeleteOrDuplicate(c, kind)
      PROVE  ListInv'
  <2>1. /\ listShown[c] # L!Gone
        /\ listFlying' = listFlying \cup {L!Change(kind, c, listShown[c].active)}
        /\ UNCHANGED <<listCampaigns, listPage, listAccount, listShown, listThumbs, listMedia,
                       listMuddled>>
    BY <1>4 DEF L!DeleteOrDuplicate, L!Fly, L!screen, L!pictures
  <2>2. listMuddled \in BOOLEAN
    BY <1>1 DEF ListTypes
  <2>3. kind \in ChangeKinds /\ kind # "toggle"
    BY DEF ChangeKinds
  <2>4. QED
    BY <1>2, <2>1, <2>2, <2>3, ChangesAsked
<1>5. QED
  BY <1>3, <1>4

\* The server has one change less, or one in another state: what stays of the others.
LEMMA HandleKeeps ==
  ASSUME ListInv, NEW f \in listFlying, L!Handle(f)
  PROVE  ListInv'
<1>1. ListTypes /\ ListFlies /\ PicturesFit
  BY DEF ListInv
<1>2. /\ f.kind \in ChangeKinds /\ f.kind # "list" /\ f.state = "sent"
      /\ f.id \in L!Ids /\ f.active \in BOOLEAN /\ f.owner \in Accounts \cup {All}
      /\ f.account \in Accounts \cup {All} /\ f.ours \in BOOLEAN
      /\ {"kind", "id", "active", "account", "state", "owner", "ours"} \subseteq DOMAIN f
  BY <1>1 DEF L!Handle, L!Changes, ListFlies
<1>3. UNCHANGED <<listPage, listAccount, listShown, listThumbs, listMedia>>
  BY DEF L!Handle, L!screen, L!pictures
<1>4. PicturesFit'
  BY <1>1, <1>3 DEF PicturesFit, L!PicturesAreOfList
\* Whatever its new state, the change is the same, and so are the others.
<1>5. ASSUME NEW state \in ChangeStates, NEW g, g = [f EXCEPT !.state = state],
             listFlying' = (listFlying \ {f}) \cup {g},
             listCampaigns' \in [L!Ids -> Entry], listMuddled' \in BOOLEAN
      PROVE  /\ g.kind = f.kind /\ g.id = f.id /\ g.active = f.active /\ g.state = state
             /\ g.ours = f.ours /\ ListTypes' /\ ListFlies'
             /\ Calm' /\ (listMuddled => listMuddled') => Calm
             /\ \A h \in listFlying' : h = g \/ h \in listFlying
             /\ \A h \in listFlying : h = f \/ h \in listFlying'
  <2>1. /\ g.kind = f.kind /\ g.id = f.id /\ g.active = f.active /\ g.account = f.account
        /\ g.state = state /\ g.owner = f.owner /\ g.ours = f.ours
        /\ {"kind", "id", "active", "account", "state", "owner", "ours"} \subseteq DOMAIN g
    BY <1>2, <1>5, ChangeGoesOn
  <2>2. \A h \in listFlying' : h = g \/ h \in listFlying
    BY <1>5
  <2>3. \A h \in listFlying : h = f \/ h \in listFlying'
    BY <1>5
  <2>4. ListTypes'
    BY <1>1, <1>3, <1>5 DEF ListTypes
  <2>5. ListFlies'
    BY <1>1, <1>2, <2>1, <2>2 DEF ListFlies
  <2>6. ASSUME Calm', listMuddled => listMuddled' PROVE Calm
    BY <1>2, <2>3, <2>6 DEF Calm
  <2>7. QED
    BY <2>1, <2>2, <2>3, <2>4, <2>5, <2>6
<1>6. ASSUME L!Handle(f), UNCHANGED listCampaigns,
             listFlying' = (listFlying \ {f}) \cup {[f EXCEPT !.state = "refused"]},
             listMuddled' = (listMuddled \/ f.kind # "duplicate")
      PROVE  ListInv'
  <2>1. PICK g : g = [f EXCEPT !.state = "refused"]
    OBVIOUS
  <2>2. listMuddled' \in BOOLEAN
    BY <1>6
  <2>3. /\ g.kind = f.kind /\ g.id = f.id /\ g.active = f.active /\ g.state = "refused"
        /\ g.ours = f.ours /\ ListTypes' /\ ListFlies'
        /\ Calm' /\ (listMuddled => listMuddled') => Calm
        /\ \A h \in listFlying' : h = g \/ h \in listFlying
        /\ \A h \in listFlying : h = f \/ h \in listFlying'
    BY <1>1, <1>5, <1>6, <2>1, <2>2 DEF ListTypes, ChangeStates
  <2>4. ASSUME Calm' PROVE CalmFits'
    <3>1. Calm /\ f.kind = "duplicate"
      BY <1>6, <2>3, <2>4 DEF Calm
    <3>2. CalmFits
      BY <3>1 DEF ListInv
    <3>3. \A h \in listFlying' : h.ours /\ (h.state = "refused" => h.kind = "duplicate")
      BY <2>3, <3>1, <3>2 DEF CalmFits
    <3>4. Copied => Copied'
      BY <1>2, <2>3 DEF Copied
    <3>5. \A c \in L!Ids : Toggles(c)' = Toggles(c) /\ Deletes(c)' = Deletes(c)
      BY <2>3, <3>1 DEF Toggles, Deletes
    <3>6. \A c \in L!Ids : Stored(c)' = Stored(c)
      BY <1>3, <1>6 DEF Stored, L!View, L!Kept
    <3>7. \A c \in L!Ids : Shows(c) => Shows(c)'
      BY <1>3, <3>5, <3>6 DEF Shows, Alike
    <3>8. QED
      BY <1>3, <3>2, <3>3, <3>4, <3>7 DEF CalmFits
  <2>5. QED
    BY <1>4, <2>3, <2>4 DEF ListInv
<1>7. ASSUME listFlying' = (listFlying \ {f}) \cup {[f EXCEPT !.state = "done"]},
             listMuddled' = (listMuddled \/ ~ f.ours),
             \/ /\ f.kind = "toggle" /\ f.id \in L!Kept
                /\ listCampaigns' = [listCampaigns EXCEPT ![f.id].active = f.active]
             \/ /\ f.kind = "delete" /\ f.id \in L!Kept
                /\ listCampaigns' = [listCampaigns EXCEPT ![f.id] = L!Gone]
             \/ /\ f.kind = "duplicate"
                /\ listCampaigns' = [listCampaigns EXCEPT ![MaxMade] = L!Row(f.owner, FALSE)]
      PROVE  ListInv'
  <2>1. PICK g : g = [f EXCEPT !.state = "done"]
    OBVIOUS
  <2>2. listMuddled' \in BOOLEAN
    BY <1>1, <1>7 DEF ListTypes
  <2>3. listCampaigns' \in [L!Ids -> Entry]
    <3>1. L!Gone \in Entry /\ L!Row(f.owner, FALSE) \in Entry
      BY <1>2 DEF L!Gone, L!Row, Entry
    <3>2. \A e \in Entry, v \in BOOLEAN : [e EXCEPT !.active = v] \in Entry
      BY DEF Entry
    <3>3. listCampaigns[f.id] \in Entry
      BY <1>1, <1>2 DEF ListTypes
    <3>4. \/ listCampaigns' = [listCampaigns EXCEPT ![f.id].active = f.active]
          \/ listCampaigns' = [listCampaigns EXCEPT ![f.id] = L!Gone]
          \/ listCampaigns' = [listCampaigns EXCEPT ![MaxMade] = L!Row(f.owner, FALSE)]
      BY <1>7
    <3>5. QED
      BY <1>1, <1>2, <3>1, <3>2, <3>3, <3>4 DEF ListTypes
  <2>4. /\ g.kind = f.kind /\ g.id = f.id /\ g.active = f.active /\ g.state = "done"
        /\ g.ours = f.ours /\ ListTypes' /\ ListFlies'
        /\ Calm' /\ (listMuddled => listMuddled') => Calm
        /\ \A h \in listFlying' : h = g \/ h \in listFlying
        /\ \A h \in listFlying : h = f \/ h \in listFlying'
    BY <1>5, <1>7, <2>1, <2>2, <2>3 DEF ChangeStates
  <2>5. g \in listFlying'
    BY <1>7, <2>1
  <2>6. ASSUME Calm' PROVE CalmFits'
    <3>1. Calm /\ CalmFits /\ f.ours
      BY <1>7, <2>4, <2>6 DEF Calm, ListInv
    <3>2. \A h \in listFlying' : h.ours /\ (h.state = "refused" => h.kind = "duplicate")
      BY <2>4, <3>1 DEF CalmFits
    <3>3. ASSUME ~ Copied', NEW c \in L!Ids, listPage' \in {0, c} PROVE Shows(c)'
      <4>1. f.kind # "duplicate" /\ ~ Copied
        BY <1>2, <2>4, <2>5, <3>3 DEF Copied
      <4>2. Shows(c)
        BY <1>3, <3>1, <3>3, <4>1 DEF CalmFits
      <4>3. Stored(c) = (IF listCampaigns[c].account # All
                              /\ listAccount \in {All, listCampaigns[c].account}
                           THEN listCampaigns[c] ELSE L!Gone)
        BY <1>1, ViewIs DEF Stored, ListTypes
      <4>4. Stored(c)' = (IF listCampaigns'[c].account # All
                               /\ listAccount' \in {All, listCampaigns'[c].account}
                            THEN listCampaigns'[c] ELSE L!Gone)
        BY DEF Stored, L!View, L!Kept
      <4>5. /\ \A h \in Deletes(c)' : h = g \/ h \in Deletes(c)
            /\ \A h \in Toggles(c)' : h = g \/ h \in Toggles(c)
            /\ \A h \in Deletes(c) : h = f \/ h \in Deletes(c)'
            /\ \A h \in Toggles(c) : h = f \/ h \in Toggles(c)'
        BY <2>4 DEF Deletes, Toggles
      <4>6. (\E h \in Deletes(c) : h.state = "done") => \E h \in Deletes(c)' : h.state = "done"
        BY <1>2, <4>5
      <4>7. CASE c # f.id
        <5>1. listCampaigns'[c] = listCampaigns[c]
          BY <1>1, <1>2, <1>7, <4>1, <4>7 DEF ListTypes
        <5>2. Stored(c)' = Stored(c)
          BY <1>3, <4>3, <4>4, <5>1
        <5>3. Deletes(c)' = Deletes(c) /\ Toggles(c)' = Toggles(c)
          BY <2>4, <4>5, <4>7 DEF Deletes, Toggles
        <5>4. QED
          BY <1>3, <4>2, <5>2, <5>3 DEF Shows, Alike
      <4>8. CASE c = f.id /\ f.kind = "delete"
        <5>1. listCampaigns'[c] = L!Gone
          BY <1>1, <1>7, <4>8 DEF ListTypes
        <5>2. Stored(c)' = L!Gone
          BY <4>4, <5>1
        <5>3. g \in Deletes(c)'
          BY <2>4, <2>5, <4>8 DEF Deletes
        <5>4. QED
          BY <2>4, <5>2, <5>3 DEF Shows
      <4>9. CASE c = f.id /\ f.kind = "toggle"
        <5>1. listCampaigns' = [listCampaigns EXCEPT ![c].active = f.active]
          BY <1>7, <4>9
        <5>2. listCampaigns[c] \in Entry
          BY <1>1 DEF ListTypes
        <5>3. /\ listCampaigns'[c].account = listCampaigns[c].account
              /\ listCampaigns'[c].active = f.active
          BY <1>1, <5>1, <5>2 DEF ListTypes, Entry
        <5>4. listCampaigns[c].account # All
          BY <1>7, <4>9 DEF L!Kept
        <5>5. CASE Stored(c) = L!Gone
          <6>1. listAccount \notin {All, listCampaigns[c].account}
            BY <4>3, <5>4, <5>5 DEF L!Gone
          <6>2. Stored(c)' = L!Gone
            BY <1>3, <4>4, <5>3, <6>1
          <6>3. QED
            BY <1>3, <4>2, <4>6, <5>5, <6>2 DEF Shows, Alike
        <5>6. CASE Stored(c) # L!Gone
          <6>1. Alike(c)
            BY <4>2, <5>6 DEF Shows
          <6>2. Stored(c) = listCampaigns[c] /\ Stored(c)' = listCampaigns'[c]
            BY <1>3, <4>3, <4>4, <5>3, <5>4, <5>6
          <6>3. Stored(c)' # L!Gone
            BY <5>3, <5>4, <6>2 DEF L!Gone
          <6>4. f \in Toggles(c) /\ g \in Toggles(c)'
            BY <2>4, <2>5, <4>9 DEF Toggles
          <6>5. \A h \in Toggles(c)' : h.active = f.active
            BY <2>4, <4>5, <6>1, <6>4 DEF Alike
          <6>6. \A h \in Deletes(c)' : h.state # "done"
            BY <2>4, <4>5, <4>9, <6>1 DEF Alike, Deletes
          <6>7. Alike(c)'
            BY <1>3, <5>3, <6>1, <6>2, <6>3, <6>4, <6>5, <6>6 DEF Alike
          <6>8. QED
            BY <6>7 DEF Shows
        <5>7. QED
          BY <5>5, <5>6
      <4>10. QED
        BY <1>2, <4>1, <4>7, <4>8, <4>9 DEF ChangeKinds
    <3>4. QED
      BY <3>2, <3>3 DEF CalmFits
  <2>7. QED
    BY <1>4, <2>4, <2>6 DEF ListInv
<1>8. QED
  BY <1>6, <1>7 DEF L!Handle

\* A change that is over, and the screen as it was.
LEMMA ChangeOver ==
  ASSUME ListInv, NEW f \in listFlying, f.kind # "list",
         listFlying' = listFlying \ {f},
         UNCHANGED <<listCampaigns, listPage, listAccount, listShown, listThumbs, listMedia>>,
         listMuddled' \in BOOLEAN,
         ~ listMuddled' => ~ listMuddled /\ (f.ours => f.kind = "duplicate" /\ f.state # "done")
  PROVE  ListInv'
<1>1. ListTypes' /\ PicturesFit' /\ ListFlies'
  BY DEF ListInv, ListTypes, PicturesFit, L!PicturesAreOfList, ListFlies
<1>2. ASSUME Calm' PROVE CalmFits'
  <2>1. Calm
    BY <1>2 DEF Calm
  <2>2. CalmFits
    BY <2>1 DEF ListInv
  <2>3. f.kind = "duplicate" /\ f.state # "done"
    BY <1>2, <2>2 DEF Calm, CalmFits
  <2>4. Copied => Copied'
    BY <2>3 DEF Copied
  <2>5. \A c \in L!Ids : Toggles(c)' = Toggles(c) /\ Deletes(c)' = Deletes(c)
    BY <2>3 DEF Toggles, Deletes
  <2>6. \A c \in L!Ids : Stored(c)' = Stored(c)
    BY DEF Stored, L!View, L!Kept
  <2>7. \A c \in L!Ids : Shows(c) => Shows(c)'
    BY <2>5, <2>6 DEF Shows, Alike
  <2>8. QED
    BY <2>2, <2>4, <2>7 DEF CalmFits
<1>3. QED
  BY <1>1, <1>2 DEF ListInv

LEMMA OverKeeps ==
  ASSUME ListInv, NEW f \in listFlying, L!Duplicated(f) \/ L!Unanswered(f)
  PROVE  ListInv'
<1>1. /\ f.kind # "list" /\ f.account \in Accounts \cup {All} /\ f.ours \in BOOLEAN
      /\ listMuddled \in BOOLEAN
      /\ UNCHANGED <<listCampaigns, listPage, listAccount, listShown, listThumbs, listMedia>>
  BY DEF L!Duplicated, L!Unanswered, L!Changes, L!screen, L!pictures, ListInv, ListFlies, ListTypes
<1>2. CASE L!Duplicated(f) /\ f.state = "done"
  <2>1. listFlying' = (listFlying \ {f}) \cup {L!List(f.account)} /\ UNCHANGED listMuddled
    BY <1>2 DEF L!Duplicated
  <2>2. ListTypes' /\ PicturesFit'
    BY <1>1, <2>1 DEF ListInv, ListTypes, PicturesFit, L!PicturesAreOfList
  <2>3. ListFlies'
    BY <1>1, <2>1, ListRequest DEF ListInv, ListFlies
  <2>4. QED
    BY <2>1, <2>2, <2>3, ListRequest, ListComing
<1>3. CASE L!Duplicated(f) /\ f.state # "done"
  <2>1. listFlying' = listFlying \ {f} /\ UNCHANGED listMuddled /\ f.kind = "duplicate"
    BY <1>3 DEF L!Duplicated
  <2>2. QED
    BY <1>1, <1>3, <2>1, ChangeOver
<1>4. CASE L!Unanswered(f)
  <2>1. listFlying' = listFlying \ {f} /\ listMuddled' = (listMuddled \/ f.ours)
    BY <1>4 DEF L!Unanswered
  <2>2. QED
    BY <1>1, <2>1, ChangeOver
<1>5. QED
  BY <1>2, <1>3, <1>4

LEMMA AnsweredKeeps ==
  ASSUME ListInv, NEW f \in listFlying, NEW cached \in BOOLEAN, L!Answered(f, cached)
  PROVE  ListInv'
<1>1. ListTypes /\ ListFlies /\ PicturesFit
  BY DEF ListInv
<1>2. /\ f.kind \in {"toggle", "delete"} /\ f.kind # "list" /\ f.kind # "duplicate"
      /\ f.ours /\ f.state # "sent"
      /\ f.id \in L!Ids /\ f.active \in BOOLEAN /\ f.state \in ChangeStates
  BY <1>1 DEF L!Answered, L!Changes, ListFlies
<1>3. /\ listShown' = L!Applied(f) /\ L!Pictures(L!Applied(f), cached)
      /\ listFlying' = listFlying \ {f}
      /\ UNCHANGED <<listCampaigns, listPage, listAccount, listMuddled>>
  BY DEF L!Answered
<1>4. \A e \in Visible, v \in BOOLEAN :
        e # L!Gone =>
          LET d == [e EXCEPT !.active = v] IN
          d \in Visible /\ d # L!Gone /\ d.account = e.account /\ d.active = v
  BY DashboardBounds DEF Visible, Entry, L!Gone, L!ListBounds
<1>5. \A c \in L!Ids :
        /\ c # f.id \/ listShown[c] = L!Gone => L!Applied(f)[c] = listShown[c]
        /\ c = f.id /\ listShown[c] # L!Gone =>
             L!Applied(f)[c] = IF f.kind = "delete" THEN L!Gone
                               ELSE [listShown[c] EXCEPT !.active = f.active]
  BY DEF L!Applied
<1>6. L!Applied(f) \in [L!Ids -> Visible]
  <2>1. ASSUME NEW c \in L!Ids PROVE L!Applied(f)[c] \in Visible
    <3>1. listShown[c] \in Visible
      BY <1>1 DEF ListTypes
    <3>2. CASE c # f.id \/ listShown[c] = L!Gone
      BY <1>5, <3>1, <3>2
    <3>3. CASE c = f.id /\ listShown[c] # L!Gone
      <4>1. [listShown[c] EXCEPT !.active = f.active] \in Visible
        BY <1>2, <1>4, <3>1, <3>3
      <4>2. QED
        BY <1>5, <3>3, <4>1, ListOfCampaigns
    <3>4. QED
      BY <3>2, <3>3
  <2>2. L!Applied(f) = [c \in L!Ids |-> L!Applied(f)[c]]
    BY DEF L!Applied
  <2>3. QED
    BY <2>1, <2>2
<1>7. PicturesFit' /\ listThumbs' \subseteq Accounts
  BY <1>1, <1>3, <1>6, PicturesFollow
<1>8. ListTypes' /\ ListFlies'
  BY <1>1, <1>3, <1>6, <1>7 DEF ListTypes, ListFlies
<1>9. ASSUME Calm' PROVE CalmFits'
  <2>1. Calm /\ CalmFits
    BY <1>2, <1>3, <1>9 DEF Calm, ListInv
  <2>2. f.state = "done"
    BY <1>2, <2>1 DEF CalmFits, ChangeStates
  <2>3. \A h \in listFlying' : h.ours /\ (h.state = "refused" => h.kind = "duplicate")
    BY <1>3, <2>1 DEF CalmFits
  <2>4. ASSUME ~ Copied', NEW c \in L!Ids, listPage' \in {0, c} PROVE Shows(c)'
    <3>1. ~ Copied
      BY <1>2, <1>3, <2>4 DEF Copied
    <3>2. Shows(c)
      BY <1>3, <2>1, <2>4, <3>1 DEF CalmFits
    <3>3. Stored(c)' = Stored(c)
      BY <1>3 DEF Stored, L!View, L!Kept
    <3>4. Toggles(c)' = Toggles(c) \ {f} /\ Deletes(c)' = Deletes(c) \ {f}
      BY <1>3 DEF Toggles, Deletes
    <3>5. CASE c # f.id
      <4>1. f \notin Toggles(c) /\ f \notin Deletes(c)
        BY <3>5 DEF Toggles, Deletes
      <4>2. Toggles(c)' = Toggles(c) /\ Deletes(c)' = Deletes(c) /\ listShown'[c] = listShown[c]
        BY <1>3, <1>5, <3>4, <3>5, <4>1
      <4>3. QED
        BY <3>2, <3>3, <4>2 DEF Shows, Alike
    <3>6. CASE listShown[c] = L!Gone
      <4>1. listShown'[c] = L!Gone
        BY <1>3, <1>5, <3>6
      <4>2. Stored(c) = L!Gone
        BY <3>2, <3>6 DEF Shows, Alike
      <4>3. QED
        BY <3>3, <4>1, <4>2 DEF Shows
    <3>7. CASE c = f.id /\ listShown[c] # L!Gone /\ f.kind = "delete"
      <4>1. f \in Deletes(c)
        BY <3>7 DEF Deletes
      <4>2. Stored(c) = L!Gone
        BY <2>2, <3>2, <3>7, <4>1 DEF Shows, Alike
      <4>3. listShown'[c] = L!Gone
        BY <1>3, <1>5, <3>7
      <4>4. QED
        BY <3>3, <4>2, <4>3 DEF Shows
    <3>8. CASE c = f.id /\ listShown[c] # L!Gone /\ f.kind = "toggle"
      <4>1. f \in Toggles(c) /\ f \notin Deletes(c)
        BY <3>8 DEF Toggles, Deletes
      <4>2. Deletes(c)' = Deletes(c)
        BY <3>4, <4>1
      <4>3. listShown'[c] = [listShown[c] EXCEPT !.active = f.active]
        BY <1>3, <1>5, <3>8
      <4>4. /\ listShown'[c] # L!Gone /\ listShown'[c].account = listShown[c].account
            /\ listShown'[c].active = f.active
        BY <1>1, <1>2, <1>4, <3>8, <4>3 DEF ListTypes
      <4>5. CASE Alike(c)
        <5>1. Stored(c).active = f.active
          BY <2>2, <4>1, <4>5 DEF Alike
        <5>2. Alike(c)'
          BY <3>3, <3>4, <4>2, <4>4, <4>5, <5>1 DEF Alike
        <5>3. QED
          BY <5>2 DEF Shows
      <4>6. CASE ~ Alike(c)
        BY <3>2, <3>3, <3>8, <4>2, <4>6 DEF Shows
      <4>7. QED
        BY <4>5, <4>6
    <3>9. QED
      BY <1>2, <3>5, <3>6, <3>7, <3>8
  <2>5. QED
    BY <2>3, <2>4 DEF CalmFits
<1>10. QED
  BY <1>7, <1>8, <1>9 DEF ListInv

LEMMA PicturesKeep ==
  ASSUME ListInv, NEW accounts \in SUBSET Accounts, L!PicturesArrive(accounts)
  PROVE  ListInv'
<1>1. PICK asked \in listMedia :
        accounts \subseteq asked /\ listMedia' = listMedia \ {asked} /\ listThumbs' = accounts
  BY DEF L!PicturesArrive
<1>2. UNCHANGED <<listCampaigns, listPage, listAccount, listShown, listFlying, listMuddled>>
  BY DEF L!PicturesArrive, L!screen
<1>3. PicturesFit'
  <2>1. L!On(listShown)' = L!On(listShown)
    BY <1>2 DEF L!On
  <2>2. listMedia \subseteq {L!On(listShown)}
    BY DEF ListInv, PicturesFit
  <2>3. listMedia' = {} /\ accounts \subseteq L!On(listShown)
    BY <1>1, <2>2
  <2>4. QED
    BY <1>1, <2>1, <2>3 DEF PicturesFit, L!PicturesAreOfList
<1>4. ListTypes' /\ ListFlies'
  BY <1>1, <1>2 DEF ListInv, ListTypes, ListFlies
<1>5. ASSUME Calm' PROVE CalmFits'
  <2>1. CalmFits
    BY <1>2, <1>5 DEF ListInv, Calm
  <2>2. \A c \in L!Ids : Toggles(c)' = Toggles(c) /\ Deletes(c)' = Deletes(c)
                         /\ Stored(c)' = Stored(c)
    BY <1>2 DEF Toggles, Deletes, Stored, L!View, L!Kept
  <2>3. \A c \in L!Ids : Shows(c) => Shows(c)'
    BY <1>2, <2>2 DEF Shows, Alike
  <2>4. Copied => Copied'
    BY <1>2 DEF Copied
  <2>5. QED
    BY <1>2, <2>1, <2>3, <2>4 DEF CalmFits
<1>6. QED
  BY <1>3, <1>4, <1>5 DEF ListInv

-----------------------------------------------------------------------------
(* The list of campaigns: the theorems *)

\* The shared invariant of the list of campaigns: as long as no answer has gone astray
\* and no list is to come, a row and its place on the screen agree but for the changes
\* whose answers are out, and these all go one way.
THEOREM ListInvariance == L!Spec => []ListInv
<1>1. L!Init => ListInv
  BY ListStarts
<1>2. ListInv /\ [L!Next]_(L!vars) => ListInv'
  <2> SUFFICES ASSUME ListInv, [L!Next]_(L!vars) PROVE ListInv'
    OBVIOUS
  <2>1. CASE UNCHANGED L!vars
    <3>1. UNCHANGED <<listCampaigns, listPage, listAccount, listShown, listThumbs, listMedia,
                      listFlying, listMuddled>>
      BY <2>1 DEF L!vars, L!screen, L!pictures
    <3>2. ListTypes' /\ ListFlies' /\ PicturesFit'
      <4>1. ListTypes'
        BY <3>1 DEF ListInv, ListTypes
      <4>2. ListFlies'
        BY <3>1 DEF ListInv, ListFlies
      <4>3. L!On(listShown)' = L!On(listShown)
        BY <3>1 DEF L!On
      <4>4. PicturesFit'
        BY <3>1, <4>3 DEF ListInv, PicturesFit, L!PicturesAreOfList
      <4>5. QED
        BY <4>1, <4>2, <4>4
    <3>3. /\ Calm' = Calm /\ Copied' = Copied
          /\ \A c \in L!Ids : /\ Toggles(c)' = Toggles(c) /\ Deletes(c)' = Deletes(c)
                              /\ Stored(c)' = Stored(c)
      BY <3>1 DEF Toggles, Deletes, Stored, L!View, L!Kept, Calm, Copied
    <3>4. \A c \in L!Ids : Shows(c)' = Shows(c)
      BY <3>1, <3>3 DEF Shows, Alike
    <3>5. (Calm => CalmFits)'
      BY <3>1, <3>3, <3>4 DEF ListInv, CalmFits
    <3>6. QED
      BY <3>2, <3>5 DEF ListInv
  <2>2. CASE L!Next
    BY <2>2, PagesKeep, ListsKeep, ClicksKeep, HandleKeeps, OverKeeps, AnsweredKeeps,
       PicturesKeep DEF L!Next
  <2>3. QED
    BY <2>1, <2>2
<1>3. QED
  BY <1>1, <1>2, PTL DEF L!Spec

\* The variables have their types; the screen shows the campaigns as they are once
\* everything is answered, and the pictures are of the accounts on it.
THEOREM ListIsKept == L!Spec => [](L!TypeOK /\ ListHolds)
<1>1. ListInv => L!TypeOK
  <2> SUFFICES ASSUME ListInv PROVE L!TypeOK
    OBVIOUS
  <2>1. \A e \in Entry : e.account \in Accounts \cup {All}
    BY DEF Entry
  <2>2. \A c \in L!Ids : listCampaigns[c] \in Entry /\ listShown[c] \in Entry
    BY ListOfCampaigns DEF ListInv, ListTypes
  <2>3. QED
    BY <2>1, <2>2 DEF ListInv, ListTypes, L!TypeOK
<1>2. ListInv => ListHolds
  <2> SUFFICES ASSUME ListInv PROVE ListHolds
    OBVIOUS
  <2>1. ASSUME listFlying = {}, ~ listMuddled, NEW c \in L!Ids, listPage \in {0, c}
        PROVE  listShown[c] = Stored(c)
    <3>1. Calm /\ ~ Copied /\ Toggles(c) = {} /\ Deletes(c) = {}
      BY <2>1 DEF Calm, Copied, Toggles, Deletes
    <3>2. Shows(c)
      BY <2>1, <3>1 DEF ListInv, CalmFits
    <3>3. CASE Alike(c)
      <4>1. listShown[c].account = Stored(c).account /\ listShown[c].active = Stored(c).active
        BY <3>1, <3>3 DEF Alike
      <4>2. listShown[c] \in Visible /\ Stored(c) \in Visible
        BY ViewIs DEF ListInv, ListTypes, Stored
      <4>3. QED
        BY <4>1, <4>2, ListOfCampaigns
    <3>4. QED
      BY <3>1, <3>2, <3>3 DEF Shows
  <2>2. L!ShownIsTrue
    BY <2>1 DEF L!ShownIsTrue, Stored
  <2>3. QED
    BY <2>2 DEF ListInv, PicturesFit, ListHolds, L!ListHolds
<1>3. QED
  BY <1>1, <1>2, ListInvariance, PTL

-----------------------------------------------------------------------------
(* The thread of the setter: its invariant *)

Messages == [by : I!Authors, to : I!Times]
JobStates == {"none", "waiting", "active", "done"}
RowStates == {"NONE", "PENDING", "HELD", "SENDING", "SENT", "SKIPPED"}
Snaps == [takeover : I!Times, mode : I!Modes, lastIn : I!Times]
\* Where a job of the prospect's message is before the gates, past them, and with a
\* draft that is to be sent.
Before == {"mirror", "arm", "gates"}
Past == {"debounce", "draft", "deliver", "send", "record", "mark"}
Unsent == {"deliver", "send"}

ThreadTypes ==
  /\ threadThread \in Seq(Messages)
  /\ threadMirror \in [I!Mids -> I!Sources]
  /\ threadLastIn \in I!Times /\ threadLastOut \in I!Times /\ threadTakeover \in I!Times
  /\ threadMode \in I!Modes
  /\ threadJob \in [I!Mids -> JobStates]
  /\ threadArmed \subseteq I!Mids
  /\ threadRow \in [I!Mids -> RowStates]
  /\ threadPc \in [Slots -> I!Places]
  /\ threadOn \in [Slots -> I!Times]
  /\ threadSnap \in [Slots -> Snaps]
  /\ threadSent \in [Slots -> I!Times]
  /\ threadBurst \in [Slots -> BOOLEAN]
  /\ threadQuiet \subseteq I!Written
  /\ threadPatches \in 0..MaxPatches

\* A slot that is taken has a message, and the job of that message is no other slot's.
JobsFit ==
  /\ \A w \in Slots :
       threadPc[w] # "idle" =>
         threadOn[w] \in I!Written /\ threadJob[threadOn[w]] = "active"
  /\ \A v, w \in Slots :
       threadPc[v] # "idle" /\ threadPc[w] # "idle" /\ v # w => threadOn[v] # threadOn[w]
  /\ \A m \in I!Mids : threadJob[m] # "none" => m \in I!Written

SweepFits ==
  /\ threadSweep \in [pc : {"idle", "mirror", "anchor", "hand"}, seen : I!Times,
                      at : 0..(2 * MaxWrites + 1), missed : I!Times]
  /\ threadSweep.seen <= Len(threadThread) /\ threadSweep.missed <= Len(threadThread)
  /\ threadSweep.pc \in {"mirror", "anchor"} => threadSweep.at \in 1..threadSweep.seen

\* A message that is answered is the prospect's, and the conversation knows one.
Heard ==
  \A w \in Slots :
    /\ threadPc[w] \in Past \cup {"arm", "gates"} => I!Inbound(threadOn[w])
    /\ threadPc[w] \in Past \cup Before /\ I!Inbound(threadOn[w]) =>
         threadSnap[w].lastIn # 0 /\ threadLastIn # 0

BySetter == {m \in I!Written : threadThread[m].by = "setter"}
ByOthers == {m \in I!Written : threadThread[m].by # "setter"}

\* The setter answers a message of the prospect once, its row telling.
OneAnswerEach ==
  /\ \A w \in Slots : threadPc[w] \in Unsent => threadRow[threadOn[w]] # "NONE"
  /\ \A k \in BySetter :
       /\ I!Inbound(threadThread[k].to) /\ threadRow[threadThread[k].to] # "NONE"
       /\ \A w \in Slots : threadOn[w] = threadThread[k].to => threadPc[w] \notin Unsent
  /\ \A k, l \in BySetter : threadThread[k].to = threadThread[l].to => k = l

Bounded == Len(threadThread) \in I!Times /\ Cardinality(ByOthers) <= MaxWrites

\* What was written under a takeover has not passed the gates, and will not.
StandsAside ==
  /\ threadQuiet # {} => threadTakeover # 0
  /\ \A w \in Slots :
       /\ threadPc[w] \in Before /\ threadOn[w] \in threadQuiet => threadSnap[w].takeover # 0
       /\ threadPc[w] \in Past => threadOn[w] \notin threadQuiet

ThreadInv ==
  ThreadTypes /\ JobsFit /\ SweepFits /\ Heard /\ OneAnswerEach /\ Bounded /\ StandsAside

-----------------------------------------------------------------------------
(* The thread of the setter: what it holds *)

LEMMA ThreadNumbers ==
  /\ MaxWrites \in Nat /\ MaxPatches \in Nat /\ I!Mids \subseteq Nat \ {0}
  /\ 0 \in I!Times /\ I!Times \subseteq Nat /\ I!Mids \subseteq I!Times
  /\ \A n \in Nat : n \in I!Times <=> n <= 2 * MaxWrites
  /\ \A n \in I!Times : n # 0 => n \in I!Mids
BY DashboardBounds DEF I!Times, I!Mids

LEMMA ThreadPlaces ==
  /\ "idle" \notin Before \cup Past \cup {"arm", "gates"}
  /\ Unsent \subseteq Past /\ Past \cup Before \cup {"idle", "upsert", "takeover"} = I!Places
  /\ "upsert" \notin Past \cup Before /\ "takeover" \notin Past \cup Before
  /\ "upsert" # "idle" /\ "takeover" # "idle"
  /\ "mirror" \notin Past \cup {"arm", "gates"} /\ Past \cap Before = {}
  /\ {"arm", "gates"} \subseteq Before
BY DEF Before, Past, Unsent, I!Places

\* However the thread is written, the answers are as few as what they answer.
LEMMA RoomForAll ==
  ASSUME NEW t \in Seq(Messages),
         NEW N, N = {m \in 1..Len(t) : t[m].by # "setter"},
         NEW A, A = {m \in 1..Len(t) : t[m].by = "setter"},
         \A k \in A : t[k].to \in N,
         \A k, l \in A : t[k].to = t[l].to => k = l,
         Cardinality(N) <= MaxWrites
  PROVE  Len(t) <= 2 * MaxWrites
<1>1. IsFiniteSet(1..Len(t)) /\ Cardinality(1..Len(t)) = Len(t) /\ Len(t) \in Nat
  BY FS_Interval
<1>2. IsFiniteSet(N) /\ IsFiniteSet(A)
  BY <1>1, FS_Subset
<1>3. Cardinality(N) \in Nat /\ Cardinality(A) \in Nat
  BY <1>2, FS_CardinalityType
<1>4. PICK f \in [A -> N] : \A k \in A : f[k] = t[k].to
  <2>1. [k \in A |-> t[k].to] \in [A -> N]
    OBVIOUS
  <2>2. QED
    BY <2>1
<1>5. f \in Injection(A, N)
  BY <1>4 DEF Injection, IsInjective
<1>6. Cardinality(A) <= Cardinality(N)
  BY <1>2, <1>5, FS_Injection
<1>7. 1..Len(t) = N \cup A /\ N \cap A = {}
  OBVIOUS
<1>8. Cardinality(1..Len(t)) = Cardinality(N) + Cardinality(A) - Cardinality(N \cap A)
  BY <1>2, <1>7, FS_Union
<1>9. Cardinality(N \cap A) = 0
  BY <1>7, FS_EmptySet
<1>10. QED
  BY <1>1, <1>3, <1>6, <1>8, <1>9, ThreadNumbers

LEMMA ThreadStarts == I!Init => ThreadInv
<1> SUFFICES ASSUME I!Init PROVE ThreadInv
  OBVIOUS
<1>1. /\ threadThread = << >> /\ threadLastIn = 0 /\ threadLastOut = 0 /\ threadTakeover = 0
      /\ threadMirror = [m \in I!Mids |-> "NONE"] /\ threadMode \in {"DRAFT", "AUTO"}
      /\ threadJob = [m \in I!Mids |-> "none"] /\ threadArmed = {}
      /\ threadRow = [m \in I!Mids |-> "NONE"] /\ threadPc = [w \in Slots |-> "idle"]
      /\ threadOn = [w \in Slots |-> 0] /\ threadSnap = [w \in Slots |-> I!NoSnap]
      /\ threadSent = [w \in Slots |-> 0] /\ threadBurst = [w \in Slots |-> FALSE]
      /\ threadSweep = I!NoSweep /\ threadQuiet = {} /\ threadPatches = 0
  BY DEF I!Init
<1>2. Len(threadThread) = 0 /\ I!Written = {}
  BY <1>1 DEF I!Written
<1>3. ThreadTypes
  <2>1. threadThread \in Seq(Messages)
    BY <1>1
  <2>2. threadSnap \in [Slots -> Snaps]
    BY <1>1, ThreadNumbers DEF Snaps, I!NoSnap, I!Modes
  <2>3. threadMirror \in [I!Mids -> I!Sources] /\ threadMode \in I!Modes
    BY <1>1 DEF I!Sources, I!Modes
  <2>4. /\ threadJob \in [I!Mids -> JobStates] /\ threadRow \in [I!Mids -> RowStates]
        /\ threadPc \in [Slots -> I!Places]
    BY <1>1 DEF JobStates, RowStates, I!Places
  <2>5. threadPatches \in 0..MaxPatches
    BY <1>1, ThreadNumbers
  <2>6. QED
    BY <1>1, <2>1, <2>2, <2>3, <2>4, <2>5, ThreadNumbers DEF ThreadTypes
<1>4. JobsFit
  BY <1>1 DEF JobsFit
<1>5. SweepFits
  BY <1>1, <1>2, ThreadNumbers DEF SweepFits, I!NoSweep
<1>6. Heard /\ StandsAside
  BY <1>1, ThreadPlaces DEF Heard, StandsAside, I!Inbound
<1>7. ByOthers = {} /\ BySetter = {}
  BY <1>2 DEF ByOthers, BySetter
<1>8. OneAnswerEach
  BY <1>1, <1>7, ThreadPlaces DEF OneAnswerEach
<1>9. Bounded
  BY <1>2, <1>7, FS_EmptySet, ThreadNumbers DEF Bounded
<1>10. QED
  BY <1>3, <1>4, <1>5, <1>6, <1>8, <1>9 DEF ThreadInv

-----------------------------------------------------------------------------
(* The thread of the setter: its steps *)

LEMMA SaidIs ==
  ASSUME ThreadInv, NEW by \in I!Authors, NEW to \in I!Times, I!Say(by, to)
  PROVE  /\ threadThread' \in Seq(Messages) /\ Len(threadThread') = Len(threadThread) + 1
         /\ Len(threadThread) \in Nat
         /\ \A m \in I!Written : m \in 1..Len(threadThread') /\ threadThread'[m] = threadThread[m]
         /\ \A m \in 1..Len(threadThread') : m \in I!Written \/ m = Len(threadThread) + 1
         /\ Len(threadThread) + 1 \notin I!Written
         /\ Len(threadThread) + 1 \in 1..Len(threadThread')
         /\ threadThread'[Len(threadThread) + 1].by = by
         /\ threadThread'[Len(threadThread) + 1].to = to
         /\ \A m \in I!Written : I!Inbound(m)' <=> I!Inbound(m)
<1>1. threadThread \in Seq(Messages) /\ [by |-> by, to |-> to] \in Messages
  BY DEF ThreadInv, ThreadTypes, Messages
<1>2. threadThread' = Append(threadThread, [by |-> by, to |-> to])
  BY DEF I!Say
<1>3. PICK e : e = [by |-> by, to |-> to]
  OBVIOUS
<1>4. /\ threadThread' \in Seq(Messages) /\ Len(threadThread') = Len(threadThread) + 1
      /\ Len(threadThread) \in Nat
      /\ \A m \in 1..Len(threadThread) : threadThread'[m] = threadThread[m]
      /\ threadThread'[Len(threadThread) + 1] = e
  BY <1>1, <1>2, <1>3
<1>5. e.by = by /\ e.to = to
  BY <1>3
<1>6. /\ \A m \in I!Written : m \in 1..Len(threadThread')
      /\ \A m \in 1..Len(threadThread') : m \in I!Written \/ m = Len(threadThread) + 1
      /\ Len(threadThread) + 1 \notin I!Written
      /\ Len(threadThread) + 1 \in 1..Len(threadThread')
  BY <1>4 DEF I!Written
<1>7. \A m \in I!Written : I!Inbound(m)' <=> I!Inbound(m)
  BY <1>4, <1>6 DEF I!Inbound, I!Written
<1>8. QED
  BY <1>4, <1>5, <1>6, <1>7 DEF I!Written

\* The thread stays within its bound.
LEMMA BoundKept ==
  ASSUME threadThread' \in Seq(Messages), OneAnswerEach', Cardinality(ByOthers') <= MaxWrites
  PROVE  Bounded'
<1>1. \A k \in BySetter' : threadThread'[k].to \in ByOthers'
  BY DEF OneAnswerEach, I!Inbound, BySetter, ByOthers
<1>2. Len(threadThread') <= 2 * MaxWrites
  <2>1. /\ ByOthers' = {m \in 1..Len(threadThread') : threadThread'[m].by # "setter"}
        /\ BySetter' = {m \in 1..Len(threadThread') : threadThread'[m].by = "setter"}
    BY DEF ByOthers, BySetter, I!Written
  <2>2. \A k, l \in BySetter' : threadThread'[k].to = threadThread'[l].to => k = l
    BY DEF OneAnswerEach
  <2>3. QED
    BY <1>1, <2>1, <2>2, RoomForAll
<1>3. Len(threadThread') \in Nat
  OBVIOUS
<1>4. QED
  BY <1>2, <1>3, ThreadNumbers DEF Bounded

\* What a new message leaves as it was.
LEMMA SaidLeaves ==
  ASSUME ThreadInv, NEW by \in I!Authors, NEW to \in I!Times, I!Say(by, to),
         threadPc' \in [Slots -> I!Places], threadSent' \in [Slots -> I!Times],
         threadQuiet' \subseteq I!Written',
         \A w \in Slots : threadPc'[w] = threadPc[w]
                          \/ (threadPc[w] = "send" /\ threadPc'[w] = "record"),
         UNCHANGED <<threadMirror, threadLastIn, threadLastOut, threadTakeover, threadMode,
                     threadJob, threadArmed, threadRow, threadOn, threadSnap, threadBurst,
                     threadSweep, threadPatches>>
  PROVE  ThreadTypes' /\ JobsFit' /\ SweepFits' /\ Heard'
<1>1. /\ ThreadTypes /\ JobsFit /\ SweepFits /\ Heard /\ Bounded
  BY DEF ThreadInv
<1>2. ThreadTypes'
  BY <1>1, SaidIs DEF ThreadTypes
<1>3. \A m \in I!Written : m \in I!Written'
  BY SaidIs DEF I!Written
<1>4. \A w \in Slots : (threadPc[w] = "idle") <=> (threadPc'[w] = "idle")
  OBVIOUS
<1>5. JobsFit'
  BY <1>1, <1>3, <1>4 DEF JobsFit
<1>6. SweepFits'
  <2>1. Len(threadThread) \in Nat /\ Len(threadThread') = Len(threadThread) + 1
    BY SaidIs
  <2>2. threadSweep.seen \in Nat /\ threadSweep.missed \in Nat
    BY <1>1, ThreadNumbers DEF SweepFits
  <2>3. threadSweep.seen <= Len(threadThread') /\ threadSweep.missed <= Len(threadThread')
    BY <1>1, <2>1, <2>2 DEF SweepFits
  <2>4. QED
    BY <1>1, <2>3 DEF SweepFits
<1>7. Heard'
  <2>1. ASSUME NEW w \in Slots, threadPc'[w] \in Past \cup {"arm", "gates"} PROVE I!Inbound(threadOn[w])'
    <3>1. threadPc[w] \in Past \cup {"arm", "gates"} /\ threadPc[w] # "idle"
      BY <2>1, ThreadPlaces DEF Past
    <3>2. I!Inbound(threadOn[w]) /\ threadOn[w] \in I!Written
      BY <1>1, <3>1 DEF Heard, JobsFit
    <3>3. QED
      BY <3>2, SaidIs
  <2>2. ASSUME NEW w \in Slots, threadPc'[w] \in Past \cup Before, I!Inbound(threadOn[w])'
        PROVE  threadSnap[w].lastIn # 0 /\ threadLastIn # 0
    <3>1. threadPc[w] \in Past \cup Before /\ threadPc[w] # "idle"
      BY <2>2, ThreadPlaces DEF Past
    <3>2. threadOn[w] \in I!Written
      BY <1>1, <3>1 DEF JobsFit
    <3>3. QED
      BY <1>1, <2>2, <3>1, <3>2, SaidIs DEF Heard
  <2>3. QED
    BY <2>1, <2>2 DEF Heard
<1>8. QED
  BY <1>2, <1>5, <1>6, <1>7

LEMMA WritingKeeps ==
  ASSUME ThreadInv, I!ProspectWrites \/ I!OthersWrite
  PROVE  ThreadInv'
<1>1. PICK by \in I!Authors : I!Say(by, 0) /\ by # "setter"
  BY DEF I!ProspectWrites, I!OthersWrite, I!Authors
<1>2. /\ UNCHANGED <<threadMirror, threadLastIn, threadLastOut, threadTakeover, threadMode,
                     threadJob, threadArmed, threadRow, threadPc, threadOn, threadSnap,
                     threadSent, threadBurst, threadSweep, threadPatches>>
      /\ Cardinality(ByOthers) < MaxWrites
      /\ \/ threadQuiet' = threadQuiet
         \/ threadTakeover # 0 /\ threadQuiet' = threadQuiet \cup {Len(threadThread) + 1}
  <2>1. CASE I!ProspectWrites
    <3>1. UNCHANGED <<threadMirror, threadLastIn, threadLastOut, threadTakeover, threadMode,
                      threadJob, threadArmed, threadRow, threadPc, threadOn, threadSnap,
                      threadSent, threadBurst, threadSweep, threadPatches>>
      BY <2>1 DEF I!ProspectWrites, I!conversation, I!slots
    <3>2. Cardinality(ByOthers) < MaxWrites
      BY <2>1 DEF I!ProspectWrites, I!MayWrite, ByOthers, I!Cardinality, Cardinality
    <3>3. threadQuiet' = IF threadTakeover # 0 THEN threadQuiet \cup {Len(threadThread) + 1}
                                              ELSE threadQuiet
      BY <2>1 DEF I!ProspectWrites
    <3>4. QED
      BY <3>1, <3>2, <3>3
  <2>2. CASE I!OthersWrite
    <3>1. UNCHANGED <<threadMirror, threadLastIn, threadLastOut, threadTakeover, threadMode,
                      threadJob, threadArmed, threadRow, threadPc, threadOn, threadSnap,
                      threadSent, threadBurst, threadSweep, threadPatches, threadQuiet>>
      BY <2>2 DEF I!OthersWrite, I!conversation, I!slots
    <3>2. Cardinality(ByOthers) < MaxWrites
      BY <2>2 DEF I!OthersWrite, I!MayWrite, ByOthers, I!Cardinality, Cardinality
    <3>3. QED
      BY <3>1, <3>2
  <2>3. QED
    BY <2>1, <2>2
<1>3. /\ ThreadTypes /\ JobsFit /\ Heard /\ OneAnswerEach /\ Bounded /\ StandsAside
  BY DEF ThreadInv
<1>4. 0 \in I!Times
  BY ThreadNumbers
<1>5. Len(threadThread) + 1 \notin I!Written
  BY <1>1, <1>4, SaidIs
<1>6. threadQuiet' \subseteq I!Written'
  <2>1. \A m \in I!Written : m \in I!Written'
    BY <1>1, <1>4, SaidIs DEF I!Written
  <2>2. Len(threadThread) + 1 \in I!Written'
    BY <1>1, <1>4, SaidIs DEF I!Written
  <2>3. QED
    BY <1>2, <1>3, <2>1, <2>2 DEF ThreadTypes
<1>7. ThreadTypes' /\ JobsFit' /\ SweepFits' /\ Heard'
  <2>1. threadPc' \in [Slots -> I!Places] /\ threadSent' \in [Slots -> I!Times]
    BY <1>2, <1>3 DEF ThreadTypes
  <2>2. QED
    BY <1>1, <1>2, <1>4, <1>6, <2>1, SaidLeaves
<1>8. BySetter' = BySetter /\ ByOthers' = ByOthers \cup {Len(threadThread) + 1}
  <2>1. \A m : m \in BySetter' <=> m \in BySetter
    BY <1>1, <1>4, SaidIs DEF BySetter, I!Written
  <2>2. \A m : m \in ByOthers' <=> m \in ByOthers \/ m = Len(threadThread) + 1
    BY <1>1, <1>4, SaidIs DEF ByOthers, I!Written
  <2>3. QED
    BY <2>1, <2>2
<1>9. OneAnswerEach'
  <2>1. \A k \in BySetter : threadThread'[k] = threadThread[k]
    BY <1>1, <1>4, SaidIs DEF BySetter
  <2>2. \A k \in BySetter : I!Inbound(threadThread[k].to)'
    <3>1. \A k \in BySetter : threadThread[k].to \in I!Written /\ I!Inbound(threadThread[k].to)
      BY <1>3 DEF OneAnswerEach, I!Inbound
    <3>2. \A m \in I!Written : I!Inbound(m)' <=> I!Inbound(m)
      BY <1>1, <1>4, SaidIs
    <3>3. \A k \in BySetter : threadThread'[k].to = threadThread[k].to
      BY <2>1
    <3>4. QED
      BY <2>1, <3>1, <3>2, <3>3 DEF I!Inbound, I!Written
  <2>3. QED
    BY <1>2, <1>3, <1>8, <2>1, <2>2 DEF OneAnswerEach
<1>10. Bounded'
  <2>1. IsFiniteSet(ByOthers)
    <3>1. IsFiniteSet(I!Written)
      BY <1>1, <1>4, SaidIs, FS_Interval DEF I!Written
    <3>2. QED
      BY <3>1, FS_Subset DEF ByOthers
  <2>2. Cardinality(ByOthers) \in Nat
    BY <2>1, FS_CardinalityType
  <2>3. Cardinality(ByOthers') = Cardinality(ByOthers) + 1
    BY <1>5, <1>8, <2>1, FS_AddElement DEF ByOthers
  <2>4. Cardinality(ByOthers') <= MaxWrites
    BY <1>2, <2>2, <2>3, ThreadNumbers
  <2>5. QED
    BY <1>7, <1>9, <2>4, BoundKept DEF ThreadTypes
<1>11. StandsAside'
  <2>1. \A w \in Slots : threadPc[w] # "idle" =>
          (threadOn[w] \in threadQuiet' => threadOn[w] \in threadQuiet)
    BY <1>2, <1>3, <1>5 DEF JobsFit
  <2>2. QED
    BY <1>2, <1>3, <2>1, ThreadPlaces DEF StandsAside
<1>12. QED
  BY <1>7, <1>9, <1>10, <1>11 DEF ThreadInv

LEMMA SendKeeps ==
  ASSUME ThreadInv, NEW w \in Slots, I!Send(w)
  PROVE  ThreadInv'
<1>0. PICK to : to = threadOn[w]
  OBVIOUS
<1>1. /\ ThreadTypes /\ JobsFit /\ Heard /\ OneAnswerEach /\ Bounded /\ StandsAside
  BY DEF ThreadInv
<1>2. /\ UNCHANGED <<threadMirror, threadLastIn, threadLastOut, threadTakeover, threadMode,
                     threadJob, threadArmed, threadRow, threadOn, threadSnap, threadBurst,
                     threadSweep, threadPatches, threadQuiet>>
      /\ threadPc[w] = "send" /\ threadPc' = [threadPc EXCEPT ![w] = "record"]
      /\ I!Say("setter", to)
      /\ threadSent' = [threadSent EXCEPT ![w] = Len(threadThread')]
  BY <1>0 DEF I!Send, I!conversation, I!Goto
<1>3. "setter" \in I!Authors /\ to \in I!Times
  BY <1>0, <1>1 DEF I!Authors, ThreadTypes
<1>4. /\ to \in I!Written /\ I!Inbound(to) /\ threadRow[to] # "NONE"
      /\ \A k \in BySetter : threadThread[k].to # to
  <2>1. threadPc[w] # "idle" /\ threadPc[w] \in Past /\ threadPc[w] \in Unsent
    BY <1>2 DEF Past, Unsent
  <2>2. to \in I!Written /\ I!Inbound(to) /\ \A k \in BySetter : threadThread[k].to # to
    BY <1>0, <1>1, <2>1 DEF JobsFit, Heard, OneAnswerEach
  <2>3. threadRow[to] # "NONE"
    BY <1>0, <1>1, <2>1 DEF OneAnswerEach
  <2>4. QED
    BY <2>2, <2>3
<1>5. \A v \in Slots \ {w} : threadPc'[v] = threadPc[v] /\ (threadPc[v] # "idle" => threadOn[v] # to)
  BY <1>0, <1>1, <1>2 DEF ThreadTypes, JobsFit
<1>6. threadPc'[w] = "record" /\ threadPc' \in [Slots -> I!Places]
  BY <1>1, <1>2 DEF ThreadTypes, I!Places
<1>7. /\ \A v \in Slots : threadPc'[v] = threadPc[v]
                           \/ (threadPc[v] = "send" /\ threadPc'[v] = "record")
      /\ \A v \in Slots : threadPc'[v] \in Unsent => threadPc[v] \in Unsent /\ v # w
  BY <1>2, <1>5, <1>6 DEF Unsent
<1>8. OneAnswerEach'
  <2>1. BySetter' = BySetter \cup {Len(threadThread) + 1}
    <3>1. \A m : m \in BySetter' <=> m \in BySetter \/ m = Len(threadThread) + 1
      BY <1>2, <1>3, SaidIs DEF BySetter, I!Written
    <3>2. QED
      BY <3>1
  <2>2. \A k \in BySetter : threadThread'[k].to = threadThread[k].to
    BY <1>2, <1>3, SaidIs DEF BySetter
  <2>3. threadThread'[Len(threadThread) + 1].to = to
    BY <1>2, <1>3, SaidIs
  <2>4. I!Inbound(to)' /\ \A k \in BySetter : I!Inbound(threadThread[k].to)'
    <3>1. \A k \in BySetter : threadThread[k].to \in I!Written /\ I!Inbound(threadThread[k].to)
      BY <1>1 DEF OneAnswerEach, I!Inbound
    <3>2. \A m \in I!Written : I!Inbound(m)' <=> I!Inbound(m)
      BY <1>2, <1>3, SaidIs
    <3>3. I!Inbound(to)'
      BY <1>4, <3>2
    <3>4. QED
      BY <2>2, <3>1, <3>2, <3>3 DEF I!Inbound, I!Written
  <2>5. ASSUME NEW k \in BySetter'
        PROVE  /\ I!Inbound(threadThread[k].to)' /\ threadRow[threadThread'[k].to] # "NONE"
               /\ \A v \in Slots : threadOn[v] = threadThread'[k].to => threadPc'[v] \notin Unsent
    <3>1. CASE k \in BySetter
      BY <1>1, <1>7, <2>2, <2>4, <3>1 DEF OneAnswerEach
    <3>2. CASE k = Len(threadThread) + 1
      <4>1. \A v \in Slots : threadOn[v] = to => threadPc'[v] \notin Unsent
        BY <1>5, <1>7, ThreadPlaces
      <4>2. QED
        BY <1>4, <2>3, <2>4, <3>2, <4>1
    <3>3. QED
      BY <2>1, <3>1, <3>2
  <2>6. \A k, l \in BySetter' : threadThread'[k].to = threadThread'[l].to => k = l
    BY <1>1, <1>4, <2>1, <2>2, <2>3 DEF OneAnswerEach
  <2>7. \A v \in Slots : threadPc'[v] \in Unsent => threadRow[threadOn[v]] # "NONE"
    BY <1>1, <1>7 DEF OneAnswerEach
  <2>8. QED
    BY <1>2, <2>5, <2>6, <2>7 DEF OneAnswerEach
<1>9. ByOthers' = ByOthers
  <2>1. \A m : m \in ByOthers' <=> m \in ByOthers
    BY <1>2, <1>3, SaidIs DEF ByOthers, I!Written
  <2>2. QED
    BY <2>1
<1>10. Bounded'
  BY <1>1, <1>2, <1>3, <1>8, <1>9, SaidIs, BoundKept DEF Bounded
<1>11. ThreadTypes' /\ JobsFit' /\ SweepFits' /\ Heard'
  <2>1. Len(threadThread') \in I!Times
    BY <1>10 DEF Bounded
  <2>2. threadSent' \in [Slots -> I!Times]
    BY <1>1, <1>2, <2>1 DEF ThreadTypes
  <2>3. \A m \in I!Written : m \in I!Written'
    BY <1>2, <1>3, SaidIs DEF I!Written
  <2>4. threadQuiet' \subseteq I!Written'
    BY <1>1, <1>2, <2>3 DEF ThreadTypes
  <2>5. QED
    BY <1>2, <1>3, <1>6, <1>7, <2>2, <2>4, SaidLeaves
<1>12. StandsAside'
  <2>1. \A v \in Slots : /\ threadPc'[v] \in Before => threadPc[v] \in Before
                         /\ threadPc'[v] \in Past => threadPc[v] \in Past
    BY <1>7 DEF Before, Past
  <2>2. QED
    BY <1>1, <1>2, <2>1 DEF StandsAside
<1>13. QED
  BY <1>8, <1>10, <1>11, <1>12 DEF ThreadInv

\* A job goes on to its next place.
LEMMA GoesOn ==
  ASSUME ThreadInv, NEW w \in Slots, NEW place \in I!Places \ {"idle"}, threadPc[w] # "idle",
         threadPc' = [threadPc EXCEPT ![w] = place],
         NEW s \in Snaps, threadSnap' = [threadSnap EXCEPT ![w] = s],
         threadMirror' \in [I!Mids -> I!Sources], threadRow' \in [I!Mids -> RowStates],
         threadLastIn' \in I!Times, threadLastOut' \in I!Times, threadArmed' \subseteq I!Mids,
         threadLastIn # 0 => threadLastIn' # 0,
         \A m \in I!Mids : threadRow[m] # "NONE" => threadRow'[m] # "NONE",
         UNCHANGED <<threadThread, threadTakeover, threadMode, threadJob, threadOn, threadSent,
                     threadBurst, threadSweep, threadQuiet, threadPatches>>,
         place \in Past \cup {"arm", "gates"} => I!Inbound(threadOn[w]),
         place \in Past \cup Before /\ I!Inbound(threadOn[w]) => s.lastIn # 0 /\ threadLastIn' # 0,
         place \in Unsent =>
           /\ threadRow'[threadOn[w]] # "NONE"
           /\ threadPc[w] \in Unsent \/ threadRow[threadOn[w]] = "NONE",
         place \in Before /\ threadOn[w] \in threadQuiet => s.takeover # 0,
         place \in Past => threadOn[w] \notin threadQuiet
  PROVE  ThreadInv'
<1>1. /\ ThreadTypes /\ JobsFit /\ SweepFits /\ Heard /\ OneAnswerEach /\ Bounded /\ StandsAside
  BY DEF ThreadInv
<1>2. /\ threadPc'[w] = place /\ threadSnap'[w] = s
      /\ \A v \in Slots \ {w} : threadPc'[v] = threadPc[v] /\ threadSnap'[v] = threadSnap[v]
  BY <1>1 DEF ThreadTypes
<1>3. I!Written' = I!Written /\ \A m : I!Inbound(m)' = I!Inbound(m)
  BY DEF I!Written, I!Inbound
<1>4. ThreadTypes'
  <2>1. threadPc' \in [Slots -> I!Places] /\ threadSnap' \in [Slots -> Snaps]
    BY <1>1 DEF ThreadTypes
  <2>2. QED
    BY <1>1, <1>3, <2>1 DEF ThreadTypes
<1>5. JobsFit'
  <2>1. \A v \in Slots : threadPc'[v] # "idle" => threadPc[v] # "idle"
    BY <1>2
  <2>2. QED
    BY <1>1, <1>3, <2>1 DEF JobsFit
<1>6. SweepFits'
  BY <1>1 DEF SweepFits
<1>7. Heard'
  BY <1>1, <1>2, <1>3 DEF Heard
<1>8. BySetter' = BySetter /\ ByOthers' = ByOthers
  BY <1>3 DEF BySetter, ByOthers
<1>9. OneAnswerEach'
  <2>1. threadOn[w] \in I!Written
    BY <1>1 DEF JobsFit
  <2>2. \A m \in I!Written : m \in I!Mids
    BY <1>1, ThreadNumbers DEF Bounded, I!Written, I!Mids, I!Times
  <2>3. ASSUME NEW v \in Slots, threadPc'[v] \in Unsent PROVE threadRow'[threadOn[v]] # "NONE"
    <3>1. CASE v = w
      BY <1>2, <2>3, <3>1
    <3>2. CASE v # w
      <4>1. threadPc[v] \in Unsent /\ threadPc[v] # "idle"
        BY <1>2, <2>3, <3>2, ThreadPlaces
      <4>2. threadOn[v] \in I!Mids /\ threadRow[threadOn[v]] # "NONE"
        BY <1>1, <2>2, <4>1 DEF JobsFit, OneAnswerEach
      <4>3. QED
        BY <4>2
    <3>3. QED
      BY <3>1, <3>2
  <2>4. ASSUME NEW k \in BySetter
        PROVE  /\ I!Inbound(threadThread[k].to) /\ threadRow'[threadThread[k].to] # "NONE"
               /\ \A v \in Slots : threadOn[v] = threadThread[k].to => threadPc'[v] \notin Unsent
    <3>1. /\ I!Inbound(threadThread[k].to) /\ threadRow[threadThread[k].to] # "NONE"
          /\ \A v \in Slots : threadOn[v] = threadThread[k].to => threadPc[v] \notin Unsent
      BY <1>1 DEF OneAnswerEach
    <3>2. threadThread[k].to \in I!Mids
      BY <2>2, <3>1 DEF I!Inbound
    <3>3. ASSUME NEW v \in Slots, threadOn[v] = threadThread[k].to PROVE threadPc'[v] \notin Unsent
      <4>1. CASE v = w
        BY <1>2, <3>1, <3>3, <4>1
      <4>2. CASE v # w
        BY <1>2, <3>1, <3>3, <4>2
      <4>3. QED
        BY <4>1, <4>2
    <3>4. QED
      BY <3>1, <3>2, <3>3
  <2>5. \A k, l \in BySetter : threadThread[k].to = threadThread[l].to => k = l
    BY <1>1 DEF OneAnswerEach
  <2>6. QED
    BY <1>3, <1>8, <2>3, <2>4, <2>5 DEF OneAnswerEach
<1>10. Bounded'
  BY <1>1, <1>8 DEF Bounded
<1>11. StandsAside'
  BY <1>1, <1>2 DEF StandsAside
<1>12. QED
  BY <1>4, <1>5, <1>6, <1>7, <1>9, <1>10, <1>11 DEF ThreadInv

\* A job leaves its slot.
LEMMA Leaves ==
  ASSUME ThreadInv, NEW w \in Slots, threadPc[w] # "idle",
         NEW state \in {"done", "waiting"}, I!Leave(w, state),
         threadMirror' \in [I!Mids -> I!Sources], threadRow' \in [I!Mids -> RowStates],
         threadLastOut' \in I!Times, threadArmed' \subseteq I!Mids, threadTakeover' \in I!Times,
         threadTakeover # 0 => threadTakeover' # 0,
         \A m \in I!Mids : threadRow[m] # "NONE" => threadRow'[m] # "NONE",
         UNCHANGED <<threadThread, threadLastIn, threadMode, threadSweep, threadQuiet,
                     threadPatches>>
  PROVE  ThreadInv'
<1>1. /\ ThreadTypes /\ JobsFit /\ SweepFits /\ Heard /\ OneAnswerEach /\ Bounded /\ StandsAside
  BY DEF ThreadInv
<1>2. /\ threadJob' = [threadJob EXCEPT ![threadOn[w]] = state]
      /\ threadPc' = [threadPc EXCEPT ![w] = "idle"] /\ threadOn' = [threadOn EXCEPT ![w] = 0]
      /\ threadSnap' = [threadSnap EXCEPT ![w] = I!NoSnap]
      /\ threadSent' = [threadSent EXCEPT ![w] = 0]
      /\ threadBurst' = [threadBurst EXCEPT ![w] = FALSE]
  BY DEF I!Leave, I!Goto
<1>3. /\ threadPc'[w] = "idle" /\ threadOn'[w] = 0
      /\ \A v \in Slots \ {w} :
           /\ threadPc'[v] = threadPc[v] /\ threadOn'[v] = threadOn[v]
           /\ threadSnap'[v] = threadSnap[v]
  BY <1>1, <1>2 DEF ThreadTypes
<1>4. I!Written' = I!Written /\ \A m : I!Inbound(m)' = I!Inbound(m)
  BY DEF I!Written, I!Inbound
<1>5. threadOn[w] \in I!Written /\ \A m \in I!Written : m \in I!Mids
  BY <1>1, ThreadNumbers DEF JobsFit, Bounded, I!Written, I!Mids, I!Times
<1>6. ThreadTypes'
  <2>1. threadJob' \in [I!Mids -> JobStates]
    BY <1>1, <1>2 DEF ThreadTypes, JobStates
  <2>2. /\ threadPc' \in [Slots -> I!Places] /\ threadOn' \in [Slots -> I!Times]
        /\ threadSent' \in [Slots -> I!Times] /\ threadBurst' \in [Slots -> BOOLEAN]
    BY <1>1, <1>2, ThreadNumbers DEF ThreadTypes, I!Places
  <2>3. I!NoSnap \in Snaps
    BY ThreadNumbers DEF I!NoSnap, Snaps, I!Modes
  <2>4. threadSnap' \in [Slots -> Snaps]
    BY <1>1, <1>2, <2>3 DEF ThreadTypes
  <2>5. QED
    BY <1>1, <1>4, <2>1, <2>2, <2>4 DEF ThreadTypes
<1>7. JobsFit'
  <2>1. ASSUME NEW v \in Slots, threadPc'[v] # "idle"
        PROVE  v # w /\ threadOn'[v] \in I!Written /\ threadJob'[threadOn'[v]] = "active"
    <3>1. v # w /\ threadPc[v] # "idle" /\ threadOn'[v] = threadOn[v]
      BY <1>3, <2>1
    <3>2. threadOn[v] \in I!Written /\ threadJob[threadOn[v]] = "active"
          /\ threadOn[v] # threadOn[w]
      BY <1>1, <3>1 DEF JobsFit
    <3>3. QED
      BY <1>1, <1>2, <1>5, <3>1, <3>2 DEF ThreadTypes
  <2>2. \A m \in I!Mids : threadJob'[m] # "none" => m \in I!Written
    BY <1>1, <1>2, <1>5 DEF ThreadTypes, JobsFit
  <2>3. \A u, v \in Slots :
          threadPc'[u] # "idle" /\ threadPc'[v] # "idle" /\ u # v => threadOn'[u] # threadOn'[v]
    BY <1>1, <1>3, <2>1 DEF JobsFit
  <2>4. QED
    BY <1>4, <2>1, <2>2, <2>3 DEF JobsFit
<1>8. SweepFits'
  BY <1>1 DEF SweepFits
<1>9. Heard'
  BY <1>1, <1>3, <1>4, ThreadPlaces DEF Heard
<1>10. BySetter' = BySetter /\ ByOthers' = ByOthers
  BY <1>4 DEF BySetter, ByOthers
<1>11. \A v \in Slots : threadPc'[v] \in Unsent =>
          threadPc[v] \in Unsent /\ threadOn'[v] = threadOn[v] /\ threadPc[v] # "idle"
  BY <1>3, ThreadPlaces
<1>12. OneAnswerEach'
  <2>1. ASSUME NEW v \in Slots, threadPc'[v] \in Unsent PROVE threadRow'[threadOn'[v]] # "NONE"
    BY <1>1, <1>5, <1>11, <2>1 DEF OneAnswerEach, JobsFit
  <2>2. ASSUME NEW k \in BySetter
        PROVE  /\ I!Inbound(threadThread[k].to) /\ threadRow'[threadThread[k].to] # "NONE"
               /\ \A v \in Slots : threadOn'[v] = threadThread[k].to => threadPc'[v] \notin Unsent
    <3>1. /\ I!Inbound(threadThread[k].to) /\ threadRow[threadThread[k].to] # "NONE"
          /\ \A v \in Slots : threadOn[v] = threadThread[k].to => threadPc[v] \notin Unsent
      BY <1>1 DEF OneAnswerEach
    <3>2. threadThread[k].to \in I!Mids
      BY <1>5, <3>1 DEF I!Inbound
    <3>3. QED
      BY <1>11, <3>1, <3>2
  <2>3. \A k, l \in BySetter : threadThread[k].to = threadThread[l].to => k = l
    BY <1>1 DEF OneAnswerEach
  <2>4. QED
    BY <1>4, <1>10, <2>1, <2>2, <2>3 DEF OneAnswerEach
<1>13. Bounded'
  BY <1>1, <1>10 DEF Bounded
<1>14. StandsAside'
  BY <1>1, <1>3, ThreadPlaces DEF StandsAside
<1>15. QED
  BY <1>6, <1>7, <1>8, <1>9, <1>12, <1>13, <1>14 DEF ThreadInv

\* What a busy slot is at.
LEMMA BusySlot ==
  ASSUME ThreadInv, NEW w \in Slots, threadPc[w] # "idle"
  PROVE  /\ threadOn[w] \in I!Written /\ threadOn[w] \in I!Mids /\ threadOn[w] \in I!Times
         /\ threadOn[w] # 0
         /\ threadSnap[w] \in Snaps /\ threadSnap = [threadSnap EXCEPT ![w] = threadSnap[w]]
BY ThreadNumbers DEF ThreadInv, ThreadTypes, JobsFit, Bounded, I!Written, I!Mids, I!Times

LEMMA UpsertKeeps ==
  ASSUME ThreadInv, NEW w \in Slots, I!Upsert(w)
  PROVE  ThreadInv'
<1>1. ThreadTypes /\ StandsAside
  BY DEF ThreadInv
<1>2. threadPc[w] # "idle" /\ threadPc' = [threadPc EXCEPT ![w] = "mirror"]
  BY DEF I!Upsert, I!Goto
<1>3. PICK s : s = [takeover |-> threadTakeover, mode |-> threadMode, lastIn |-> threadLastIn']
  OBVIOUS
<1>4. /\ threadSnap' = [threadSnap EXCEPT ![w] = s]
      /\ UNCHANGED <<threadThread, threadMirror, threadTakeover, threadMode, threadJob,
                     threadArmed, threadRow, threadOn, threadSent, threadBurst, threadSweep,
                     threadQuiet, threadPatches>>
      /\ \/ I!Inbound(threadOn[w]) /\ threadLastIn' = threadOn[w] /\ threadLastOut' = threadLastOut
         \/ ~ I!Inbound(threadOn[w]) /\ threadLastOut' = threadOn[w] /\ threadLastIn' = threadLastIn
  BY <1>3 DEF I!Upsert
<1>5. threadOn[w] \in I!Times /\ threadOn[w] # 0
  BY <1>2, BusySlot
<1>6. threadLastIn' \in I!Times /\ threadLastOut' \in I!Times /\ (threadLastIn # 0 => threadLastIn' # 0)
  BY <1>1, <1>4, <1>5 DEF ThreadTypes
<1>7. s \in Snaps /\ s.takeover = threadTakeover /\ s.lastIn = threadLastIn'
  BY <1>1, <1>3, <1>6 DEF ThreadTypes, Snaps
<1>8. "mirror" \in I!Places \ {"idle"} /\ "mirror" \notin Past \cup {"arm", "gates"}
      /\ "mirror" \notin Unsent
  BY DEF I!Places, Past, Unsent
<1>9. I!Inbound(threadOn[w]) => s.lastIn # 0 /\ threadLastIn' # 0
  BY <1>4, <1>5, <1>7
<1>10. threadOn[w] \in threadQuiet => s.takeover # 0
  BY <1>1, <1>7 DEF StandsAside
<1>11. /\ threadMirror' \in [I!Mids -> I!Sources] /\ threadRow' \in [I!Mids -> RowStates]
       /\ threadArmed' \subseteq I!Mids
       /\ \A m \in I!Mids : threadRow[m] # "NONE" => threadRow'[m] # "NONE"
  BY <1>1, <1>4 DEF ThreadTypes
<1>12. QED
  BY <1>2, <1>4, <1>6, <1>7, <1>8, <1>9, <1>10, <1>11, GoesOn

\* A job that goes on without a new look at the conversation.
LEMMA GoesOnSame ==
  ASSUME ThreadInv, NEW w \in Slots, NEW place \in I!Places \ {"idle"}, threadPc[w] # "idle",
         I!Goto(w, place), I!Stay,
         threadMirror' \in [I!Mids -> I!Sources], threadRow' \in [I!Mids -> RowStates],
         threadArmed' \subseteq I!Mids,
         \A m \in I!Mids : threadRow[m] # "NONE" => threadRow'[m] # "NONE",
         UNCHANGED <<threadThread, threadLastIn, threadLastOut, threadTakeover, threadMode,
                     threadSweep, threadQuiet, threadPatches>>,
         place \in Past \cup Before => threadPc[w] \in Past \cup Before,
         place \in Past \cup {"arm", "gates"} => I!Inbound(threadOn[w]),
         place \in Unsent =>
           /\ threadRow'[threadOn[w]] # "NONE"
           /\ threadPc[w] \in Unsent \/ threadRow[threadOn[w]] = "NONE",
         place \in Before => threadPc[w] \in Before,
         place \in Past => threadPc[w] \in Past \/ threadOn[w] \notin threadQuiet
  PROVE  ThreadInv'
<1>1. threadPc' = [threadPc EXCEPT ![w] = place] /\ UNCHANGED <<threadJob, threadOn, threadSnap,
        threadSent, threadBurst>>
  BY DEF I!Goto, I!Stay
<1>2. threadSnap[w] \in Snaps /\ threadSnap' = [threadSnap EXCEPT ![w] = threadSnap[w]]
  BY <1>1, BusySlot
<1>3. place \in Past \cup Before /\ I!Inbound(threadOn[w]) =>
        threadSnap[w].lastIn # 0 /\ threadLastIn' # 0
  BY DEF ThreadInv, Heard
<1>4. /\ place \in Before /\ threadOn[w] \in threadQuiet => threadSnap[w].takeover # 0
      /\ place \in Past => threadOn[w] \notin threadQuiet
  BY DEF ThreadInv, StandsAside
<1>5. threadLastIn' \in I!Times /\ threadLastOut' \in I!Times /\ (threadLastIn # 0 => threadLastIn' # 0)
  BY DEF ThreadInv, ThreadTypes
<1>6. QED
  BY <1>1, <1>2, <1>3, <1>4, <1>5, GoesOn

LEMMA MirrorKeeps ==
  ASSUME ThreadInv, NEW w \in Slots, I!MirrorMessage(w)
  PROVE  ThreadInv'
<1>1. ThreadTypes
  BY DEF ThreadInv
<1>2. /\ threadPc[w] = "mirror" /\ threadPc[w] # "idle"
      /\ UNCHANGED <<threadThread, threadLastIn, threadLastOut, threadTakeover, threadMode,
                     threadArmed, threadRow, threadSweep, threadQuiet, threadPatches>>
  BY DEF I!MirrorMessage, I!conversation
<1>3. /\ threadRow' \in [I!Mids -> RowStates] /\ threadLastOut' \in I!Times
      /\ threadArmed' \subseteq I!Mids /\ threadTakeover' \in I!Times
  BY <1>1, <1>2 DEF ThreadTypes
<1>4. CASE threadMirror[threadOn[w]] # "NONE"
  <2>1. I!Leave(w, "done") /\ threadMirror' = threadMirror
    BY <1>4 DEF I!MirrorMessage, I!Finish
  <2>2. QED
    BY <1>1, <1>2, <1>3, <2>1, Leaves DEF ThreadTypes
<1>5. CASE threadMirror[threadOn[w]] = "NONE"
  <2>1. PICK place \in {"arm", "takeover"} :
          /\ I!Goto(w, place) /\ I!Stay /\ (place = "arm" => I!Inbound(threadOn[w]))
          /\ \E source \in {"PARTICIPANT", "HUMAN"} :
               threadMirror' = [threadMirror EXCEPT ![threadOn[w]] = source]
    BY <1>5 DEF I!MirrorMessage
  <2>2. threadMirror' \in [I!Mids -> I!Sources]
    BY <1>1, <2>1 DEF ThreadTypes, I!Sources
  <2>3. /\ place \in I!Places \ {"idle"} /\ place \notin Past /\ place \notin Unsent
        /\ (place \in {"arm", "gates"} => place = "arm") /\ "mirror" \in Before
    BY <2>1 DEF I!Places, Past, Unsent, Before
  <2>4. QED
    BY <1>2, <1>3, <2>1, <2>2, <2>3, GoesOnSame
<1>6. QED
  BY <1>4, <1>5

LEMMA TakeOverKeeps ==
  ASSUME ThreadInv, NEW w \in Slots, I!TakeOver(w)
  PROVE  ThreadInv'
<1>1. /\ threadPc[w] # "idle" /\ I!Leave(w, "done") /\ threadTakeover' = threadOn[w]
      /\ UNCHANGED <<threadThread, threadMirror, threadLastIn, threadLastOut, threadMode,
                     threadArmed, threadRow, threadSweep, threadQuiet, threadPatches>>
  BY DEF I!TakeOver, I!Finish
<1>2. threadTakeover' \in I!Times /\ threadTakeover' # 0
  BY <1>1, BusySlot
<1>3. QED
  BY <1>1, <1>2, Leaves DEF ThreadInv, ThreadTypes

\* A reply is skipped, or the job is over with no word.
LEMMA SkipKeeps ==
  ASSUME ThreadInv, NEW w \in Slots, threadPc[w] # "idle",
         \/ I!Skip(w)
         \/ \E state \in {"done", "waiting"} : I!Leave(w, state) /\ UNCHANGED threadRow
         \/ \E status \in RowStates \ {"NONE"} :
              threadRow' = [threadRow EXCEPT ![threadOn[w]] = status] /\ I!Leave(w, "done"),
         threadArmed' \subseteq I!Mids, threadLastOut' \in I!Times,
         UNCHANGED <<threadThread, threadMirror, threadLastIn, threadTakeover, threadMode,
                     threadSweep, threadQuiet, threadPatches>>
  PROVE  ThreadInv'
<1>1. ThreadTypes
  BY DEF ThreadInv
<1>2. PICK state \in {"done", "waiting"} : I!Leave(w, state)
  BY DEF I!Skip, I!Finish
<1>3. \/ threadRow' = threadRow
      \/ \E status \in RowStates : status # "NONE" /\
           threadRow' = [threadRow EXCEPT ![threadOn[w]] = status]
  <2>1. CASE I!Skip(w)
    <3>1. threadRow' = [threadRow EXCEPT ![threadOn[w]] =
                          IF threadRow[threadOn[w]] = "NONE" THEN "SKIPPED" ELSE threadRow[threadOn[w]]]
      BY <1>1, <2>1, BusySlot DEF I!Skip, ThreadTypes
    <3>2. threadRow[threadOn[w]] \in RowStates
      BY <1>1, BusySlot DEF ThreadTypes
    <3>3. "SKIPPED" \in RowStates /\ "SKIPPED" # "NONE"
      BY DEF RowStates
    <3>4. QED
      BY <3>1, <3>2, <3>3
  <2>2. CASE ~ I!Skip(w)
    BY <2>2
  <2>3. QED
    BY <2>1, <2>2
<1>4. /\ threadRow' \in [I!Mids -> RowStates]
      /\ \A m \in I!Mids : threadRow[m] # "NONE" => threadRow'[m] # "NONE"
  BY <1>1, <1>3 DEF ThreadTypes
<1>5. threadMirror' \in [I!Mids -> I!Sources] /\ threadTakeover' \in I!Times
      /\ (threadTakeover # 0 => threadTakeover' # 0)
  BY <1>1 DEF ThreadTypes
<1>6. QED
  BY <1>2, <1>4, <1>5, Leaves

\* The message a job answers is the prospect's, of a conversation that has one.
LEMMA AnsweredIsHeard ==
  ASSUME ThreadInv, NEW w \in Slots, threadPc[w] \in Past \cup {"arm", "gates"}
  PROVE  /\ I!Inbound(threadOn[w]) /\ threadSnap[w].lastIn \in I!Mids
         /\ threadOn[w] \in I!Mids /\ threadPc[w] # "idle"
         /\ threadPc[w] \in Past \cup Before
<1>1. threadPc[w] # "idle" /\ threadPc[w] \in Past \cup Before
  BY ThreadPlaces
<1>2. I!Inbound(threadOn[w]) /\ threadSnap[w].lastIn # 0
  BY <1>1 DEF ThreadInv, Heard
<1>3. threadSnap[w].lastIn \in I!Times
  BY <1>1, BusySlot DEF Snaps
<1>4. QED
  BY <1>1, <1>2, <1>3, BusySlot, ThreadNumbers

LEMMA GatesKeep ==
  ASSUME ThreadInv, NEW w \in Slots, I!Arm(w) \/ I!Gates(w) \/ I!Debounce(w)
  PROVE  ThreadInv'
<1>1. ThreadTypes
  BY DEF ThreadInv
<1>2. /\ threadPc[w] \in {"arm", "gates", "debounce"}
      /\ UNCHANGED <<threadThread, threadMirror, threadLastIn, threadLastOut, threadTakeover,
                     threadMode, threadSweep, threadQuiet, threadPatches>>
  BY DEF I!Arm, I!Gates, I!Debounce, I!conversation
<1>3. threadPc[w] \in Past \cup {"arm", "gates"}
  BY <1>2 DEF Past
<1>4. /\ I!Inbound(threadOn[w]) /\ threadOn[w] \in I!Mids /\ threadPc[w] # "idle"
      /\ threadPc[w] \in Past \cup Before
  BY <1>3, AnsweredIsHeard
<1>5. threadLastOut' \in I!Times /\ threadMirror' \in [I!Mids -> I!Sources]
  BY <1>1, <1>2 DEF ThreadTypes
<1>6. CASE I!Arm(w)
  <2>1. threadArmed' \subseteq I!Mids /\ threadRow' = threadRow
    BY <1>1, <1>4, <1>6 DEF I!Arm, ThreadTypes
  <2>2. I!Goto(w, "gates") /\ I!Stay /\ threadPc[w] = "arm"
    BY <1>6 DEF I!Arm
  <2>3. /\ "gates" \in I!Places \ {"idle"} /\ "gates" \notin Past /\ "gates" \notin Unsent
        /\ "arm" \in Before
    BY DEF I!Places, Past, Unsent, Before
  <2>4. QED
    BY <1>1, <1>2, <1>4, <1>5, <2>1, <2>2, <2>3, GoesOnSame DEF ThreadTypes
<1>7. CASE I!Gates(w)
  <2>1. threadArmed' \subseteq I!Mids
    BY <1>1, <1>7 DEF I!Gates, ThreadTypes
  <2>2. \/ I!Skip(w)
        \/ I!Finish(w) /\ threadRow' = threadRow
        \/ /\ threadSnap[w].takeover = 0 /\ I!Goto(w, "debounce") /\ I!Stay
           /\ threadRow' = threadRow
    BY <1>7 DEF I!Gates
  <2>3. CASE I!Skip(w) \/ (I!Finish(w) /\ threadRow' = threadRow)
    BY <1>2, <1>4, <1>5, <2>1, <2>3, SkipKeeps DEF I!Finish
  <2>4. CASE /\ threadSnap[w].takeover = 0 /\ I!Goto(w, "debounce") /\ I!Stay
             /\ threadRow' = threadRow
    <3>1. /\ "debounce" \in I!Places \ {"idle"} /\ "debounce" \notin Before
          /\ "debounce" \notin Unsent
      BY DEF I!Places, Before, Unsent
    <3>2. threadPc[w] \in Before
      BY <1>7 DEF I!Gates, Before
    <3>3. threadOn[w] \notin threadQuiet
      BY <2>4, <3>2 DEF ThreadInv, StandsAside
    <3>4. QED
      BY <1>1, <1>2, <1>4, <1>5, <2>1, <2>4, <3>1, <3>3, GoesOnSame DEF ThreadTypes
  <2>5. QED
    BY <2>2, <2>3, <2>4
<1>8. CASE I!Debounce(w)
  <2>1. threadArmed' \subseteq I!Mids
    BY <1>1, <1>8 DEF I!Debounce, ThreadTypes
  <2>2. \/ I!Skip(w)
        \/ I!Goto(w, "draft") /\ I!Stay /\ threadRow' = threadRow
    BY <1>8 DEF I!Debounce
  <2>3. CASE I!Skip(w)
    BY <1>2, <1>4, <1>5, <2>1, <2>3, SkipKeeps
  <2>4. CASE I!Goto(w, "draft") /\ I!Stay /\ threadRow' = threadRow
    <3>1. /\ "draft" \in I!Places \ {"idle"} /\ "draft" \notin Before /\ "draft" \notin Unsent
      BY DEF I!Places, Before, Unsent
    <3>2. threadPc[w] \in Past
      BY <1>8 DEF I!Debounce, Past
    <3>3. QED
      BY <1>1, <1>2, <1>4, <1>5, <2>1, <2>4, <3>1, <3>2, GoesOnSame DEF ThreadTypes
  <2>5. QED
    BY <2>2, <2>3, <2>4
<1>9. QED
  BY <1>6, <1>7, <1>8

LEMMA DraftKeeps ==
  ASSUME ThreadInv, NEW w \in Slots, I!Draft(w) \/ I!GenerationFails(w)
  PROVE  ThreadInv'
<1>1. ThreadTypes
  BY DEF ThreadInv
<1>2. /\ threadPc[w] = "draft" /\ "draft" \in Past
      /\ UNCHANGED <<threadThread, threadMirror, threadLastIn, threadLastOut, threadTakeover,
                     threadMode, threadArmed, threadSweep, threadQuiet, threadPatches>>
  BY DEF I!Draft, I!GenerationFails, I!conversation, Past
<1>3. /\ I!Inbound(threadOn[w]) /\ threadOn[w] \in I!Mids /\ threadPc[w] # "idle"
  BY <1>2, AnsweredIsHeard
<1>4. /\ threadLastOut' \in I!Times /\ threadMirror' \in [I!Mids -> I!Sources]
      /\ threadArmed' \subseteq I!Mids
  BY <1>1, <1>2 DEF ThreadTypes
<1>5. CASE \E state \in {"done", "waiting"} : I!Leave(w, state) /\ UNCHANGED threadRow
  BY <1>2, <1>3, <1>4, <1>5, SkipKeeps
<1>6. CASE /\ threadRow[threadOn[w]] = "NONE" /\ I!Goto(w, "deliver") /\ I!Stay
           /\ threadRow' = [threadRow EXCEPT ![threadOn[w]] = "PENDING"]
  <2>1. /\ threadRow' \in [I!Mids -> RowStates] /\ threadRow'[threadOn[w]] # "NONE"
        /\ \A m \in I!Mids : threadRow[m] # "NONE" => threadRow'[m] # "NONE"
    BY <1>1, <1>3, <1>6 DEF ThreadTypes, RowStates
  <2>2. /\ "deliver" \in I!Places \ {"idle"} /\ "deliver" \notin Before
    BY DEF I!Places, Before
  <2>3. QED
    BY <1>2, <1>3, <1>4, <1>6, <2>1, <2>2, GoesOnSame
<1>7. QED
  BY <1>5, <1>6 DEF I!Draft, I!GenerationFails, I!Finish

LEMMA DeliverDraftKeeps ==
  ASSUME ThreadInv, NEW w \in Slots, I!DeliverDraft(w)
  PROVE  ThreadInv'
<1>1. ThreadTypes
  BY DEF ThreadInv
<1>2. /\ threadPc[w] = "deliver" /\ "deliver" \in Past /\ "deliver" \in Unsent
      /\ UNCHANGED <<threadThread, threadMirror, threadLastIn, threadLastOut, threadTakeover,
                     threadMode, threadArmed, threadSweep, threadQuiet, threadPatches>>
  BY DEF I!DeliverDraft, I!conversation, Past, Unsent
<1>3. /\ I!Inbound(threadOn[w]) /\ threadOn[w] \in I!Mids /\ threadPc[w] # "idle"
  BY <1>2, AnsweredIsHeard
<1>4. /\ threadLastOut' \in I!Times /\ threadMirror' \in [I!Mids -> I!Sources]
      /\ threadArmed' \subseteq I!Mids
  BY <1>1, <1>2 DEF ThreadTypes
<1>5. CASE \E status \in {"HELD", "SKIPPED"} :
             threadRow' = [threadRow EXCEPT ![threadOn[w]] = status] /\ I!Finish(w)
  <2>1. {"HELD", "SKIPPED"} \subseteq RowStates \ {"NONE"}
    BY DEF RowStates
  <2>2. QED
    BY <1>2, <1>3, <1>4, <1>5, <2>1, SkipKeeps DEF I!Finish
<1>6. CASE /\ threadRow' = [threadRow EXCEPT ![threadOn[w]] = "SENDING"]
           /\ threadSnap' = [threadSnap EXCEPT ![w] = I!Conversation]
           /\ I!Goto(w, "send")
           /\ UNCHANGED <<threadJob, threadOn, threadSent, threadBurst>>
  <2>1. /\ threadRow' \in [I!Mids -> RowStates] /\ threadRow'[threadOn[w]] # "NONE"
        /\ \A m \in I!Mids : threadRow[m] # "NONE" => threadRow'[m] # "NONE"
    BY <1>1, <1>3, <1>6 DEF ThreadTypes, RowStates
  <2>2. /\ "send" \in I!Places \ {"idle"} /\ "send" \notin Before
    BY DEF I!Places, Before
  <2>3. PICK s : s = I!Conversation
    OBVIOUS
  <2>4. s \in Snaps /\ s.lastIn = threadLastIn
    BY <1>1, <2>3 DEF ThreadTypes, Snaps, I!Conversation
  <2>5. threadLastIn # 0 /\ threadOn[w] \notin threadQuiet
    BY <1>2, <1>3 DEF ThreadInv, Heard, StandsAside
  <2>6. threadPc' = [threadPc EXCEPT ![w] = "send"]
    BY <1>6 DEF I!Goto
  <2>7. threadLastIn' \in I!Times /\ threadSnap' = [threadSnap EXCEPT ![w] = s]
    BY <1>1, <1>2, <1>6, <2>3 DEF ThreadTypes
  <2>8. QED
    BY <1>2, <1>3, <1>4, <1>6, <2>1, <2>2, <2>4, <2>5, <2>6, <2>7, GoesOn
<1>7. QED
  BY <1>5, <1>6 DEF I!DeliverDraft

LEMMA RecordKeeps ==
  ASSUME ThreadInv, NEW w \in Slots, I!RecordReply(w) \/ I!MarkSent(w)
  PROVE  ThreadInv'
<1>1. ThreadTypes /\ Bounded
  BY DEF ThreadInv
<1>2. /\ threadPc[w] \in {"record", "mark"} /\ {"record", "mark"} \subseteq Past
      /\ UNCHANGED <<threadThread, threadLastIn, threadTakeover, threadMode, threadSweep,
                     threadQuiet, threadPatches>>
  BY DEF I!RecordReply, I!MarkSent, I!conversation, Past
<1>3. /\ I!Inbound(threadOn[w]) /\ threadOn[w] \in I!Mids /\ threadPc[w] # "idle"
      /\ threadSnap[w].lastIn \in I!Mids
  BY <1>2, AnsweredIsHeard
<1>4. CASE I!RecordReply(w)
  <2>1. /\ \/ threadMirror' = threadMirror
           \/ threadMirror' = [threadMirror EXCEPT ![threadSent[w]] = "AI"]
        /\ I!Goto(w, "mark") /\ I!Stay
        /\ UNCHANGED <<threadLastOut, threadArmed, threadRow>>
    <3>1. threadMirror' = [threadMirror EXCEPT ![threadSent[w]] =
                             IF @ = "NONE" THEN "AI" ELSE @]
      BY <1>4 DEF I!RecordReply
    <3>2. threadMirror[threadSent[w]] = "NONE" =>
            threadMirror' = [threadMirror EXCEPT ![threadSent[w]] = "AI"]
      BY <3>1
    <3>3. threadMirror[threadSent[w]] # "NONE" => threadMirror' = threadMirror
      BY <1>1, <3>1 DEF ThreadTypes
    <3>4. \/ threadMirror' = threadMirror
          \/ threadMirror' = [threadMirror EXCEPT ![threadSent[w]] = "AI"]
      BY <3>2, <3>3
    <3>5. QED
      BY <1>4, <3>4 DEF I!RecordReply, I!conversation
  <2>2. threadMirror' \in [I!Mids -> I!Sources]
    BY <1>1, <2>1 DEF ThreadTypes, I!Sources
  <2>3. /\ "mark" \in I!Places \ {"idle"} /\ "mark" \notin Before /\ "mark" \notin Unsent
    BY DEF I!Places, Before, Unsent
  <2>4. QED
    BY <1>1, <1>2, <1>3, <2>1, <2>2, <2>3, GoesOnSame DEF ThreadTypes
<1>5. CASE I!MarkSent(w)
  <2>1. /\ threadLastOut' = Len(threadThread) /\ threadMirror' = threadMirror
        /\ threadRow' = [threadRow EXCEPT ![threadOn[w]] = "SENT"] /\ I!Leave(w, "done")
        /\ threadArmed' \subseteq threadArmed \cup {threadSnap[w].lastIn}
    BY <1>5 DEF I!MarkSent, I!Finish
  <2>2. threadLastOut' \in I!Times /\ threadArmed' \subseteq I!Mids
    BY <1>1, <1>3, <2>1 DEF Bounded, ThreadTypes
  <2>3. "SENT" \in RowStates \ {"NONE"}
    BY DEF RowStates
  <2>4. QED
    BY <1>2, <1>3, <2>1, <2>2, <2>3, SkipKeeps
<1>6. QED
  BY <1>4, <1>5

LEMMA SetModeKeeps ==
  ASSUME ThreadInv, NEW m \in I!Modes, I!SetMode(m)
  PROVE  ThreadInv'
<1>1. /\ ThreadTypes /\ JobsFit /\ SweepFits /\ Heard /\ OneAnswerEach /\ Bounded /\ StandsAside
  BY DEF ThreadInv
<1>2. /\ threadPatches < MaxPatches /\ threadPatches' = threadPatches + 1 /\ threadMode' = m
      /\ \/ threadTakeover' = threadTakeover /\ threadQuiet' = threadQuiet
         \/ threadTakeover' = 0 /\ threadQuiet' = {}
      /\ UNCHANGED <<threadThread, threadMirror, threadLastIn, threadLastOut, threadJob,
                     threadArmed, threadRow, threadPc, threadOn, threadSnap, threadSent,
                     threadBurst, threadSweep>>
  BY DEF I!SetMode, I!slots
<1>3. I!Written' = I!Written /\ \A k : I!Inbound(k)' = I!Inbound(k)
  BY <1>2 DEF I!Written, I!Inbound
<1>4. threadPatches' \in 0..MaxPatches /\ threadTakeover' \in I!Times
  BY <1>1, <1>2, ThreadNumbers DEF ThreadTypes
<1>5. ThreadTypes'
  BY <1>1, <1>2, <1>3, <1>4 DEF ThreadTypes
<1>6. JobsFit' /\ SweepFits' /\ Heard'
  BY <1>1, <1>2, <1>3 DEF JobsFit, SweepFits, Heard
<1>7. BySetter' = BySetter /\ ByOthers' = ByOthers
  BY <1>2, <1>3 DEF BySetter, ByOthers
<1>8. OneAnswerEach' /\ Bounded'
  BY <1>1, <1>2, <1>3, <1>7 DEF OneAnswerEach, Bounded
<1>9. StandsAside'
  BY <1>1, <1>2 DEF StandsAside
<1>10. QED
  BY <1>5, <1>6, <1>8, <1>9 DEF ThreadInv

\* A message that has come is queued.
LEMMA Queues ==
  ASSUME ThreadInv, NEW m \in I!Written, threadJob[m] = "none",
         threadJob' = [threadJob EXCEPT ![m] = "waiting"],
         SweepFits',
         UNCHANGED <<threadThread, threadMirror, threadLastIn, threadLastOut, threadTakeover,
                     threadMode, threadArmed, threadRow, threadPc, threadOn, threadSnap,
                     threadSent, threadBurst, threadQuiet, threadPatches>>
  PROVE  ThreadInv'
<1>1. /\ ThreadTypes /\ JobsFit /\ Heard /\ OneAnswerEach /\ Bounded /\ StandsAside
  BY DEF ThreadInv
<1>2. I!Written' = I!Written /\ \A k : I!Inbound(k)' = I!Inbound(k)
  BY DEF I!Written, I!Inbound
<1>3. threadJob' \in [I!Mids -> JobStates]
  BY <1>1 DEF ThreadTypes, JobStates
<1>4. ThreadTypes'
  BY <1>1, <1>2, <1>3 DEF ThreadTypes
<1>5. JobsFit'
  BY <1>1, <1>2 DEF ThreadTypes, JobsFit
<1>6. Heard'
  BY <1>1, <1>2 DEF Heard
<1>7. BySetter' = BySetter /\ ByOthers' = ByOthers
  BY <1>2 DEF BySetter, ByOthers
<1>8. OneAnswerEach' /\ Bounded' /\ StandsAside'
  BY <1>1, <1>2, <1>7 DEF OneAnswerEach, Bounded, StandsAside
<1>9. QED
  BY <1>4, <1>5, <1>6, <1>8 DEF ThreadInv

LEMMA DeliverKeeps ==
  ASSUME ThreadInv, NEW m \in I!Mids, I!Deliver(m)
  PROVE  ThreadInv'
<1>1. /\ m \in I!Written /\ threadJob[m] = "none"
      /\ threadJob' = [threadJob EXCEPT ![m] = "waiting"]
      /\ UNCHANGED <<threadThread, threadMirror, threadLastIn, threadLastOut, threadTakeover,
                     threadMode, threadArmed, threadRow, threadPc, threadOn, threadSnap,
                     threadSent, threadBurst, threadSweep, threadQuiet, threadPatches>>
  BY DEF I!Deliver, I!conversation, I!slots
<1>2. SweepFits'
  BY <1>1 DEF ThreadInv, SweepFits
<1>3. QED
  BY <1>1, <1>2, Queues

LEMMA TakeJobKeeps ==
  ASSUME ThreadInv, NEW w \in Slots, NEW m \in I!Mids, I!TakeJob(w, m)
  PROVE  ThreadInv'
<1>1. /\ ThreadTypes /\ JobsFit /\ SweepFits /\ Heard /\ OneAnswerEach /\ Bounded /\ StandsAside
  BY DEF ThreadInv
<1>2. /\ threadPc[w] = "idle" /\ threadJob[m] = "waiting"
      /\ threadJob' = [threadJob EXCEPT ![m] = "active"]
      /\ threadOn' = [threadOn EXCEPT ![w] = m]
      /\ threadPc' = [threadPc EXCEPT ![w] = "upsert"]
      /\ UNCHANGED <<threadThread, threadMirror, threadLastIn, threadLastOut, threadTakeover,
                     threadMode, threadArmed, threadRow, threadSnap, threadSent, threadSweep,
                     threadQuiet, threadPatches>>
  BY DEF I!TakeJob, I!Goto, I!conversation
<1>3. threadBurst' \in [Slots -> BOOLEAN]
  <2>1. PICK b \in BOOLEAN : threadBurst' = [threadBurst EXCEPT ![w] = b]
    BY DEF I!TakeJob
  <2>2. QED
    BY <1>1, <2>1 DEF ThreadTypes
<1>4. I!Written' = I!Written /\ \A k : I!Inbound(k)' = I!Inbound(k)
  BY <1>2 DEF I!Written, I!Inbound
<1>5. /\ threadPc'[w] = "upsert" /\ threadOn'[w] = m
      /\ \A v \in Slots \ {w} : threadPc'[v] = threadPc[v] /\ threadOn'[v] = threadOn[v]
  BY <1>1, <1>2 DEF ThreadTypes
<1>6. ThreadTypes'
  <2>1. threadJob' \in [I!Mids -> JobStates]
    BY <1>1, <1>2 DEF ThreadTypes, JobStates
  <2>2. threadPc' \in [Slots -> I!Places] /\ threadOn' \in [Slots -> I!Times]
    BY <1>1, <1>2, ThreadNumbers DEF ThreadTypes, I!Places
  <2>3. QED
    BY <1>1, <1>2, <1>3, <1>4, <2>1, <2>2 DEF ThreadTypes
<1>7. JobsFit'
  <2>1. m \in I!Written
    BY <1>1, <1>2 DEF JobsFit
  <2>2. \A v \in Slots \ {w} : threadPc[v] # "idle" => threadOn[v] # m
    BY <1>1, <1>2 DEF JobsFit
  <2>3. threadJob'[m] = "active" /\ \A k \in I!Mids \ {m} : threadJob'[k] = threadJob[k]
    BY <1>1, <1>2 DEF ThreadTypes
  <2>4. ASSUME NEW v \in Slots, threadPc'[v] # "idle"
        PROVE  threadOn'[v] \in I!Written /\ threadJob'[threadOn'[v]] = "active"
    <3>1. CASE v = w
      BY <1>5, <2>1, <2>3, <3>1
    <3>2. CASE v # w
      <4>1. threadPc[v] # "idle" /\ threadOn'[v] = threadOn[v] /\ threadOn[v] # m
        BY <1>5, <2>2, <2>4, <3>2
      <4>2. QED
        BY <1>1, <2>3, <4>1, BusySlot DEF JobsFit
    <3>3. QED
      BY <3>1, <3>2
  <2>5. \A u, v \in Slots :
          threadPc'[u] # "idle" /\ threadPc'[v] # "idle" /\ u # v => threadOn'[u] # threadOn'[v]
    BY <1>1, <1>5, <2>2 DEF JobsFit
  <2>6. \A k \in I!Mids : threadJob'[k] # "none" => k \in I!Written
    BY <1>1, <2>1, <2>3 DEF JobsFit
  <2>7. QED
    BY <1>4, <2>4, <2>5, <2>6 DEF JobsFit
<1>8. SweepFits'
  BY <1>1, <1>2 DEF SweepFits
<1>9. \A v \in Slots : threadPc'[v] \in Past \cup Before \cup {"arm", "gates"} =>
        v # w /\ threadPc'[v] = threadPc[v] /\ threadOn'[v] = threadOn[v]
  BY <1>5, ThreadPlaces
<1>10. Heard' /\ StandsAside'
  BY <1>1, <1>2, <1>4, <1>9 DEF Heard, StandsAside
<1>11. BySetter' = BySetter /\ ByOthers' = ByOthers
  BY <1>2, <1>4 DEF BySetter, ByOthers
<1>12. \A v \in Slots : threadPc'[v] \in Unsent =>
         threadPc'[v] = threadPc[v] /\ threadOn'[v] = threadOn[v]
  BY <1>9, ThreadPlaces
<1>13. OneAnswerEach' /\ Bounded'
  BY <1>1, <1>2, <1>4, <1>11, <1>12 DEF OneAnswerEach, Bounded
<1>14. QED
  BY <1>6, <1>7, <1>8, <1>10, <1>13 DEF ThreadInv

\* The sweep adds to the mirror and moves an anchor.
LEMMA SweepGoes ==
  ASSUME ThreadInv, SweepFits',
         threadMirror' \in [I!Mids -> I!Sources],
         threadLastIn' \in I!Times, threadLastOut' \in I!Times,
         threadLastIn # 0 => threadLastIn' # 0,
         UNCHANGED <<threadThread, threadTakeover, threadMode, threadJob, threadArmed, threadRow,
                     threadPc, threadOn, threadSnap, threadSent, threadBurst, threadQuiet,
                     threadPatches>>
  PROVE  ThreadInv'
<1>1. /\ ThreadTypes /\ JobsFit /\ Heard /\ OneAnswerEach /\ Bounded /\ StandsAside
  BY DEF ThreadInv
<1>2. I!Written' = I!Written /\ \A k : I!Inbound(k)' = I!Inbound(k)
  BY DEF I!Written, I!Inbound
<1>3. ThreadTypes'
  BY <1>1, <1>2 DEF ThreadTypes
<1>4. JobsFit' /\ Heard'
  BY <1>1, <1>2 DEF JobsFit, Heard
<1>5. BySetter' = BySetter /\ ByOthers' = ByOthers
  BY <1>2 DEF BySetter, ByOthers
<1>6. OneAnswerEach' /\ Bounded' /\ StandsAside'
  BY <1>1, <1>2, <1>5 DEF OneAnswerEach, Bounded, StandsAside
<1>7. QED
  BY <1>3, <1>4, <1>6 DEF ThreadInv

\* The sweep turns to the next message, or is through.
LEMMA SweepTurns ==
  ASSUME ThreadInv, threadSweep.pc \in {"mirror", "anchor"},
         threadSweep' = I!SweepGoesTo(threadSweep.at + 1), threadThread' = threadThread
  PROVE  SweepFits'
<1>1. SweepFits /\ MaxWrites \in Nat /\ Len(threadThread) \in Nat
  BY ThreadNumbers DEF ThreadInv, Bounded
<1>2. /\ threadSweep.at \in 1..threadSweep.seen /\ threadSweep.seen \in I!Times
      /\ threadSweep.seen <= Len(threadThread) /\ threadSweep.missed <= Len(threadThread)
      /\ threadSweep.missed \in I!Times
  BY <1>1 DEF SweepFits
<1>3. threadSweep.seen \in Nat /\ threadSweep.seen <= 2 * MaxWrites
  BY <1>2, ThreadNumbers
<1>4. PICK place \in {"hand", "mirror"} :
        /\ threadSweep' = [threadSweep EXCEPT !.at = threadSweep.at + 1, !.pc = place]
        /\ place = "mirror" => ~ (threadSweep.at + 1 > threadSweep.seen)
  BY DEF I!SweepGoesTo
<1>5. threadSweep.at + 1 \in 0..(2 * MaxWrites + 1)
  BY <1>1, <1>2, <1>3
<1>6. place = "mirror" => threadSweep.at + 1 \in 1..threadSweep.seen
  BY <1>2, <1>3, <1>4
<1>7. /\ threadSweep'.pc = place /\ threadSweep'.at = threadSweep.at + 1
      /\ threadSweep'.seen = threadSweep.seen /\ threadSweep'.missed = threadSweep.missed
      /\ threadSweep' \in [pc : {"idle", "mirror", "anchor", "hand"}, seen : I!Times,
                           at : 0..(2 * MaxWrites + 1), missed : I!Times]
  BY <1>1, <1>4, <1>5 DEF SweepFits
<1>8. QED
  BY <1>2, <1>4, <1>6, <1>7 DEF SweepFits

LEMMA SweepKeeps ==
  ASSUME ThreadInv, I!Sweep
  PROVE  ThreadInv'
<1>1. ThreadTypes /\ SweepFits /\ Bounded /\ I!Written = 1..Len(threadThread)
  BY DEF ThreadInv, I!Written
<1>2. /\ threadSweep.seen \in Nat /\ threadSweep.missed \in Nat /\ threadSweep.at \in Nat
      /\ threadSweep.seen <= 2 * MaxWrites
      /\ Len(threadThread) \in Nat /\ Len(threadThread) <= 2 * MaxWrites
  <2>1. /\ threadSweep.seen \in I!Times /\ threadSweep.missed \in I!Times
        /\ threadSweep.at \in 0..(2 * MaxWrites + 1) /\ Len(threadThread) \in I!Times
    BY <1>1 DEF SweepFits, Bounded
  <2>2. MaxWrites \in Nat /\ I!Times \subseteq Nat /\ \A n \in I!Times : n <= 2 * MaxWrites
    BY ThreadNumbers
  <2>3. threadSweep.at \in Nat
    BY <2>1, <2>2
  <2>4. QED
    BY <2>1, <2>2, <2>3
<1>3. CASE I!SweepRead
  <2> DEFINE first == IF Len(threadThread) > PageSize THEN Len(threadThread) - PageSize + 1 ELSE 1
  <2>1. /\ threadThread # << >>
        /\ threadSweep' = [pc |-> "mirror", seen |-> Len(threadThread), at |-> first, missed |-> 0]
        /\ UNCHANGED <<threadThread, threadMirror, threadLastIn, threadLastOut, threadTakeover,
                       threadMode, threadJob, threadArmed, threadRow, threadPc, threadOn,
                       threadSnap, threadSent, threadBurst, threadQuiet, threadPatches>>
    BY <1>3 DEF I!SweepRead, I!conversation, I!slots
  <2>2. Len(threadThread) >= 1
    BY <1>1, <2>1 DEF ThreadTypes
  <2>3. first \in 1..Len(threadThread)
    BY <1>2, <2>2, DashboardBounds
  <2>4. /\ first \in 0..(2 * MaxWrites + 1) /\ Len(threadThread) \in I!Times /\ 0 \in I!Times
    BY <1>1, <1>2, <2>3, ThreadNumbers DEF Bounded
  <2> HIDE DEF first
  <2>5. SweepFits'
    BY <1>2, <2>1, <2>3, <2>4 DEF SweepFits
  <2>6. QED
    BY <1>1, <2>1, <2>5, SweepGoes DEF ThreadTypes
<1>4. CASE I!SweepMirror
  <2>1. /\ threadSweep.pc = "mirror"
        /\ UNCHANGED <<threadThread, threadLastIn, threadLastOut, threadTakeover,
                       threadMode, threadJob, threadArmed, threadRow, threadPc, threadOn,
                       threadSnap, threadSent, threadBurst, threadQuiet, threadPatches>>
    BY <1>4 DEF I!SweepMirror, I!conversation, I!slots
  <2>2. threadSweep.at \in 1..threadSweep.seen /\ threadSweep.seen <= Len(threadThread)
    BY <1>1, <2>1 DEF SweepFits
  <2>3. CASE /\ threadSweep' = I!SweepGoesTo(threadSweep.at + 1)
             /\ threadMirror' = threadMirror
    BY <1>1, <2>1, <2>3, SweepTurns, SweepGoes DEF ThreadTypes
  <2>4. CASE /\ threadMirror' = [threadMirror EXCEPT ![threadSweep.at] =
                                   IF I!Inbound(threadSweep.at) THEN "PARTICIPANT" ELSE "HUMAN"]
             /\ threadSweep' = [threadSweep EXCEPT !.pc = "anchor",
                                  !.missed = IF I!Inbound(threadSweep.at) THEN threadSweep.at ELSE 0]
    <3>1. threadMirror' \in [I!Mids -> I!Sources]
      BY <1>1, <2>4 DEF ThreadTypes, I!Sources
    <3>2. threadSweep.at \in I!Times /\ 0 \in I!Times /\ threadSweep.at <= Len(threadThread)
      BY <1>2, <2>2, ThreadNumbers
    <3>3. PICK n \in {threadSweep.at, 0} :
            threadSweep' = [threadSweep EXCEPT !.pc = "anchor", !.missed = n]
      BY <2>4
    <3>4. n \in I!Times /\ n <= Len(threadThread)
      BY <1>2, <3>2
    <3>5. /\ threadSweep'.pc = "anchor" /\ threadSweep'.at = threadSweep.at
          /\ threadSweep'.seen = threadSweep.seen /\ threadSweep'.missed = n
          /\ threadSweep' \in [pc : {"idle", "mirror", "anchor", "hand"}, seen : I!Times,
                               at : 0..(2 * MaxWrites + 1), missed : I!Times]
      BY <1>1, <3>3, <3>4 DEF SweepFits
    <3>6. SweepFits'
      BY <2>1, <2>2, <3>4, <3>5 DEF SweepFits
    <3>7. QED
      BY <1>1, <2>1, <3>1, <3>6, SweepGoes DEF ThreadTypes
  <2>5. QED
    BY <1>4, <2>3, <2>4 DEF I!SweepMirror
<1>5. CASE I!SweepAnchor
  <2>1. /\ threadSweep.pc = "anchor" /\ threadSweep' = I!SweepGoesTo(threadSweep.at + 1)
        /\ UNCHANGED <<threadThread, threadMirror, threadTakeover, threadMode, threadJob,
                       threadArmed, threadRow, threadPc, threadOn, threadSnap, threadSent,
                       threadBurst, threadQuiet, threadPatches>>
        /\ \/ threadLastIn' = threadSweep.at /\ threadLastOut' = threadLastOut
           \/ threadLastOut' = threadSweep.at /\ threadLastIn' = threadLastIn
    BY <1>5 DEF I!SweepAnchor, I!slots
  <2>2. threadSweep.at \in 1..threadSweep.seen
    BY <1>1, <2>1 DEF SweepFits
  <2>3. threadSweep.at \in I!Times /\ threadSweep.at # 0
    BY <1>2, <2>2, ThreadNumbers
  <2>4. /\ threadLastIn' \in I!Times /\ threadLastOut' \in I!Times
        /\ threadLastIn # 0 => threadLastIn' # 0
    BY <1>1, <2>1, <2>3 DEF ThreadTypes
  <2>5. SweepFits' /\ threadMirror' \in [I!Mids -> I!Sources]
    BY <1>1, <2>1, SweepTurns DEF ThreadTypes
  <2>6. QED
    BY <2>1, <2>4, <2>5, SweepGoes
<1>6. CASE I!SweepHandOver
  <2>1. /\ threadSweep' = I!NoSweep
        /\ UNCHANGED <<threadThread, threadMirror, threadLastIn, threadLastOut, threadTakeover,
                       threadMode, threadArmed, threadRow, threadPc, threadOn, threadSnap,
                       threadSent, threadBurst, threadQuiet, threadPatches>>
        /\ \/ threadJob' = threadJob
           \/ /\ threadSweep.missed # 0 /\ threadJob[threadSweep.missed] = "none"
              /\ threadJob' = [threadJob EXCEPT ![threadSweep.missed] = "waiting"]
    BY <1>6 DEF I!SweepHandOver, I!conversation, I!slots
  <2>2. SweepFits'
    BY <1>2, <2>1, ThreadNumbers DEF SweepFits, I!NoSweep
  <2>3. threadSweep.missed # 0 => threadSweep.missed \in I!Written
    BY <1>1, <1>2 DEF SweepFits
  <2>4. CASE threadJob' = threadJob
    BY <1>1, <2>1, <2>2, <2>4, SweepGoes DEF ThreadTypes
  <2>5. CASE /\ threadSweep.missed # 0 /\ threadJob[threadSweep.missed] = "none"
             /\ threadJob' = [threadJob EXCEPT ![threadSweep.missed] = "waiting"]
    BY <2>1, <2>2, <2>3, <2>5, Queues
  <2>6. QED
    BY <2>1, <2>4, <2>5
<1>7. QED
  BY <1>3, <1>4, <1>5, <1>6 DEF I!Sweep

-----------------------------------------------------------------------------
(* The thread of the setter: the theorems *)

\* The shared invariant of the thread: a slot has the job of its message to itself, the
\* setter answers a message of the prospect once and no more than there are, and what was
\* written under a takeover stays before the gates with a row that tells of it.
THEOREM ThreadInvariance == I!Spec => []ThreadInv
<1>1. I!Init => ThreadInv
  BY ThreadStarts
<1>2. ThreadInv /\ [I!Next]_(I!vars) => ThreadInv'
  <2> SUFFICES ASSUME ThreadInv, [I!Next]_(I!vars) PROVE ThreadInv'
    OBVIOUS
  <2>1. CASE UNCHANGED I!vars
    <3>1. UNCHANGED <<threadThread, threadMirror, threadLastIn, threadLastOut, threadTakeover,
                      threadMode, threadJob, threadArmed, threadRow, threadPc, threadOn,
                      threadSnap, threadSent, threadBurst, threadSweep, threadQuiet,
                      threadPatches>>
      BY <2>1 DEF I!vars, I!conversation, I!slots
    <3>2. SweepFits'
      BY <3>1 DEF ThreadInv, SweepFits
    <3>3. QED
      BY <3>1, <3>2, SweepGoes DEF ThreadInv, ThreadTypes
  <2>2. CASE I!Next
    <3>1. ASSUME NEW w \in Slots, I!Run(w) \/ I!GenerationFails(w) PROVE ThreadInv'
      BY <3>1, UpsertKeeps, MirrorKeeps, TakeOverKeeps, GatesKeep, DraftKeeps, DeliverDraftKeeps,
         SendKeeps, RecordKeeps DEF I!Run
    <3>2. QED
      BY <2>2, <3>1, WritingKeeps, SetModeKeeps, DeliverKeeps, TakeJobKeeps, SweepKeeps DEF I!Next
  <2>3. QED
    BY <2>1, <2>2
<1>3. QED
  BY <1>1, <1>2, PTL DEF I!Spec

\* Who adds to the thread.
LEMMA WhoSays ==
  ASSUME ThreadInv, I!Next, threadThread' # threadThread
  PROVE  \/ threadThread'[Len(threadThread')].by # "setter"
         \/ \E w \in Slots : /\ threadPc[w] = "send"
                             /\ threadThread'[Len(threadThread')].to = threadOn[w]
<1>1. I!ProspectWrites \/ I!OthersWrite \/ \E w \in Slots : I!Send(w)
  <2>1. ASSUME NEW w \in Slots, I!Run(w) \/ I!GenerationFails(w) PROVE I!Send(w)
    BY <2>1 DEF I!Run, I!Upsert, I!MirrorMessage, I!TakeOver, I!Arm, I!Gates, I!Debounce, I!Draft,
       I!GenerationFails, I!DeliverDraft, I!RecordReply, I!MarkSent
  <2>2. \A m : ~ I!SetMode(m) /\ ~ I!Deliver(m) /\ \A w : ~ I!TakeJob(w, m)
    BY DEF I!SetMode, I!Deliver, I!TakeJob
  <2>3. ~ I!Sweep
    BY DEF I!Sweep, I!SweepRead, I!SweepMirror, I!SweepAnchor, I!SweepHandOver
  <2>4. QED
    BY <2>1, <2>2, <2>3 DEF I!Next
<1>2. ASSUME I!ProspectWrites \/ I!OthersWrite
      PROVE  threadThread'[Len(threadThread')].by # "setter"
  <2>1. PICK by \in I!Authors : I!Say(by, 0) /\ by # "setter"
    BY <1>2 DEF I!ProspectWrites, I!OthersWrite, I!Authors
  <2>2. QED
    BY <2>1, SaidIs, ThreadNumbers
<1>3. ASSUME NEW w \in Slots, I!Send(w)
      PROVE  threadPc[w] = "send" /\ threadThread'[Len(threadThread')].to = threadOn[w]
  <2>1. threadPc[w] = "send" /\ I!Say("setter", threadOn[w])
    BY <1>3 DEF I!Send
  <2>2. "setter" \in I!Authors /\ threadOn[w] \in I!Times
    BY DEF I!Authors, ThreadInv, ThreadTypes
  <2>3. QED
    BY <2>1, <2>2, SaidIs
<1>4. QED
  BY <1>1, <1>2, <1>3

\* Nothing that was written under a recorded takeover is answered by the setter, however
\* the jobs, the echoes, the sweep and the owner's switches interleave.
THEOREM ThreadIsKept == I!Spec => ThreadHolds
<1>1. ThreadInv => I!TypeOK
  <2> SUFFICES ASSUME ThreadInv PROVE I!TypeOK
    OBVIOUS
  <2>1. threadQuiet \subseteq I!Mids
    BY ThreadNumbers DEF ThreadInv, ThreadTypes, Bounded, I!Written, I!Mids, I!Times
  <2>2. QED
    BY <2>1 DEF ThreadInv, ThreadTypes, SweepFits, Bounded, I!TypeOK, Messages, JobStates,
       RowStates, Snaps
<1>2. ThreadInv /\ [I!Next]_(I!vars) =>
        [I!SetterSays => threadThread'[Len(threadThread')].to \notin threadQuiet]_(I!vars)
  <2> SUFFICES ASSUME ThreadInv, I!Next, I!SetterSays
               PROVE  threadThread'[Len(threadThread')].to \notin threadQuiet
    OBVIOUS
  <2>1. threadThread' # threadThread /\ threadThread'[Len(threadThread')].by = "setter"
    BY DEF I!SetterSays
  <2>2. PICK w \in Slots : threadPc[w] = "send" /\ threadThread'[Len(threadThread')].to = threadOn[w]
    BY <2>1, WhoSays
  <2>3. threadPc[w] \in Past
    BY <2>2 DEF Past
  <2>4. QED
    BY <2>2, <2>3 DEF ThreadInv, StandsAside
<1>3. QED
  BY <1>1, <1>2, ThreadInvariance, PTL DEF I!Spec, ThreadHolds, I!ThreadHolds, I!SetterStepsAside

-----------------------------------------------------------------------------
(* The types of all parts *)

\* Every variable of every part of the dashboard has its type, whatever their steps.
THEOREM DashboardTypes == Spec /\ S!Spec /\ B!Spec /\ L!Spec => []TypesOK
BY InboxTypeCorrect, SetterIsKept, FormIsKept, ListIsKept, PTL DEF TypesOK
=============================================================================
