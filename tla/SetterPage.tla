----------------------------- MODULE SetterPage -----------------------------
(***************************************************************************)
(* The AI setter's page in one browser tab, and the handlers it calls: the *)
(* settings form of the selected account, and the cards of the drafts that *)
(* wait for the owner.  The form keeps what it holds until an answer fills *)
(* it, whichever account the answer is of; a save writes the form to the   *)
(* account selected by then.  Between an approval and its answer the       *)
(* handler reads, claims, sends and records, while other requests do too.  *)
(* A behaviour is shorter than the two minutes after which the sweep takes *)
(* a draft from a handler that died (ReplyDelivery has it).                *)
(*                                                                         *)
(* Settings are two fields, the mode, which can be set at any time, and    *)
(* the rest, which is hidden while the settings load.  A value is known by *)
(* the account it was chosen for and a number that tells edits apart.      *)
(***************************************************************************)
EXTENDS Naturals, FiniteSets

CONSTANTS
  Accounts,   \* connected Instagram accounts
  Replies,    \* drafts of the setter
  OwnerOf,    \* OwnerOf[r]: the account a draft belongs to
  Nobody,     \* the defaults of the form belong to no account
  MaxClicks,  \* bound on what the owner does
  MaxFlying   \* bound on requests under way

DraftsHaveAccounts == OwnerOf \in [Replies -> Accounts]
NobodyIsNobody == Nobody \notin Accounts
PageBounds == {MaxClicks, MaxFlying} \subseteq Nat

VARIABLES
  account,   \* selectedAccountId
  form,      \* form
  loading,   \* configLoading
  saving,    \* saving
  saveState, \* saveState
  feed,      \* feed[r]: the status shown of a draft, or "ABSENT"
  busy,      \* busy[r]: the action its card waits for, by number, 0 for none
  flying,    \* requests under way
  config,    \* config[a]: the AiSetterConfig row
  status,    \* status[r]: the AiReplyLog row
  sends,     \* sends[r]: how often the draft went out
  lost,      \* drafts of which a send has no recorded outcome (observation)
  dropped,   \* drafts dismissed while no send of them was under way (observation)
  clicks,    \* what the owner has done so far, and the number of the last edit
  hasty      \* the owner went on before an answer, or a load was refused
             \* (observation)

formVars == <<account, form, loading, saving, saveState>>
feedVars == <<feed, busy, status, sends, lost, dropped>>
vars == <<formVars, feedVars, flying, config, clicks, hasty>>

Value(a, n) == [of |-> a, n |-> n]
Settings(mode, rest) == [mode |-> mode, rest |-> rest]
Default == Settings(Value(Nobody, 0), Value(Nobody, 0))
Held == {"HELD", "FAILED"}
Claimable == Held \cup {"PENDING"}
Statuses == {"HELD", "SENDING", "SENT", "FAILED", "DISMISSED"}

\* An action goes from "act" to "decided" or "refused"; was is the status it read.
ActKinds == {"act", "dismiss", "send", "claim", "sending", "accepted", "decided", "refused"}
Sending == {"sending", "accepted"}

Request(kind, a) == [kind |-> kind, account |-> a, sent |-> Default]
Action(x, action, n) == [kind |-> "act", account |-> account, reply |-> x,
                         action |-> action, was |-> "HELD", n |-> n]
Snapshot(a) == [r \in Replies |-> IF OwnerOf[r] = a THEN status[r] ELSE "ABSENT"]

Fly(requests) ==
  /\ Cardinality(flying \cup requests) <= MaxFlying
  /\ flying' = flying \cup requests
Click == clicks < MaxClicks /\ clicks' = clicks + 1
OnItsWay(x) == \E r \in flying : r.kind \in Sending /\ r.reply = x
Settling == \E r \in flying : r.kind \in {"load", "save", "saved"}

Init ==
  /\ account \in Accounts
  /\ form = Default
  /\ loading = TRUE /\ saving = FALSE /\ saveState = "idle"
  /\ feed = [r \in Replies |-> "ABSENT"]
  /\ busy = [r \in Replies |-> 0]
  /\ flying = {Request("load", account), Request("feed", account)}
  /\ config = [a \in Accounts |-> Settings(Value(a, 0), Value(a, 0))]
  /\ status = [r \in Replies |-> "HELD"]
  /\ sends = [r \in Replies |-> 0]
  /\ lost = {} /\ dropped = {}
  /\ clicks = 0
  /\ hasty = FALSE

-----------------------------------------------------------------------------
(* The form *)

\* A slip: the word "Saved." stays when another account is selected.
SelectAccountSaved(a) ==
  /\ Click /\ a # account
  /\ account' = a /\ loading' = TRUE
  /\ hasty' = (hasty \/ Settling)
  /\ Fly({Request("load", a), Request("feed", a)})
  /\ UNCHANGED <<form, saving, saveState, feedVars, config>>

\* The effects of a new account: its settings and its drafts are asked for.  The
\* form keeps what it holds.
SelectAccount(a) ==
  /\ Click /\ a # account
  /\ account' = a /\ loading' = TRUE /\ saveState' = "idle"
  /\ hasty' = (hasty \/ Settling)
  /\ Fly({Request("load", a), Request("feed", a)})
  /\ UNCHANGED <<form, saving, feedVars, config>>

\* Only the mode is there while settings load.
Editable(field) == field = "mode" \/ ~ loading

\* update: a field of the form.
Update(field) ==
  /\ Click
  /\ Editable(field)
  /\ form' = [form EXCEPT ![field] = Value(account, clicks + 1)]
  /\ saveState' = "idle"
  /\ hasty' = (hasty \/ Settling)
  /\ UNCHANGED <<account, loading, saving, feedVars, flying, config>>

\* A slip: the button is there while settings load.
HandleSaveAlways ==
  /\ Click /\ ~ saving
  /\ saving' = TRUE /\ saveState' = "idle"
  /\ Fly({[Request("save", account) EXCEPT !.sent = form]})
  /\ UNCHANGED <<account, form, loading, feedVars, config, hasty>>

\* handleSave up to its request; the button is hidden while settings load.
HandleSave ==
  /\ Click /\ ~ saving /\ ~ loading
  /\ saving' = TRUE /\ saveState' = "idle"
  /\ Fly({[Request("save", account) EXCEPT !.sent = form]})
  /\ UNCHANGED <<account, form, loading, feedVars, config, hasty>>

\* The answer of GET config, or its failure: in both cases the form appears.
Loaded(r, ok) ==
  /\ r \in flying /\ r.kind = "load"
  /\ flying' = flying \ {r}
  /\ loading' = FALSE
  /\ form' = IF ok THEN config[r.account] ELSE form
  /\ hasty' = (hasty \/ ~ ok)
  /\ UNCHANGED <<account, saving, saveState, feedVars, config, clicks>>

\* PUT config writes the row of the account that was selected at the click.
Write(r) ==
  /\ r \in flying /\ r.kind = "save"
  /\ config' = [config EXCEPT ![r.account] = r.sent]
  /\ flying' = (flying \ {r}) \cup {[r EXCEPT !.kind = "saved"]}
  /\ UNCHANGED <<formVars, feedVars, clicks, hasty>>

\* Its answer; a save is refused, or its answer lost after it was written.
Saved(r) ==
  /\ r \in flying /\ r.kind \in {"save", "saved"}
  /\ \/ r.kind = "saved" /\ saveState' = "saved"
     \/ saveState' = "error"
  /\ flying' = flying \ {r}
  /\ saving' = FALSE
  /\ UNCHANGED <<account, form, loading, feedVars, config, clicks, hasty>>

-----------------------------------------------------------------------------
(* The cards *)

\* The interval of loadReplies, and onRefresh.
Poll ==
  /\ Request("feed", account) \notin flying
  /\ Fly({Request("feed", account)})
  /\ UNCHANGED <<formVars, feedVars, config, clicks, hasty>>

\* GET replies reads the rows; its answer may arrive much later.
Read(r) ==
  /\ r \in flying /\ r.kind = "feed"
  /\ flying' = (flying \ {r}) \cup {[kind |-> "page", account |-> r.account,
                                     rows |-> Snapshot(r.account)]}
  /\ UNCHANGED <<formVars, feedVars, config, clicks, hasty>>

\* A card that is no longer held is unmounted, and its busy flag with it.
Show(r) ==
  /\ r \in flying /\ r.kind = "page"
  /\ flying' = flying \ {r}
  /\ feed' = r.rows
  /\ busy' = [x \in Replies |-> IF r.rows[x] = "HELD" THEN busy[x] ELSE 0]
  /\ UNCHANGED <<formVars, status, sends, lost, dropped, config, clicks, hasty>>

\* A load of the drafts fails: the cards stay.
Unshown(r) ==
  /\ r \in flying /\ r.kind \in {"feed", "page"}
  /\ flying' = flying \ {r}
  /\ UNCHANGED <<formVars, feedVars, config, clicks, hasty>>

\* act of a card that is shown and not busy.
Act(x, action) ==
  /\ Click /\ feed[x] = "HELD" /\ busy[x] = 0
  /\ busy' = [busy EXCEPT ![x] = clicks + 1]
  /\ Fly({Action(x, action, clicks + 1)})
  /\ UNCHANGED <<formVars, feed, status, sends, lost, dropped, config, hasty>>

-----------------------------------------------------------------------------
(* POST replies/[id] *)

Becomes(r, kind) == flying' = (flying \ {r}) \cup {[r EXCEPT !.kind = kind]}
Put(r, value) == status' = [status EXCEPT ![r.reply] = value]
Serving == UNCHANGED <<formVars, feed, busy, config, clicks, hasty>>

\* The row is read and looked at: an approval wants a held or failed draft, a
\* dismissal any but a sent one.
ReadRow(r) ==
  /\ r \in flying /\ r.kind = "act"
  /\ \/ r.action = "approve" /\ status[r.reply] \in Held /\ Becomes(r, "send")
     \/ r.action = "approve" /\ status[r.reply] \notin Held /\ Becomes(r, "refused")
     \/ r.action = "dismiss" /\ status[r.reply] # "SENT" /\ Becomes(r, "dismiss")
     \/ r.action = "dismiss" /\ status[r.reply] = "SENT" /\ Becomes(r, "refused")
  /\ Serving /\ UNCHANGED <<status, sends, lost, dropped>>

\* A dismissal is written whatever the row is by then.
WriteDismissed(r) ==
  /\ r \in flying /\ r.kind = "dismiss"
  /\ Put(r, "DISMISSED")
  /\ dropped' = IF OnItsWay(r.reply) \/ status[r.reply] = "SENDING"
                  THEN dropped ELSE dropped \cup {r.reply}
  /\ Becomes(r, "decided")
  /\ Serving /\ UNCHANGED <<sends, lost>>

\* sendAiReply reads the row once more, for the status a refusal will restore.
ReadPrevious(r) ==
  /\ r \in flying /\ r.kind = "send"
  /\ flying' = (flying \ {r}) \cup
                 {[r EXCEPT !.kind = "claim", !.was = status[r.reply]]}
  /\ Serving /\ UNCHANGED <<status, sends, lost, dropped>>

\* A slip: the claim does not ask for the status.
ClaimBlindly(r) ==
  /\ r \in flying /\ r.kind = "claim"
  /\ Put(r, "SENDING") /\ Becomes(r, "sending")
  /\ Serving /\ UNCHANGED <<sends, lost, dropped>>

\* The conditional claim: one handler gets the draft, the others a conflict.
Claim(r) ==
  /\ r \in flying /\ r.kind = "claim"
  /\ \/ /\ status[r.reply] \in Claimable
        /\ Put(r, "SENDING") /\ Becomes(r, "sending")
     \/ /\ status[r.reply] \notin Claimable
        /\ Becomes(r, "refused")
        /\ UNCHANGED status
  /\ Serving /\ UNCHANGED <<sends, lost, dropped>>

\* A spent quota or a full window gives the claim back, if the row still has it;
\* an error of Meta writes the former status whatever the row has become.
Refuse(r) ==
  /\ r \in flying /\ r.kind = "sending"
  /\ Put(r, r.was) \/ (status[r.reply] # "SENDING" /\ UNCHANGED status)
  /\ Becomes(r, "refused")
  /\ Serving /\ UNCHANGED <<sends, lost, dropped>>

\* The message is on Instagram.
Accept(r) ==
  /\ r \in flying /\ r.kind = "sending"
  /\ sends' = [sends EXCEPT ![r.reply] = @ + 1]
  /\ Becomes(r, "accepted")
  /\ Serving /\ UNCHANGED <<status, lost, dropped>>

\* The call gave no answer, or what came after it failed: the draft is held with a
\* warning, or stays SENDING if that fails too.
Quarantine(r) ==
  /\ r \in flying /\ r.kind \in Sending
  /\ Put(r, "HELD") \/ UNCHANGED status
  /\ lost' = lost \cup {r.reply}
  /\ Becomes(r, "refused")
  /\ Serving /\ UNCHANGED <<sends, dropped>>

RecordSent(r) ==
  /\ r \in flying /\ r.kind = "accepted"
  /\ Put(r, "SENT") /\ Becomes(r, "decided")
  /\ Serving /\ UNCHANGED <<sends, lost, dropped>>

\* The card that waits for the action is free again.
Free(r) == busy' = [busy EXCEPT ![r.reply] = IF @ = r.n THEN 0 ELSE @]

\* The answer comes: after a success the drafts of the account of the card's
\* render are asked for.
Answer(r) ==
  /\ r \in flying
  /\ \/ r.kind = "decided" /\ flying' = (flying \ {r}) \cup {Request("feed", r.account)}
     \/ r.kind = "refused" /\ flying' = flying \ {r}
  /\ Free(r)
  /\ UNCHANGED <<formVars, feed, status, sends, lost, dropped, config, clicks, hasty>>

\* The connection breaks, while the handler goes on: an error for the card.
Break(r) ==
  /\ r \in flying /\ r.kind \in ActKinds
  /\ Free(r)
  /\ UNCHANGED <<formVars, feed, status, sends, lost, dropped, flying, config, clicks, hasty>>

Next ==
  \/ \E a \in Accounts : SelectAccount(a)
  \/ \E field \in {"mode", "rest"} : Update(field)
  \/ HandleSave \/ Poll
  \/ \E x \in Replies, action \in {"approve", "dismiss"} : Act(x, action)
  \/ \E r \in flying :
       \/ \E ok \in BOOLEAN : Loaded(r, ok)
       \/ Write(r) \/ Saved(r) \/ Read(r) \/ Show(r) \/ Unshown(r)
       \/ ReadRow(r) \/ WriteDismissed(r) \/ ReadPrevious(r) \/ Claim(r)
       \/ Refuse(r) \/ Accept(r) \/ Quarantine(r) \/ RecordSent(r)
       \/ Answer(r) \/ Break(r)

Spec == Init /\ [][Next]_vars

-----------------------------------------------------------------------------
(* Properties *)

\* Every variable has its type.
TypeOK ==
  /\ account \in Accounts
  /\ {loading, saving, hasty} \subseteq BOOLEAN
  /\ saveState \in {"idle", "saved", "error"}
  /\ lost \cup dropped \subseteq Replies
  /\ \A a \in Accounts : {config[a].mode.of, config[a].rest.of} \subseteq Accounts \cup {Nobody}
  /\ \A r \in Replies : status[r] \in Statuses /\ {busy[r], sends[r]} \subseteq Nat

\* Settings chosen for one account never get into the row of another, as long as
\* the owner waits for each answer and no load of settings is refused.  (He need
\* not, and then they do: the form is not reset, and no answer is checked.)
OwnSettings ==
  ~ hasty => \A a \in Accounts : config[a].mode.of = a /\ config[a].rest.of = a

\* "Saved." stands beside settings that are in the row of the account selected,
\* for the owner who waits.
SavedIsTrue == ~ hasty /\ saveState = "saved" => config[account] = form

\* Whatever late answers and broken connections bring back to the screen: a draft
\* goes out once, unless the outcome of a send was lost, and one that was dismissed
\* while no send was under way stays dismissed and does not go out any more.  (A
\* dismissal that crosses a send may be written over by it, and stops nothing.)
StaleCardIsHarmless ==
  /\ \A x \in Replies : sends[x] > 1 => x \in lost
  /\ \A x \in dropped : status[x] = "DISMISSED" /\ ~ OnItsWay(x)

\* What the page saves, says and sends is what its owner chose.
SetterHolds == OwnSettings /\ SavedIsTrue /\ StaleCardIsHarmless
=============================================================================
