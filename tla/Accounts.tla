------------------------------ MODULE Accounts ------------------------------
(***************************************************************************)
(* One Instagram account, the workspaces that connect and disconnect it,   *)
(* and the daily cron that refreshes its token.  A callback checks that    *)
(* the account is free, subscribes it and writes the row; the cron reads   *)
(* the row, asks Meta for a new token and writes it by id: between a read  *)
(* and its write anything may happen to the row.                           *)
(*                                                                         *)
(* Tokens are numbered as Meta issues them.  Removing the app at Instagram *)
(* makes every token issued so far invalid.                                *)
(***************************************************************************)
EXTENDS Naturals, FiniteSets

CONSTANTS
  Workspaces,  \* each with one user, who may manage it
  Nowhere,     \* the account is not connected
  Life,        \* days a long-lived token is good for, 60 at Meta
  Margin,      \* DAYS_BEFORE_EXPIRY
  MaxTokens    \* bound on tokens

NowhereIsNoWorkspace == Nowhere \notin Workspaces
TokenBounds == {Life, Margin, MaxTokens} \subseteq Nat
MarginWithinLife == 0 < Margin /\ Margin < Life

VARIABLES
  manages,    \* workspaces whose user is an owner or admin
  row,        \* the InstagramAccount row
  id,         \* its id: a row made anew has another
  issued,     \* tokens issued so far
  dead,       \* tokens up to this one are invalid
  pc, req,    \* the callback of each workspace, and what it has read
  cron, read, \* the cron, and the row and token it has in hand
  refused,    \* passes that did not renew the token, up to Margin (observation)
  undone,     \* the cron wrote its token over a newer one (observation)
  removed     \* the app was removed since the account was connected (observation)

meta == <<issued, dead>>
refresh == <<cron, read, refused, undone, removed>>
vars == <<manages, row, id, meta, pc, req, refresh>>

NoRequest == [token |-> 0, saw |-> Nowhere, subscribed |-> FALSE]
NoRow == [ws |-> Nowhere, token |-> 0, left |-> 0, subscribed |-> FALSE]
Connected == row.ws # Nowhere
Valid(token) == token > dead

Init ==
  /\ manages = Workspaces
  /\ row = NoRow /\ id = 0
  /\ issued = 0 /\ dead = 0
  /\ pc = [w \in Workspaces |-> "away"]
  /\ req = [w \in Workspaces |-> NoRequest]
  /\ cron = "due" /\ read = [id |-> 0, token |-> 0]
  /\ refused = 0
  /\ undone = FALSE /\ removed = FALSE

-----------------------------------------------------------------------------
(* Connecting *)

Goto(w, place) == pc' = [pc EXCEPT ![w] = place]
Away(w) == Goto(w, "away") /\ req' = [req EXCEPT ![w] = NoRequest]

\* GET connect: the browser is sent to Instagram with a signed state.
Connect(w) ==
  /\ w \in manages /\ pc[w] = "away"
  /\ Goto(w, "Instagram")
  /\ UNCHANGED <<manages, row, id, meta, req, refresh>>

\* The owner refuses, or verifyOAuthState the state, after ten minutes.
Expire(w) ==
  /\ pc[w] = "Instagram"
  /\ Away(w)
  /\ UNCHANGED <<manages, row, id, meta, refresh>>

\* The user is removed or demoted.
Demote(w) ==
  /\ w \in manages
  /\ manages' = manages \ {w}
  /\ UNCHANGED <<row, id, meta, pc, req, refresh>>

\* GET callback: the state, the role, and the code exchanged for a token.
Callback(w) ==
  /\ pc[w] = "Instagram" /\ issued < MaxTokens
  /\ IF w \in manages
       THEN /\ issued' = issued + 1
            /\ Goto(w, "check")
            /\ req' = [req EXCEPT ![w].token = issued + 1]
       ELSE Away(w) /\ UNCHANGED issued
  /\ UNCHANGED <<manages, row, id, dead, refresh>>

\* A slip: whoever comes last has the account.
CheckNothing(w) ==
  /\ pc[w] = "check"
  /\ Goto(w, "subscribe")
  /\ req' = [req EXCEPT ![w].saw = row.ws]
  /\ UNCHANGED <<manages, row, id, meta, refresh>>

\* canConnectInstagramAccount: free, or this workspace's own.
Check(w) ==
  /\ pc[w] = "check"
  /\ IF row.ws \in {Nowhere, w}
       THEN /\ Goto(w, "subscribe")
            /\ req' = [req EXCEPT ![w].saw = row.ws]
       ELSE Away(w)
  /\ UNCHANGED <<manages, row, id, meta, refresh>>

\* The subscription may fail; the account is connected all the same.
Subscribe(w) ==
  /\ pc[w] = "subscribe"
  /\ \E ok \in BOOLEAN :
       /\ ok => Valid(req[w].token)
       /\ req' = [req EXCEPT ![w].subscribed = ok]
  /\ Goto(w, "write")
  /\ UNCHANGED <<manages, row, id, meta, refresh>>

\* A slip: without a subscription the row keeps the token it has.
WriteSubscribed(w) ==
  /\ pc[w] = "write"
  /\ row' = [ws |-> w, token |-> IF req[w].subscribed THEN req[w].token ELSE row.token,
             left |-> Life, subscribed |-> req[w].subscribed]
  /\ id' = IF Connected THEN id ELSE id + 1
  /\ refused' = 0 /\ undone' = FALSE
  /\ removed' = ~ Valid(req[w].token)
  /\ Away(w)
  /\ UNCHANGED <<manages, meta, cron, read>>

\* The upsert by instagramId: an existing row keeps its id and its campaigns, and
\* takes the workspace of the callback.
Write(w) ==
  /\ pc[w] = "write"
  /\ row' = [ws |-> w, token |-> req[w].token, left |-> Life, subscribed |-> req[w].subscribed]
  /\ id' = IF Connected THEN id ELSE id + 1
  /\ refused' = 0 /\ undone' = FALSE
  /\ removed' = ~ Valid(req[w].token)
  /\ Away(w)
  /\ UNCHANGED <<manages, meta, cron, read>>

\* Meta or a query fails: the settings page says so, and nothing is written.
Fails(w) ==
  /\ pc[w] \in {"check", "subscribe", "write"}
  /\ Away(w)
  /\ UNCHANGED <<manages, row, id, meta, refresh>>

\* POST disconnect: campaigns and logs go with the row.
Disconnect(w) ==
  /\ w \in manages /\ row.ws = w
  /\ row' = NoRow
  /\ refused' = 0 /\ undone' = FALSE /\ UNCHANGED removed
  /\ UNCHANGED <<manages, id, meta, pc, req, cron, read>>

\* The owner removes the app at Instagram.
RemoveApp ==
  /\ dead < issued
  /\ dead' = issued /\ removed' = TRUE
  /\ UNCHANGED <<manages, row, id, issued, pc, req, cron, read, refused, undone>>

-----------------------------------------------------------------------------
(* The daily refresh *)

\* The pass is over.
Done == cron' = "done" /\ read' = [id |-> 0, token |-> 0]

\* A slip: the token of the last day of the margin waits for tomorrow.
PickLate ==
  /\ cron = "due"
  /\ IF Connected /\ row.left < Margin
       THEN cron' = "ask" /\ read' = [id |-> id, token |-> row.token]
       ELSE Done
  /\ UNCHANGED <<manages, row, id, meta, pc, req, refused, undone, removed>>

\* The accounts whose token ends within the margin, or has ended.
Pick ==
  /\ cron = "due"
  /\ IF Connected /\ row.left <= Margin
       THEN cron' = "ask" /\ read' = [id |-> id, token |-> row.token]
       ELSE Done
  /\ UNCHANGED <<manages, row, id, meta, pc, req, refused, undone, removed>>

\* Meta gives a new token for a valid one, unless something fails on the way; a
\* failure is an operational event, and the next day tries again.
Ask ==
  /\ cron = "ask"
  /\ \/ /\ Valid(read.token) /\ issued < MaxTokens
        /\ issued' = issued + 1
        /\ read' = [read EXCEPT !.token = issued + 1]
        /\ cron' = "store"
        /\ UNCHANGED refused
     \/ /\ Done
        /\ refused' = IF Connected /\ read.id = id /\ refused < Margin THEN refused + 1
                                                                   ELSE refused
        /\ UNCHANGED issued
  /\ UNCHANGED <<manages, row, id, dead, pc, req, undone, removed>>

\* The update by id, or its failure when the row is gone.
Store ==
  /\ cron = "store" /\ Done
  /\ IF Connected /\ read.id = id
       THEN /\ row' = [row EXCEPT !.token = read.token, !.left = Life]
            /\ undone' = (undone \/ row.token > read.token)
            /\ refused' = 0
       ELSE UNCHANGED <<row, refused, undone>>
  /\ UNCHANGED <<manages, id, meta, pc, req, removed>>

\* The schedule runs the cron once a day.
NextDay ==
  /\ cron = "done"
  /\ cron' = "due"
  /\ row' = [row EXCEPT !.left = IF @ > 0 THEN @ - 1 ELSE 0]
  /\ UNCHANGED <<manages, id, meta, pc, req, read, refused, undone, removed>>

Next ==
  \/ \E w \in Workspaces :
       \/ Connect(w) \/ Expire(w) \/ Demote(w) \/ Callback(w) \/ Check(w)
       \/ Subscribe(w) \/ Write(w) \/ Fails(w) \/ Disconnect(w)
  \/ RemoveApp \/ Pick \/ Ask \/ Store \/ NextDay

Spec == Init /\ [][Next]_vars

-----------------------------------------------------------------------------
(* Properties *)

\* Every variable has its type.
TypeOK ==
  /\ row.ws \in Workspaces \cup {Nowhere} /\ row.left \in 0..Life
  /\ row.token <= issued /\ dead <= issued
  /\ \A w \in Workspaces : pc[w] \in {"away", "Instagram", "check", "subscribe", "write"}
  /\ cron \in {"due", "ask", "store", "done"}

\* A connected account passes to another workspace only by a connection that was
\* allowed when the account was not yet there.
AccountStays ==
  [][Connected /\ row'.ws \notin {row.ws, Nowhere}
       => \E w \in Workspaces : pc[w] = "write" /\ row'.ws = w /\ req[w].saw # row.ws]_vars

\* The token of the row is good as long as the app has not been removed since the
\* account was connected, unless a refresh that had begun before the connection
\* put its token over the new one.
TokenIsGood == Connected /\ ~ removed /\ ~ undone => Valid(row.token)

\* A token runs out only after as many passes as the margin has days were refused.
MarginIsKept == Connected /\ row.left = 0 => refused >= Margin

\* The token works, and it does not run out for one refused pass.
TokenHolds == TokenIsGood /\ MarginIsKept
=============================================================================
