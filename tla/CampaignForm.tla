---------------------------- MODULE CampaignForm ----------------------------
(***************************************************************************)
(* The campaign builder in one browser tab, and the import page that       *)
(* stages rows for it in the browser's storage.  Staged rows open in the   *)
(* builder one after another; each is saved as a campaign or skipped, and  *)
(* the storage holds the rows still to come, so that a reload resumes.  A  *)
(* save that is under way outlives the builder that made it: its answer    *)
(* writes the storage and navigates wherever the tab is by then.           *)
(*                                                                         *)
(* The fields that a row fills are one value, the row or the campaign they *)
(* were filled from, next to the post and the account picked.  Those that  *)
(* a row does not fill, the follow gate, the follow-up, the second link,   *)
(* the label of the first and the AI flag, are not modelled: they stay as  *)
(* the row before had them.                                                *)
(***************************************************************************)
EXTENDS Naturals, FiniteSets, Sequences

CONSTANTS
  Accounts,   \* connected Instagram accounts
  First,      \* the one the server offers where none is asked for
  Posts,      \* their posts
  OwnerOf,    \* OwnerOf[p]: the account of a post
  None,       \* no account, no post
  MaxRows,    \* bound on rows staged
  MaxSaves,   \* bound on campaigns, and on saves under way
  MaxClicks   \* bound on what the owner does

FormBounds ==
  /\ First \in Accounts /\ OwnerOf \in [Posts -> Accounts]
  /\ None \notin Accounts \cup Posts
  /\ {MaxRows, MaxSaves, MaxClicks} \subseteq Nat

VARIABLES
  place,      \* what the tab shows: "list", "import", "builder", or "leaving" the builder
  form,       \* the builder's state
  asked,      \* reads under way of the builder that is shown
  saves,      \* saves under way
  stored,     \* the browser's storage: the rows to come, and their account
  campaigns,  \* the Automation rows, in the order they were made
  rows,       \* how many rows were staged so far (observation)
  staged,     \* rows of the last import, while no earlier save can touch it (observation)
  skipped,    \* rows skipped (observation)
  doubtful,   \* rows whose save the tab may not know of, or may put back (observation)
  clicks

watched == <<rows, staged, skipped, doubtful>>
vars == <<place, form, asked, saves, stored, campaigns, watched, clicks>>

Set(s) == {s[i] : i \in 1..Len(s)}
Blank == 0            \* fields filled by hand; rows are numbered from 1 on
Old == MaxRows + 1    \* the fields of a campaign that was there before
Nothing == [queue |-> <<>>, account |-> None]
Effective(account) == IF account = None THEN First ELSE account

\* The builder as it opens.
Form == [queue |-> <<>>, edited |-> 0, loading |-> FALSE, saving |-> FALSE, content |-> Blank,
         account |-> None, post |-> None, astray |-> FALSE, known |-> FALSE,
         library |-> None, broken |-> FALSE, used |-> {}, made |-> {}, early |-> FALSE]

Ask(kind, account, cached) == [kind |-> kind, account |-> account, cached |-> cached, seen |-> <<>>]
Click == clicks < MaxClicks /\ clicks' = clicks + 1
Shown == place \in {"builder", "leaving"} /\ ~ form.loading

Init ==
  /\ place = "list"
  /\ form = Form
  /\ asked = {} /\ saves = {}
  /\ stored = Nothing
  /\ \E p \in Posts : campaigns = <<[content |-> Old, account |-> OwnerOf[p], post |-> p,
                                    astray |-> FALSE]>>
  /\ rows = 0 /\ staged = {} /\ skipped = {} /\ doubtful = {}
  /\ clicks = 0

-----------------------------------------------------------------------------
(* Pages *)

\* The effects of an account: the posts to pick from, which are there at once if they
\* are cached, and the posts in use.  The picker is not there while a campaign loads.
Asks(account, cached) ==
  {Ask("library", Effective(account), cached)}
    \cup (IF account = None THEN {} ELSE {Ask("used", account, FALSE)})

\* The builder opens, on a campaign to edit or on the first row of a queue.
Opens(queue, account, edited, cached) ==
  /\ place' = "builder"
  /\ form' = [Form EXCEPT !.queue = queue, !.edited = edited, !.loading = edited # 0,
                          !.content = IF queue = <<>> THEN Blank ELSE Head(queue),
                          !.account = account,
                          !.library = IF cached /\ edited = 0 THEN Effective(account) ELSE None]
  /\ asked' = {Ask("accounts", First, FALSE)}
                \cup (IF edited = 0 THEN Asks(account, cached) ELSE {Ask("campaign", First, FALSE)})

Resumes(edited, cached) ==
  IF edited = 0 /\ stored.queue # <<>>
    THEN Opens(stored.queue, stored.account, 0, cached)
    ELSE Opens(<<>>, None, edited, cached)

OpenBuilder(edited, cached) ==
  /\ Click /\ place = "list"
  /\ Resumes(edited, cached)
  /\ UNCHANGED <<saves, stored, campaigns, watched>>

\* After a reload nobody waits for the saves under way.
Reload(cached) ==
  /\ Click /\ place \in {"builder", "leaving"}
  /\ Resumes(form.edited, cached)
  /\ saves' = {[s EXCEPT !.reader = "none"] : s \in saves}
  /\ doubtful' = doubtful \cup {s.content : s \in saves}
  /\ UNCHANGED <<stored, campaigns, rows, staged, skipped>>

\* What a save may do once its builder is gone: make a campaign the tab does not show,
\* and, when the tab takes its answer, put the rows after it back into the storage.
AtStake(s) == {s.content} \cup (IF s.reader = "none" THEN {} ELSE Set(s.queue))

\* A link, or the end of router.push: the answers of the builder's reads go nowhere,
\* those of its saves to the tab.
GoTo(page) ==
  /\ place # page
  /\ IF place = "leaving" THEN page = "list" /\ UNCHANGED clicks ELSE Click
  /\ place' = page
  /\ form' = Form
  /\ asked' = {}
  /\ saves' = {IF s.reader = "none" THEN s ELSE [s EXCEPT !.reader = "tab"] : s \in saves}
  /\ doubtful' = doubtful \cup UNION {AtStake(s) : s \in saves}
  /\ UNCHANGED <<stored, campaigns, rows, staged, skipped>>

\* startImport: the rows of the file replace those stored, and open in the builder.
\* The account chosen is stored, if the page has loaded one by now; if not, what is
\* there stays.
StartImport(n, account, cached) ==
  /\ Click /\ place = "import" /\ rows + n <= MaxRows
  /\ LET queue == [i \in 1..n |-> rows + i]
         kept == IF account = None THEN stored.account ELSE account
     IN  /\ stored' = [queue |-> queue, account |-> kept]
         /\ staged' = IF \A s \in saves : s.reader = "none" THEN Set(queue) ELSE {}
         /\ Opens(queue, kept, 0, cached)
  /\ rows' = rows + n
  /\ UNCHANGED <<saves, campaigns, skipped, doubtful>>

-----------------------------------------------------------------------------
(* The builder's reads *)

\* The list of campaigns is read; its answer may arrive much later.
Read(a) ==
  /\ a \in asked /\ a.kind \in {"used", "campaign"} /\ a.seen = <<>>
  /\ asked' = (asked \ {a}) \cup {[a EXCEPT !.seen = campaigns]}
  /\ UNCHANGED <<place, form, saves, stored, campaigns, watched, clicks>>

\* The posts in use on the selected account, but for the campaign being edited.
UsedArrives(a) ==
  /\ a.kind = "used" /\ a.seen # <<>>
  /\ form' = [form EXCEPT !.used =
       {a.seen[c].post : c \in {c \in 1..Len(a.seen) : a.seen[c].account = a.account
                                                         /\ c # form.edited}} \ {None}]
  /\ asked' = asked \ {a}

\* The campaign to edit fills the form, which is hidden until then.
CampaignArrives(a) ==
  /\ a.kind = "campaign" /\ a.seen # <<>>
  /\ LET c == a.seen[form.edited] IN
       /\ form' = [form EXCEPT !.loading = FALSE, !.content = c.content, !.account = c.account,
                               !.post = c.post, !.astray = c.astray]
       /\ asked' = {b \in asked : \/ b.kind = "accounts"
                                  \/ b.kind = "used" /\ b.account = c.account}
                     \cup {b \in Asks(c.account, FALSE) :
                             b.kind = "used" => c.account # form.account}

\* The accounts: the first is selected, if none is.
AccountsArrive(a) ==
  /\ a.kind = "accounts"
  /\ form' = [form EXCEPT !.known = TRUE, !.account = Effective(@)]
  /\ asked' = IF form.account # None THEN asked \ {a}
                ELSE {b \in asked : b.kind = "campaign"}
                       \cup {b \in Asks(First, FALSE) : form.loading => b.kind = "used"}

LibraryArrives(a) ==
  /\ a.kind = "library"
  /\ form' = [form EXCEPT !.library = a.account]
  /\ asked' = asked \ {a}

\* A read fails.  Without its campaign an edit never begins; without a cached library
\* the picker shows an error from then on, whatever arrives later.
Fails(a) ==
  /\ form' = [form EXCEPT !.broken = @ \/ (a.kind = "library" /\ ~ a.cached)]
  /\ asked' = asked \ {a}

Arrive(a) ==
  /\ a \in asked
  /\ UsedArrives(a) \/ CampaignArrives(a) \/ AccountsArrive(a) \/ LibraryArrives(a) \/ Fails(a)
  /\ UNCHANGED <<place, saves, stored, campaigns, watched, clicks>>

-----------------------------------------------------------------------------
(* The form *)

\* A slip: the post stays picked.
SelectAccountOnly(account, cached) ==
  /\ Click /\ Shown /\ form.known /\ account # form.account
  /\ form' = [form EXCEPT !.account = account, !.made = {}, !.early = FALSE,
                          !.library = IF cached THEN account ELSE @]
  /\ asked' = {a \in asked : a.kind = "accounts"} \cup Asks(account, cached)
  /\ UNCHANGED <<place, saves, stored, campaigns, watched>>

\* Another account is selected: the post picked is dropped, and what was asked for
\* the account before is cancelled.  Its posts stay in the picker until others come.
SelectAccount(account, cached) ==
  /\ Click /\ Shown /\ form.known /\ account # form.account
  /\ form' = [form EXCEPT !.account = account, !.post = None, !.astray = FALSE,
                          !.made = {}, !.early = FALSE,
                          !.library = IF cached THEN account ELSE @]
  /\ asked' = {a \in asked : a.kind = "accounts"} \cup Asks(account, cached)
  /\ UNCHANGED <<place, saves, stored, campaigns, watched>>

\* handlePostSelect.
PickPost(p) ==
  /\ Click /\ Shown /\ ~ form.broken /\ form.library = OwnerOf[p] /\ form.post # p
  /\ form' = [form EXCEPT !.post = p, !.astray = OwnerOf[p] # Effective(form.account)]
  /\ UNCHANGED <<place, asked, saves, stored, campaigns, watched>>

\* What handleSubmit sends, and the queue its closure holds.
Payload(post) ==
  [content |-> form.content, account |-> form.account, post |-> post,
   astray |-> post # None /\ form.astray, edited |-> form.edited, queue |-> form.queue,
   state |-> "sent", reader |-> "builder", number |-> Cardinality(saves)]

\* A slip: the row leaves the storage when its save is asked for.
SubmitAndAdvance(post) ==
  /\ Click /\ Shown /\ ~ form.saving /\ form.account # None /\ Cardinality(saves) < MaxSaves
  /\ post \in {form.post, None}
  /\ form' = [form EXCEPT !.saving = TRUE]
  /\ stored' = IF form.queue = <<>> THEN stored ELSE [stored EXCEPT !.queue = Tail(form.queue)]
  /\ saves' = saves \cup {Payload(post)}
  /\ UNCHANGED <<place, asked, campaigns, watched>>

\* A slip: the buttons stay enabled.
SubmitAgain(post) ==
  /\ Click /\ Shown /\ form.account # None /\ Cardinality(saves) < MaxSaves
  /\ post \in {form.post, None}
  /\ form' = [form EXCEPT !.saving = TRUE]
  /\ saves' = saves \cup {Payload(post)}
  /\ UNCHANGED <<place, asked, stored, campaigns, watched>>

\* A slip: the form is there while the campaign loads.
SubmitEarly(post) ==
  /\ Click /\ place = "builder" /\ ~ form.saving /\ form.account # None
  /\ Cardinality(saves) < MaxSaves
  /\ post \in {form.post, None}
  /\ form' = [form EXCEPT !.saving = TRUE]
  /\ saves' = saves \cup {Payload(post)}
  /\ UNCHANGED <<place, asked, stored, campaigns, watched>>

\* handleSubmit up to its request, for the post picked or (any post, or the next one)
\* for none.  The buttons are back while the tab leaves the builder.
Submit(post) ==
  /\ Click /\ Shown /\ ~ form.saving /\ form.account # None /\ Cardinality(saves) < MaxSaves
  /\ post \in {form.post, None}
  /\ form' = [form EXCEPT !.saving = TRUE]
  /\ saves' = saves \cup {Payload(post)}
  /\ doubtful' = IF place = "leaving" THEN doubtful \cup {form.content} ELSE doubtful
  /\ UNCHANGED <<place, asked, stored, campaigns, rows, staged, skipped>>

\* The campaign that a save leaves.  PATCH does not know of accounts: the one that
\* was selected in the form is dropped, while the post picked from it is written.
Made(s) ==
  LET account == IF s.edited = 0 THEN s.account ELSE campaigns[s.edited].account
  IN  [content |-> s.content, account |-> account, post |-> s.post,
       astray |-> s.astray \/ (s.post # None /\ s.account # account)]

\* POST or PATCH automations, as Campaigns has them; or a refusal.
Handle(s) ==
  /\ s \in saves /\ s.state = "sent"
  /\ \/ /\ IF s.edited = 0
             THEN Len(campaigns) < MaxSaves /\ campaigns' = Append(campaigns, Made(s))
             ELSE campaigns' = [campaigns EXCEPT ![s.edited] = Made(s)]
        /\ saves' = (saves \ {s}) \cup {[s EXCEPT !.state = "done"]}
     \/ /\ saves' = (saves \ {s}) \cup {[s EXCEPT !.state = "refused"]}
        /\ UNCHANGED campaigns
  /\ UNCHANGED <<place, form, asked, stored, watched, clicks>>

\* prefillFromRow: the fields of the next row, without a post.
Advanced(queue) ==
  [form EXCEPT !.saving = FALSE, !.queue = queue, !.content = Head(queue),
               !.post = None, !.astray = FALSE]

\* A slip: the post just assigned is not flagged.
Unflagged(f, s) ==
  [f EXCEPT !.made = IF s.account = form.account THEN @ \cup ({s.post} \ {None}) ELSE @]

\* The post just assigned is flagged, next to those in use.
Flagged(f, s) ==
  IF s.post = None THEN f
    ELSE [f EXCEPT !.used = @ \cup {s.post},
                   !.made = IF s.account = form.account THEN @ \cup {s.post} ELSE @,
                   !.early = @ \/ \E a \in asked : a.kind = "used"]

\* A slip: the list is there before the builder is gone.
PushAtOnce == place' = "list"

\* router.push to the list, from wherever the tab is.
Push == place' = IF place \in {"builder", "leaving"} THEN "leaving" ELSE "list"

\* handleSubmit after its answer: the storage gets the rows after the one saved, and
\* the builder the next of them; or the tab leaves for the list.
Saved(s) ==
  /\ s \in saves /\ s.state = "done" /\ s.reader # "none"
  /\ saves' = saves \ {s}
  /\ IF Len(s.queue) > 1
       THEN /\ stored' = [stored EXCEPT !.queue = Tail(s.queue)]
            /\ form' = IF s.reader = "builder" THEN Flagged(Advanced(Tail(s.queue)), s) ELSE form
            /\ UNCHANGED place
       ELSE /\ stored' = IF s.queue = <<>> THEN stored ELSE Nothing
            /\ form' = IF s.reader = "builder" THEN Flagged([form EXCEPT !.saving = FALSE], s)
                                               ELSE form
            /\ Push
  /\ UNCHANGED <<asked, campaigns, watched, clicks>>

\* A refusal, or an answer lost; or one that nobody waits for.
Unsaved(s) ==
  /\ s \in saves /\ (s.state = "sent" => s.reader # "none")
  /\ saves' = saves \ {s}
  /\ form' = IF s.reader = "builder" THEN [form EXCEPT !.saving = FALSE] ELSE form
  /\ doubtful' = IF s.state = "done" THEN doubtful \cup {s.content} ELSE doubtful
  /\ UNCHANGED <<place, asked, stored, campaigns, rows, staged, skipped, clicks>>

\* skipRow.
SkipRow ==
  /\ Click /\ Shown /\ ~ form.saving /\ form.queue # <<>>
  /\ skipped' = skipped \cup {Head(form.queue)}
  /\ IF Len(form.queue) > 1
       THEN /\ stored' = [stored EXCEPT !.queue = Tail(form.queue)]
            /\ form' = Advanced(Tail(form.queue))
            /\ UNCHANGED place
       ELSE /\ stored' = Nothing
            /\ Push
            /\ UNCHANGED form
  /\ UNCHANGED <<asked, saves, campaigns, rows, staged, doubtful>>

Next ==
  \/ \E edited \in {0, 1}, cached \in BOOLEAN : OpenBuilder(edited, cached)
  \/ \E cached \in BOOLEAN : Reload(cached)
  \/ \E page \in {"list", "import"} : GoTo(page)
  \/ \E n \in 1..MaxRows, account \in Accounts \cup {None}, cached \in BOOLEAN :
       StartImport(n, account, cached)
  \/ \E a \in asked : Read(a) \/ Arrive(a)
  \/ \E account \in Accounts, cached \in BOOLEAN : SelectAccount(account, cached)
  \/ \E p \in Posts : PickPost(p)
  \/ \E post \in Posts \cup {None} : Submit(post)
  \/ \E s \in saves : Handle(s) \/ Saved(s) \/ Unsaved(s)
  \/ SkipRow

Spec == Init /\ [][Next]_vars

-----------------------------------------------------------------------------
(* Properties *)

\* Every variable has its type.
TypeOK ==
  /\ place \in {"list", "import", "builder", "leaving"}
  /\ form.account \in Accounts \cup {None} /\ form.used \subseteq Posts
  /\ place \in {"list", "import"} => form = Form /\ asked = {}
  /\ \A s \in saves : s.reader \in {"builder", "tab", "none"}
  /\ Set(stored.queue) \subseteq 1..rows

\* No row of an import is lost: it is a campaign, was skipped, or is still stored, by
\* whatever reloads, refusals and lost answers the import comes.
RowsAreKept ==
  \A r \in staged : \/ r \in Set(stored.queue) \cup skipped
                    \/ \E c \in 1..Len(campaigns) : campaigns[c].content = r

\* A row makes one campaign, unless its save was under way when the builder was left
\* or reloaded, its answer was lost, it was saved once more on the way out, or it came
\* after one whose save was under way when the builder was left: the answer puts the
\* rows after it back, those too that were saved meanwhile.
OnceEach ==
  \A r \in 1..rows : r \notin doubtful =>
    Cardinality({c \in 1..Len(campaigns) : campaigns[c].content = r}) <= 1

\* A campaign's post is one of its own account's, unless it was picked while the
\* picker still showed another account's, or an edit was saved with another account
\* selected, which the save does not write.
PostIsOwn ==
  \A c \in 1..Len(campaigns) : LET k == campaigns[c] IN
    k.post # None /\ ~ k.astray => OwnerOf[k.post] = k.account

\* A post that this builder has given to a campaign is flagged on the rows that
\* follow, unless the list of posts in use was under way when it was saved.
UsedIsFlagged == form.early \/ form.made \subseteq form.used

\* An edit leaves a campaign's fields as they were loaded, and writes no other's.
EditKeepsFields ==
  [][\A c \in 1..Len(campaigns) : campaigns'[c].content = campaigns[c].content]_campaigns

\* An import makes each of its rows one campaign, of its own account's post, and
\* says of a post that it has one.
FormHolds == RowsAreKept /\ OnceEach /\ PostIsOwn /\ UsedIsFlagged
=============================================================================
