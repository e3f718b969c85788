----------------------------- MODULE Campaigns -----------------------------
(***************************************************************************)
(* The campaigns of a connected account, and the requests that change      *)
(* them: created in the builder, imported from a file, edited, deleted or  *)
(* listed by the dashboard, and bound to the next reel by a cron.  Each    *)
(* query is a step, so that requests interleave between a row read and the *)
(* row written by its id.  A request for a campaign of another workspace,  *)
(* or by a member who may not manage, ends at its first query: Members.    *)
(*                                                                         *)
(* Media are numbered in the order they were posted.  A link is its id,    *)
(* the URL it leads to and the time it was made: links are listed in the   *)
(* order of that time, which the two of one create share.  The other       *)
(* columns of a campaign are one update and are left out.                  *)
(***************************************************************************)
EXTENDS Naturals, Sequences, FiniteSets

CONSTANTS
  Requests,      \* requests to the server, each used once
  MaxCampaigns,  \* bound on campaigns
  MaxMedia,      \* bound on posts and reels
  Window         \* media that getUserMedia returns, 25 in the code

CampaignBounds ==
  /\ {MaxCampaigns, MaxMedia, Window} \subseteq Nat \ {0}
  /\ {"no one", "several"} \cap Requests = {}  \* these two stand for no request

VARIABLES
  rows,       \* the Automation rows in the order of their creation
  connected,  \* the InstagramAccount row exists
  media,      \* media[i]: whether what was posted i-th is a reel
  links,      \* TrackedLink rows made so far
  slugs,      \* report slugs made so far
  pc,         \* pc[q]: where request q is
  req         \* req[q]: what it asks and what it has read

state == <<rows, connected, media, links, slugs>>
vars == <<state, pc, req>>

Ids == 1..Len(rows)
Live(c) == c \in Ids /\ rows[c].live

\* triggerScope: a post, any post, or the next reel.
Post(p) == [post |-> p, any |-> FALSE, next |-> FALSE]
AnyPost == [post |-> 0, any |-> TRUE, next |-> FALSE]
NextReel == [post |-> 0, any |-> FALSE, next |-> TRUE]
Targets == {AnyPost, NextReel} \cup {Post(p) : p \in 1..Len(media)}

Idle == [c |-> 0, target |-> AnyPost, primary |-> "keep", secondary |-> "keep", before |-> <<>>,
         link |-> 0, posts |-> <<>>, used |-> {}, todo |-> {}, seen |-> 0, reels |-> {}]

\* A row.  Its last five fields are observations: the request it came from, the
\* post its file named, the last request that wrote its links or target, the reel
\* it was bound to and the media posted by then, and whether that undid an edit.
Row(target, urls, q, imported) ==
  [live |-> TRUE, target |-> target, slug |-> slugs + 1, born |-> Len(media),
   links |-> [i \in 1..Len(urls) |-> [id |-> links + i, url |-> urls[i], made |-> links + 1]],
   from |-> q, imported |-> imported, by |-> q, bound |-> <<0, 0>>, raced |-> FALSE]

Goto(q, place) == pc' = [pc EXCEPT ![q] = place]
End(q) == Goto(q, "done") /\ req' = [req EXCEPT ![q] = Idle]

\* A campaign that someone made before reports had slugs, with two links, made with
\* it or the second by a later edit.
Init ==
  /\ media = <<FALSE>> /\ links = 2 /\ slugs = 0
  /\ \E later \in {1, 2} :
       rows = <<[Row(Post(1), <<>>, "no one", 0) EXCEPT !.slug = 0,
                   !.links = <<[id |-> 1, url |-> "u", made |-> 1],
                               [id |-> 2, url |-> "v", made |-> later]>>]>>
  /\ connected = TRUE
  /\ pc = [q \in Requests |-> "new"]
  /\ req = [q \in Requests |-> Idle]

-----------------------------------------------------------------------------
(* Creating *)

\* The URLs given, of the two a request may carry: an empty one is none.
Given(primary, secondary) ==
  LET first == IF primary = "empty" THEN <<>> ELSE <<primary>> IN
    IF secondary = "empty" THEN first ELSE Append(first, secondary)

Insert(row) ==
  /\ rows' = Append(rows, row)
  /\ slugs' = slugs + 1
  /\ links' = links + Len(row.links)

\* POST: the account is read, and the campaign written with its links at once.
Create(q, target, urls) ==
  /\ pc[q] = "new" /\ Len(rows) < MaxCampaigns
  /\ End(q)
  /\ IF connected THEN Insert(Row(target, urls, q, 0))
                  ELSE UNCHANGED <<rows, slugs, links>>
  /\ UNCHANGED <<connected, media>>

\* POST import: the posts that have a campaign are read once, for all rows.
ImportRead(q, posts) ==
  /\ pc[q] = "new" /\ connected
  /\ Goto(q, "import")
  /\ req' = [req EXCEPT ![q].posts = posts,
                        ![q].used = {rows[c].target.post : c \in {d \in Ids : Live(d)}}]
  /\ UNCHANGED state

\* A slip: a row does not see the rows before it in the file.
ImportRowAlone(q) ==
  /\ pc[q] = "import" /\ req[q].posts # <<>> /\ Len(rows) < MaxCampaigns
  /\ req' = [req EXCEPT ![q].posts = Tail(@)]
  /\ IF Head(req[q].posts) \in req[q].used THEN UNCHANGED <<rows, slugs, links>>
     ELSE Insert(Row(Post(Head(req[q].posts)), <<>>, q, Head(req[q].posts)))
  /\ UNCHANGED <<connected, media, pc>>

\* One row of the file, skipped when its post is taken.  Without the account the
\* insert violates a foreign key, and the request ends there.
ImportRow(q) ==
  /\ pc[q] = "import" /\ req[q].posts # <<>> /\ Len(rows) < MaxCampaigns
  /\ LET p == Head(req[q].posts) IN
       \/ /\ p \in req[q].used
          /\ req' = [req EXCEPT ![q].posts = Tail(@)]
          /\ UNCHANGED <<rows, slugs, links, pc>>
       \/ /\ p \notin req[q].used /\ connected
          /\ Insert(Row(Post(p), <<>>, q, p))
          /\ req' = [req EXCEPT ![q].posts = Tail(@), ![q].used = @ \cup {p}]
          /\ UNCHANGED pc
       \/ /\ p \notin req[q].used /\ ~ connected
          /\ End(q)
          /\ UNCHANGED <<rows, slugs, links>>
  /\ UNCHANGED <<connected, media>>

ImportEnds(q) ==
  /\ pc[q] = "import" /\ req[q].posts = <<>>
  /\ End(q) /\ UNCHANGED state

-----------------------------------------------------------------------------
(* Editing: the builder sends its target and both links, the list neither *)

\* PATCH up to the update of the row, for the queries before it write nothing.
\* The form was filled from the row some time ago: its target may be any.
Update(q, c, target, primary, secondary) ==
  /\ pc[q] = "new" /\ c \in Ids
  /\ IF Live(c)
       THEN /\ rows' = [rows EXCEPT ![c].target = target, ![c].by = q]
            /\ Goto(q, "primary")
            /\ req' = [req EXCEPT ![q].c = c, ![q].primary = primary,
                                  ![q].secondary = secondary, ![q].before = rows[c].links]
       ELSE End(q) /\ UNCHANGED rows
  /\ UNCHANGED <<connected, media, links, slugs>>

\* The links a query finds, and those it may list first and second: the order is
\* that of their times alone, and of links made at one time any may come first.
Own(q) == IF Live(req[q].c) THEN rows[req[q].c].links ELSE <<>>
Oldest(own, some) == {i \in some : \A j \in some : own[i].made <= own[j].made}
Firsts(own) == Oldest(own, DOMAIN own)
Seconds(own) == UNION {Oldest(own, DOMAIN own \ {k}) : k \in Firsts(own)}

\* The first link or the second is read by its query, and is none if there are fewer.
ReadLink(q, place, next, choices) ==
  /\ pc[q] = place
  /\ \E id \in IF choices = {} THEN {0} ELSE {Own(q)[i].id : i \in choices} :
       req' = [req EXCEPT ![q].link = id]
  /\ Goto(q, next)
  /\ UNCHANGED state

Without(own, i) == [j \in 1..Len(own) - 1 |-> IF j < i THEN own[j] ELSE own[j + 1]]
Touch(row, q) == [row EXCEPT !.by = IF @ = q THEN q ELSE "several"]
Has(c, id) == Live(c) /\ \E i \in DOMAIN rows[c].links : rows[c].links[i].id = id

\* The write that follows: an empty URL deletes the link, another replaces its
\* URL, and without a link one is created.  A write to a row that is gone throws.
WriteLink(q, place, next, asked) ==
  LET c == req[q].c
      id == req[q].link
      Set(own) == rows' = [rows EXCEPT ![c] = [Touch(@, q) EXCEPT !.links = own]]
  IN
  /\ pc[q] = place
  /\ \/ /\ asked = "empty" /\ id = 0
        /\ Goto(q, next) /\ UNCHANGED <<rows, links, req>>
     \/ /\ asked = "empty" /\ Has(c, id)
        /\ \E i \in DOMAIN rows[c].links :
             rows[c].links[i].id = id /\ Set(Without(rows[c].links, i))
        /\ Goto(q, next) /\ UNCHANGED <<links, req>>
     \/ /\ asked # "empty" /\ Has(c, id)
        /\ Set([i \in DOMAIN rows[c].links |->
                  IF rows[c].links[i].id = id THEN [rows[c].links[i] EXCEPT !.url = asked]
                                              ELSE rows[c].links[i]])
        /\ Goto(q, next) /\ UNCHANGED <<links, req>>
     \/ /\ asked # "empty" /\ id = 0 /\ Live(c)
        /\ Set(Append(rows[c].links, [id |-> links + 1, url |-> asked, made |-> links + 1]))
        /\ links' = links + 1
        /\ Goto(q, next) /\ UNCHANGED req
     \/ /\ IF id = 0 THEN asked # "empty" /\ ~ Live(c) ELSE ~ Has(c, id)
        /\ End(q) /\ UNCHANGED <<rows, links>>
  /\ UNCHANGED <<connected, media, slugs>>

\* The list's toggle sends no links: nothing more is done for it.
Untouched(q) ==
  /\ pc[q] = "primary" /\ req[q].primary = "keep"
  /\ End(q) /\ UNCHANGED state

\* A slip: the second link is looked for at the place of the first.
ReadSecondAtFirst(q) == ReadLink(q, "secondary", "write second", Firsts(Own(q)))

ReadPrimary(q) ==
  req[q].primary # "keep" /\ ReadLink(q, "primary", "write first", Firsts(Own(q)))

WritePrimary(q) == WriteLink(q, "write first", "secondary", req[q].primary)

ReadSecond(q) == ReadLink(q, "secondary", "write second", Seconds(Own(q)))

WriteSecond(q) == WriteLink(q, "write second", "answer", req[q].secondary)

Answer(q) == pc[q] = "answer" /\ End(q) /\ UNCHANGED state

\* DELETE: the links, the logs and the clicks go with the row.
Delete(q, c) ==
  /\ pc[q] = "new" /\ c \in Ids
  /\ End(q)
  /\ rows' = [rows EXCEPT ![c].live = FALSE, ![c].links = <<>>]
  /\ UNCHANGED <<connected, media, links, slugs>>

\* POST disconnect: the campaigns of the account go with it.
Disconnect ==
  /\ connected
  /\ connected' = FALSE
  /\ rows' = [c \in Ids |-> [rows[c] EXCEPT !.live = FALSE, !.links = <<>>]]
  /\ UNCHANGED <<media, links, slugs, pc, req>>

-----------------------------------------------------------------------------
(* Listing: a campaign without a report slug is given one *)

\* A slip: every campaign is given a new slug.
ListAll(q) ==
  /\ pc[q] = "new"
  /\ Goto(q, "list")
  /\ req' = [req EXCEPT ![q].todo = {c \in Ids : Live(c)}, ![q].seen = slugs]
  /\ UNCHANGED state

\* GET: the rows are read, and those without a slug are to be updated.
List(q) ==
  /\ pc[q] = "new"
  /\ Goto(q, "list")
  /\ req' = [req EXCEPT ![q].todo = {c \in Ids : Live(c) /\ rows[c].slug = 0},
                        ![q].seen = slugs]
  /\ UNCHANGED state

\* The updates run side by side.  That of a deleted campaign fails, and with it the
\* answer, but the others have been sent and run on.
Slug(q, c) ==
  /\ pc[q] = "list" /\ c \in req[q].todo
  /\ req' = [req EXCEPT ![q].todo = @ \ {c}]
  /\ IF Live(c) THEN /\ rows' = [rows EXCEPT ![c].slug = slugs + 1]
                     /\ slugs' = slugs + 1
                ELSE UNCHANGED <<rows, slugs>>
  /\ UNCHANGED <<connected, media, links, pc>>

Listed(q) == pc[q] = "list" /\ req[q].todo = {} /\ End(q) /\ UNCHANGED state

-----------------------------------------------------------------------------
(* The cron that binds campaigns to the next reel *)

\* Instagram publishes a post or a reel.
Publish(isReel) ==
  /\ Len(media) < MaxMedia
  /\ media' = Append(media, isReel)
  /\ UNCHANGED <<rows, connected, links, slugs, pc, req>>

\* GET attach-next-reel: the campaigns that wait are read once.
Pending(q) ==
  /\ pc[q] = "new"
  /\ Goto(q, "media")
  /\ req' = [req EXCEPT ![q].todo = {c \in Ids : Live(c) /\ rows[c].target.next}]
  /\ UNCHANGED state

\* The last media of the account, or a refusal: then it is skipped.
Media(q) ==
  /\ pc[q] = "media"
  /\ \/ /\ Goto(q, "bind")
        /\ req' = [req EXCEPT ![q].seen = Len(media), ![q].reels =
                      {i \in DOMAIN media : media[i] /\ i + Window > Len(media)}]
     \/ End(q)
  /\ UNCHANGED state

Earliest(reels) == CHOOSE i \in reels : \A j \in reels : i <= j

\* A slip: the campaign stays among those that wait.
BindAgain(q) ==
  /\ pc[q] = "bind" /\ req[q].todo # {}
  /\ LET c == Earliest(req[q].todo)
         after == {i \in req[q].reels : i > rows[c].born}
     IN rows' = [rows EXCEPT ![c].target.post = IF after = {} THEN @ ELSE Earliest(after)]
  /\ req' = [req EXCEPT ![q].todo = @ \ {Earliest(@)}]
  /\ UNCHANGED <<connected, media, links, slugs, pc>>

\* A slip: Instagram lists the newest first, and so is the reel taken.
BindNewest(q) ==
  /\ pc[q] = "bind" /\ req[q].todo # {}
  /\ LET c == Earliest(req[q].todo)
         after == {i \in req[q].reels : i > rows[c].born}
         r == CHOOSE i \in after : \A j \in after : i >= j
     IN IF after = {} \/ ~ Live(c) THEN UNCHANGED rows
        ELSE rows' = [rows EXCEPT ![c].target = [Post(r) EXCEPT !.any = rows[c].target.any],
                                  ![c].bound = <<r, req[q].seen>>]
  /\ req' = [req EXCEPT ![q].todo = @ \ {Earliest(@)}]
  /\ UNCHANGED <<connected, media, links, slugs, pc>>

\* The earliest reel after the campaign was created is its post from now on,
\* whatever its row says by now.  A row that is gone ends the pass.
Bind(q) ==
  /\ pc[q] = "bind" /\ req[q].todo # {}
  /\ LET c == Earliest(req[q].todo)
         after == {i \in req[q].reels : i > rows[c].born}
         r == Earliest(after)
     IN
       \/ /\ after = {}
          /\ req' = [req EXCEPT ![q].todo = @ \ {c}]
          /\ UNCHANGED <<rows, pc>>
       \/ /\ after # {} /\ Live(c)
          /\ rows' = [rows EXCEPT ![c] = [Touch(rows[c], q) EXCEPT
                        !.target = [@ EXCEPT !.post = r, !.next = FALSE],
                        !.bound = <<r, req[q].seen>>,
                        !.raced = @ \/ ~ rows[c].target.next]]
          /\ req' = [req EXCEPT ![q].todo = @ \ {c}]
          /\ UNCHANGED pc
       \/ /\ after # {} /\ ~ Live(c)
          /\ End(q) /\ UNCHANGED rows
  /\ UNCHANGED <<connected, media, links, slugs>>

Bound(q) == pc[q] = "bind" /\ req[q].todo = {} /\ End(q) /\ UNCHANGED state

Next ==
  \/ \E q \in Requests :
       \/ \E target \in Targets, primary \in {"empty", "w"}, secondary \in {"empty", "x"} :
            Create(q, target, Given(primary, secondary))
       \/ \E i, j \in DOMAIN media : ImportRead(q, <<i, j>>)
       \/ ImportRow(q) \/ ImportEnds(q)
       \/ \E c \in Ids, target \in Targets,
             primary \in {"empty", "w"}, secondary \in {"empty", "x"} :
            Update(q, c, target, primary, secondary)
       \/ \E c \in Ids : Live(c) /\ Update(q, c, rows[c].target, "keep", "keep")
       \/ Untouched(q) \/ ReadPrimary(q) \/ WritePrimary(q)
       \/ ReadSecond(q) \/ WriteSecond(q) \/ Answer(q)
       \/ \E c \in Ids : Delete(q, c) \/ Slug(q, c)
       \/ List(q) \/ Listed(q)
       \/ Pending(q) \/ Media(q) \/ Bind(q) \/ Bound(q)
  \/ Disconnect
  \/ \E isReel \in BOOLEAN : Publish(isReel)

Spec == Init /\ [][Next]_vars

-----------------------------------------------------------------------------
(* Properties *)

\* Every variable has its type.
TypeOK ==
  /\ Len(rows) <= MaxCampaigns /\ Len(media) <= MaxMedia
  /\ connected \in BOOLEAN
  /\ \A c \in Ids : /\ rows[c].target.post \in 0..Len(media)
                    /\ \A i \in DOMAIN rows[c].links : rows[c].links[i].id \in 1..links
                    /\ rows[c].slug \in 0..slugs

\* A campaign has one target, a post, any post or the next reel, unless the cron
\* bound it after an edit had taken it off the list of those that wait.
OneTarget ==
  \A c \in Ids : Live(c) /\ ~ rows[c].raced =>
    LET t == rows[c].target IN
      Cardinality({k \in {"post", "any", "next"} :
                     CASE k = "post" -> t.post # 0 [] k = "any" -> t.any [] OTHER -> t.next}) = 1

\* The cron binds a campaign to the first reel posted after it was created, or,
\* when more was posted since than a page of media holds, to the first of the page.
BoundIsNext ==
  \A c \in Ids : rows[c].bound[1] # 0 =>
    /\ rows[c].bound[1] > rows[c].born
    /\ \A i \in DOMAIN media : media[i] /\ rows[c].born < i /\ i < rows[c].bound[1] =>
         i + Window <= rows[c].bound[2]

\* An edit that no other request came between: it is at its answer, and the campaign
\* it is about was last written by it.
Undisturbed(q) == pc[q] = "answer" /\ Live(req[q].c) /\ rows[req[q].c].by = q
Tied(own) == Len(own) = 2 /\ own[1].made = own[2].made

\* The links of a campaign are those its last edit asked for, if no other request
\* came between its steps.  Not so when it clears the first of two links: then the
\* second takes its place before it is looked for.  Nor when two edits at once had
\* made a third link: no edit gets to that one.  Nor when one create had made the
\* two: either may be found as the first, and the same one as the second.
ButtonsAsAsked ==
  \A q \in Requests :
    LET r == req[q] IN
    Undisturbed(q) /\ Len(r.before) <= 2 /\ ~ Tied(r.before)
      /\ ~ (r.primary = "empty" /\ Len(r.before) = 2)
    => [i \in DOMAIN rows[r.c].links |-> rows[r.c].links[i].url]
         = Given(r.primary, r.secondary)

\* The second link is at index 1 of the list in the order of creation, and the first
\* at index 0: an edit that gives a campaign's two links a URL each leaves both there.
SecondIsNotFirst ==
  \A q \in Requests :
    LET r == req[q] IN
    Undisturbed(q) /\ Len(r.before) = 2 /\ {r.primary, r.secondary} \cap {"keep", "empty"} = {}
    => \A url \in {r.primary, r.secondary} :
         \E i \in DOMAIN rows[r.c].links : rows[r.c].links[i].url = url

\* An empty URL clears the link it is given for.
ClearedIsGone ==
  \A q \in Requests :
    Undisturbed(q) /\ req[q].primary = "empty" /\ req[q].secondary = "empty"
    => rows[req[q].c].links = <<>>

\* The report URL of a campaign is replaced only by a list that began before the
\* campaign had one.
SlugStays ==
  [][\A c \in Ids : rows[c].slug # 0 /\ rows'[c].slug # rows[c].slug =>
       \E q \in Requests : c \in req[q].todo /\ req[q].seen < rows[c].slug]_vars

\* Two rows of one file never make two campaigns for a post.
FileRowsApart ==
  \A c, d \in Ids : c # d /\ rows[c].imported # 0 /\ rows[c].from = rows[d].from
                    => rows[c].imported # rows[d].imported

\* What the routes, the import and the cron keep of a campaign between them: one
\* target, its own reel, the links its last edit asked for, and one row of a file.
CampaignsHold == OneTarget /\ BoundIsNext /\ ButtonsAsAsked /\ FileRowsApart
=============================================================================
