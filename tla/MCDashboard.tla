---------------------------- MODULE MCDashboard -----------------------------
(***************************************************************************)
(* The pages of the dashboard: the inbox, the setter's settings and        *)
(* drafts, the form of a campaign, the list of campaigns; the thread whose *)
(* switches the inbox has; and the two texts an owner gives, the file that *)
(* is imported and a campaign's keyword.  The parts share nothing but the  *)
(* server: a behaviour shows one, the others stay where they begin.        *)
(***************************************************************************)
EXTENDS Dashboard, SequencesExt, TLC

VARIABLES
  part,  \* which of them this behaviour shows
  comment, keyword,  \* growing character by character
  table  \* the rows of an importable file, growing by characters, cells and rows

K == INSTANCE KeywordMatcher WITH
  Letters <- {"a", "A", "b"}, LowerOf <- ("a" :> "a" @@ "A" :> "a" @@ "b" :> "b"),
  Emoji <- {"emoji"}, Signs <- {"sign"}

V == INSTANCE Csv WITH
  Comma <- "comma", Quote <- "quote", LF <- "lf", CR <- "cr", Blank <- " ",
  Letters <- {"x"}

textVars == <<comment, keyword, table>>

MaxTyped == 6  \* characters of the comment and the keyword

\* The keyword is typed first, then the comment.
Type ==
  /\ Len(comment) + Len(keyword) < MaxTyped
  /\ \E c \in K!Chars :
       \/ comment = <<>> /\ keyword' = Append(keyword, c) /\ UNCHANGED comment
       \/ comment' = Append(comment, c) /\ UNCHANGED keyword

Header == << <<"h">>, <<"x">> >>

MaxTable == 5  \* characters, cells and rows of the table, less its first two

TableSize ==
  LET Cells == FlattenSeq(table) IN Len(table) + Len(Cells) + Len(FlattenSeq(Cells)) - 2

\* The last cell grows, or a cell or a row comes behind it.
Write ==
  LET bottom == Last(table) IN
  /\ TableSize < MaxTable
  /\ \/ \E c \in V!Chars :
          table' = Front(table) \o
                     << Front(bottom) \o << Append(Last(bottom), c) >> >>
     \/ table' = Front(table) \o << Append(bottom, <<>>) >>
     \/ table' = Append(table, << <<>> >>)

MCInit ==
  /\ part \in {"inbox", "setter", "form", "list", "thread", "keyword", "file"}
  /\ Init /\ S!Init /\ B!Init /\ L!Init /\ I!Init
  /\ part = "inbox" \/ account = "a"
  /\ part = "setter" \/ setterAccount = "a"
  /\ part = "form" \/ formCampaigns[1].account = "a"
  /\ part = "thread" \/ threadMode = "AUTO"
  /\ comment = <<>> /\ keyword = <<>> /\ table = << << <<>> >> >>

\* A step of part p leaves the other parts alone.
Others(p) ==
  /\ UNCHANGED part
  /\ part = p
  /\ IF p = "inbox" THEN TRUE ELSE UNCHANGED vars
  /\ IF p = "setter" THEN TRUE ELSE UNCHANGED setterVars
  /\ IF p = "form" THEN TRUE ELSE UNCHANGED formVars
  /\ IF p = "list" THEN TRUE ELSE UNCHANGED listVars
  /\ IF p = "thread" THEN TRUE ELSE UNCHANGED threadVars
  /\ IF p = "keyword" THEN TRUE ELSE UNCHANGED <<comment, keyword>>
  /\ IF p = "file" THEN TRUE ELSE UNCHANGED table

MCNext ==
  \/ Others("inbox") /\ Next
  \/ Others("setter") /\ S!Next
  \/ Others("form") /\ B!Next
  \/ Others("list") /\ L!Next
  \/ Others("thread") /\ I!Next
  \/ Others("keyword") /\ Type
  \/ Others("file") /\ Write

MCSpec ==
  /\ MCInit
  /\ [][MCNext]_<<part, vars, setterVars, formVars, listVars, threadVars, textVars>>

-----------------------------------------------------------------------------
(* The two texts *)

\* A keyword is found exactly where its words are.
MatchIsByWords == part = "keyword" => K!IsByWords(comment, keyword)
\* What is written to a file is read back, cell by cell.
TableIsRecovered == part = "file" => V!IsRecovered(Header, table)

\* The accounts of the inbox's conversations.
MCAccountOf == "t1" :> "a" @@ "t2" :> "a" @@ "t3" :> "b"
\* Of the drafts, the posts, and the campaigns that are there.
MCReplyOwner == "r" :> "a"
MCPostOwner == "pa" :> "a" @@ "pb" :> "b"
MCOwners == <<"a", "b">>

\* Slots are alike.
Symmetry == Permutations(Slots)
=============================================================================
