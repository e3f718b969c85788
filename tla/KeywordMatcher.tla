--------------------------- MODULE KeywordMatcher ---------------------------
(***************************************************************************)
(* Whether a comment or a story reply contains a campaign's keyword.       *)
(* Texts are sequences of characters, of which the code tells five kinds   *)
(* apart: lower and upper case of a letter, blanks, emoji, and all other   *)
(* signs, letters outside ASCII among them.                                *)
(***************************************************************************)
EXTENDS Naturals, Sequences, SequencesExt

CONSTANTS
  Letters,   \* ASCII letters, digits and the underscore
  LowerOf,   \* LowerOf[c]: the lower case of a letter
  Emoji,     \* characters of the emoji ranges
  Signs      \* everything else but blanks

Blank == " "
Chars == Letters \cup Emoji \cup Signs \cup {Blank}

\* stripSpecialCharacters, and toLowerCase of what is left: emoji vanish, other signs
\* become blanks, and blanks are collapsed and trimmed.
Cleaned(text) ==
  LET kept == SelectSeq(text, LAMBDA c : c \notin Emoji)
      spaced == [i \in DOMAIN kept |-> IF kept[i] \in Letters THEN LowerOf[kept[i]] ELSE Blank]
      Collapse(done, c) == IF c = Blank /\ (done = <<>> \/ Last(done) = Blank) THEN done
                           ELSE Append(done, c)
      collapsed == FoldLeft(Collapse, <<>>, spaced)
  IN  IF collapsed # <<>> /\ Last(collapsed) = Blank THEN Front(collapsed) ELSE collapsed

IsLetter(s, i) == i \in DOMAIN s /\ s[i] \in Letters

\* \b of a regular expression, before position i.
Boundary(s, i) == IsLetter(s, i - 1) # IsLetter(s, i)

\* The places where k stands in s.
Places(s, k) == {i \in 1..(Len(s) - Len(k) + 1) : SubSeq(s, i, i + Len(k) - 1) = k}

\* A slip: a word only has to begin with the keyword.
IsFoundAtStart(s, k, wholeWordMatch) ==
  \E i \in Places(s, k) : wholeWordMatch => Boundary(s, i)

IsFound(s, k, wholeWordMatch) ==
  \E i \in Places(s, k) : wholeWordMatch => Boundary(s, i) /\ Boundary(s, i + Len(k))

\* matchKeywords: the first keyword found, or none; a keyword that cleans to nothing
\* is passed over.
matchKeywords(text, keywords, wholeWordMatch) ==
  LET s == Cleaned(text)
      found == {i \in DOMAIN keywords :
                  LET k == Cleaned(keywords[i]) IN k # <<>> /\ IsFound(s, k, wholeWordMatch)}
  IN  IF s = <<>> \/ found = {} THEN <<>>
      ELSE keywords[CHOOSE i \in found : \A j \in found : i <= j]

-----------------------------------------------------------------------------
(* The reference *)

\* The words of a text: its maximal runs of letters, case and emoji aside.
Words(text) ==
  LET s == SelectSeq(text, LAMBDA c : c \notin Emoji)
      Ends == {i \in DOMAIN s : IsLetter(s, i) /\ ~ IsLetter(s, i + 1)}
      StartOf(e) == CHOOSE b \in 1..e : /\ \A i \in b..e : IsLetter(s, i)
                                        /\ ~ IsLetter(s, b - 1)
      Word(e) == [i \in 1..(e - StartOf(e) + 1) |-> LowerOf[s[StartOf(e) + i - 1]]]
      ends == SetToSortSeq(Ends, <)
  IN  [n \in DOMAIN ends |-> Word(ends[n])]

\* The words of k follow one another among those of the text.
HasWords(text, k) ==
  \E i \in 1..(Len(Words(text)) - Len(Words(k)) + 1) :
    SubSeq(Words(text), i, i + Len(Words(k)) - 1) = Words(k)

\* A keyword of a text and of its own is found as a whole exactly where its words are,
\* in this order and next to one another, whatever signs stand between them.
IsByWords(text, k) ==
  (matchKeywords(text, <<k>>, TRUE) # <<>>) <=> (Words(k) # <<>> /\ HasWords(text, k))
=============================================================================
