--------------------------------- MODULE Csv ---------------------------------
(***************************************************************************)
(* The campaign importer's reader of CSV files.  A text is a sequence of   *)
(* characters, of which the code tells six apart; a cell is one too.       *)
(***************************************************************************)
EXTENDS Naturals, Sequences, SequencesExt

CONSTANTS
  Comma, Quote, LF, CR, Blank,  \* characters with a meaning
  Letters                       \* all others

Chars == {Comma, Quote, LF, Blank} \cup Letters  \* of a cell

\* Line ends of other systems: \r\n and then \r become \n.
Normalized(text) ==
  LET Take(done, i) ==
        IF text[i] = CR
          THEN IF i < Len(text) /\ text[i + 1] = LF THEN done ELSE Append(done, LF)
          ELSE Append(done, text[i])
  IN  FoldLeft(Take, <<>>, [i \in DOMAIN text |-> i])

Scan == [rows |-> <<>>, row |-> <<>>, field |-> <<>>, inQuotes |-> FALSE, skip |-> FALSE]

Extended(s, c) == [s EXCEPT !.field = Append(@, c)]
CellEnds(s) == [s EXCEPT !.row = Append(@, s.field), !.field = <<>>]
RowEnds(s) == [s EXCEPT !.rows = Append(@, Append(s.row, s.field)), !.row = <<>>, !.field = <<>>]

\* A slip: a quote always ends the quoted part.
CharNoEscape(text, s, i) ==
  LET c == text[i] IN
  CASE s.inQuotes /\ c = Quote -> [s EXCEPT !.inQuotes = FALSE]
    [] s.inQuotes /\ c # Quote -> Extended(s, c)
    [] ~ s.inQuotes /\ c = Quote -> [s EXCEPT !.inQuotes = TRUE]
    [] ~ s.inQuotes /\ c = Comma -> CellEnds(s)
    [] ~ s.inQuotes /\ c = LF -> RowEnds(s)
    [] OTHER -> Extended(s, c)

\* One turn of the loop of parseRows; the second of two quotes is passed over.
Char(text, s, i) ==
  LET c == text[i] IN
  CASE s.skip -> [s EXCEPT !.skip = FALSE]
    [] ~ s.skip /\ s.inQuotes /\ c = Quote ->
         IF i < Len(text) /\ text[i + 1] = Quote THEN [Extended(s, Quote) EXCEPT !.skip = TRUE]
                                                 ELSE [s EXCEPT !.inQuotes = FALSE]
    [] ~ s.skip /\ s.inQuotes /\ c # Quote -> Extended(s, c)
    [] ~ s.skip /\ ~ s.inQuotes /\ c = Quote -> [s EXCEPT !.inQuotes = TRUE]
    [] ~ s.skip /\ ~ s.inQuotes /\ c = Comma -> CellEnds(s)
    [] ~ s.skip /\ ~ s.inQuotes /\ c = LF -> RowEnds(s)
    [] OTHER -> Extended(s, c)

\* The last row is there without a line end too.
parseRows(file) ==
  LET text == Normalized(file)
      Turn(s, i) == Char(text, s, i)
      end == FoldLeft(Turn, Scan, [i \in DOMAIN text |-> i])
  IN  IF end.field # <<>> \/ end.row # <<>> THEN RowEnds(end).rows ELSE end.rows

\* String.trim.
Trimmed(cell) ==
  LET kept == {i \in DOMAIN cell : cell[i] \notin {Blank, LF, CR}}
      first == CHOOSE i \in kept : \A j \in kept : i <= j
      last == CHOOSE i \in kept : \A j \in kept : i >= j
  IN  IF kept = {} THEN <<>> ELSE SubSeq(cell, first, last)

\* parseCsv: one record per row after the header, keyed by its names; a row of one
\* blank cell is no row.
parseCsv(file) ==
  LET rows == parseRows(file)
      headers == [i \in DOMAIN rows[1] |-> Trimmed(rows[1][i])]
      data == SelectSeq(Tail(rows), LAMBDA cells : Len(cells) # 1 \/ Trimmed(cells[1]) # <<>>)
      Cell(cells, header) ==
        LET at == {i \in DOMAIN headers : headers[i] = header}
            index == CHOOSE i \in at : \A j \in at : i >= j
        IN  IF index \in DOMAIN cells THEN Trimmed(cells[index]) ELSE <<>>
  IN  IF rows = <<>> THEN <<>>
      ELSE [n \in DOMAIN data |-> [header \in ToSet(headers) |-> Cell(data[n], header)]]

-----------------------------------------------------------------------------
(* The reference *)

\* A file as a spreadsheet writes it: quotes around a cell that needs them, or around
\* every cell; a line end of one of three kinds, after the last row or not.
WrittenCell(cell, all) ==
  IF all \/ ToSet(cell) \cap {Comma, Quote, LF} # {}
    THEN <<Quote>> \o FlattenSeq([i \in DOMAIN cell |->
                                    IF cell[i] = Quote THEN <<Quote, Quote>> ELSE <<cell[i]>>])
           \o <<Quote>>
    ELSE cell

WrittenRow(row, all) ==
  FlattenSeq([i \in DOMAIN row |->
    (IF i = 1 THEN <<>> ELSE <<Comma>>) \o WrittenCell(row[i], all)])

Written(table, all, end, last) ==
  FlattenSeq([n \in DOMAIN table |->
    WrittenRow(table[n], all) \o (IF n < Len(table) \/ last THEN end ELSE <<>>)])

LineEnds == {<<LF>>, <<CR, LF>>, <<CR>>}

\* What is written is read back, cell by cell, however it is written: every row of the
\* table that is not blank becomes the record of its cells, trimmed, and no other.
\* The names of the header are distinct, and have nothing to trim.
IsRecovered(header, data) ==
  LET rows == SelectSeq(data, LAMBDA row : Len(row) # 1 \/ Trimmed(row[1]) # <<>>)
      Record(row) == [h \in ToSet(header) |->
        LET i == CHOOSE i \in DOMAIN header : header[i] = h
        IN  IF i <= Len(row) THEN Trimmed(row[i]) ELSE <<>>]
      records == [n \in DOMAIN rows |-> Record(rows[n])]
  IN  \A all, last \in BOOLEAN, end \in LineEnds :
        parseCsv(Written(<<header>> \o data, all, end, last)) = records
=============================================================================
