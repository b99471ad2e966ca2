---------------------------- MODULE TerminalScreen ----------------------------
(***************************************************************************)
(* The screen of the terminal tab: processOutput edits lines of text in    *)
(* which escape sequences it does not know stay where they were, and reads *)
(* of the pty may end anywhere, also inside a sequence or a character.     *)
(***************************************************************************)
EXTENDS Naturals, Sequences, FiniteSets, SequencesExt, FiniteSetsExt, Lists

CONSTANTS
  maxLines,     \* scrollback
  TabStop,      \* 8
  MaxText       \* bound: how far right the output goes, and all that is in the
                \* lines, hidden or not, before another item
ASSUME ScreenAssumption == maxLines \in Nat \ {0} /\ TabStop \in Nat \ {0} /\ MaxText \in Nat

VARIABLES
  lines, col,   \* t.lines and t.col
  rest,         \* what the next read begins with, of an item the last one cut
  rows          \* history: the text a terminal with these operations shows, or
                \* Hurt where a read ended inside an item
screenVars == <<lines, col, rest, rows>>

ESC == "esc"
Letters == {"J", "K", "D", "C", "m", "x"}
Escapes == {<<ESC, "[", c>> : c \in {"J", "K", "D", "C", "m"}}
\* What a program writes: a character, one of control, or a sequence.
Items == {<<c>> : c \in {"x", "NL", "CR", "BS", "TAB"}} \union Escapes
Short(ls, c) == Len(FlattenSeq(ls)) <= MaxText /\ c <= MaxText

ScreenInit ==
  /\ lines = << <<>> >> /\ col = 0
  /\ rest = <<>>
  /\ rows = << <<>> >>
-----------------------------------------------------------------------------
(* Text with escape sequences in it.                                       *)

\* parseEscape: the last position of the sequence that begins at i.
EscapeEnd(s, i) ==
  IF i = Len(s) THEN i
  ELSE IF s[i + 1] # "[" THEN i + 1
  ELSE LET ends == {j \in i + 2 .. Len(s) : s[j] \in Letters}
       IN  IF ends = {} THEN Len(s) ELSE Min(ends)

\* The positions whose characters can be seen: those behind the latest sequence.
Visible(s) ==
  LET hidden[i \in 0 .. Len(s)] ==
        IF i = 0 THEN 0
        ELSE IF s[i] = ESC /\ hidden[i - 1] < i THEN EscapeEnd(s, i) ELSE hidden[i - 1]
  IN  {i \in DOMAIN s : hidden[i] < i}

visibleLen(s) == Cardinality(Visible(s))

\* How many visible characters there are up to position i.
Rank(s, i) == Cardinality({j \in Visible(s) : j <= i})

Text(s) == Selected(s, Visible(s))
Blank == "SP"
Blanks(n) == [i \in 1 .. n |-> Blank]

\* Mutant of overwriteAtCol: the column is taken for a position.
overwriteAtPosition(s, c, r) ==
  IF c >= visibleLen(s) THEN s \o Blanks(c - visibleLen(s)) \o <<r>>
  ELSE [s EXCEPT ![c + 1] = r]

overwriteAtCol(s, c, r) ==
  IF c >= visibleLen(s) THEN s \o Blanks(c - visibleLen(s)) \o <<r>>
  ELSE [i \in DOMAIN s |-> IF i \in Visible(s) /\ Rank(s, i) = c + 1 THEN r ELSE s[i]]

\* What is hidden stays, where it was and behind the column.
truncateAtCol(s, c) == Selected(s, {i \in DOMAIN s : i \in Visible(s) => Rank(s, i) <= c})
-----------------------------------------------------------------------------
(* processOutput.                                                          *)

Latest(ls) == ls[Len(ls)]
EditLast(ls, line) == [ls EXCEPT ![Len(ls)] = line]
Trim(ls) == IF Len(ls) > maxLines THEN SubSeq(ls, Len(ls) - maxLines + 1, Len(ls)) ELSE ls

\* Lines and column of a screen.
Screen == [lines |-> lines, col |-> col]

Put(sc, r) ==
  [lines |-> EditLast(sc.lines, overwriteAtCol(Latest(sc.lines), sc.col, r)), col |-> sc.col + 1]

\* The loop over the columns of a tab.
PutBlanks(sc, n) ==
  LET after[k \in 0 .. n] == IF k = 0 THEN sc ELSE Put(after[k - 1], Blank)
  IN  after[n]

Rune(sc, r) ==
  CASE r = "NL" -> [lines |-> Append(sc.lines, <<>>), col |-> 0]
    [] r = "CR" -> [sc EXCEPT !.col = 0]
    [] r = "BS" -> [sc EXCEPT !.col = IF @ > 0 THEN @ - 1 ELSE 0]
    [] r = "TAB" -> PutBlanks(sc, TabStop - (sc.col % TabStop))
    [] OTHER -> Put(sc, r)

\* The loop over text.
Runes(sc, data) ==
  LET after[k \in 0 .. Len(data)] == IF k = 0 THEN sc ELSE Rune(after[k - 1], data[k])
  IN  after[Len(data)]

\* A sequence the tab knows, or one it leaves in the line.
Escape(sc, s) ==
  CASE s = <<ESC, "[", "J">> -> [lines |-> << <<>> >>, col |-> 0]
    [] s = <<ESC, "[", "K">> ->
         [sc EXCEPT !.lines = EditLast(@, truncateAtCol(Latest(@), sc.col))]
    [] s = <<ESC, "[", "D">> -> [sc EXCEPT !.col = IF @ > 0 THEN @ - 1 ELSE 0]
    [] s = <<ESC, "[", "C">> -> [sc EXCEPT !.col = @ + 1]
    [] OTHER -> [sc EXCEPT !.lines = EditLast(@, Latest(@) \o s)]

processOutput(data) ==
  LET sc == IF Head(data) = ESC THEN Escape(Screen, data) ELSE Runes(Screen, data)
  IN  lines' = Trim(sc.lines) /\ col' = sc.col
-----------------------------------------------------------------------------
(* The text a terminal with these operations shows: a row is an array.     *)

Hurt == <<"hurt">>
Row == Latest(rows)
Write(row, c, r) ==
  [i \in 1 .. (IF c < Len(row) THEN Len(row) ELSE c + 1) |->
     IF i = c + 1 THEN r ELSE IF i <= Len(row) THEN row[i] ELSE Blank]

Shows(item) ==
  IF item = <<"NL">> THEN Trim(Append(rows, <<>>))
  ELSE IF item = <<ESC, "[", "J">> THEN << <<>> >>
  ELSE IF Row = Hurt THEN rows
  ELSE CASE item = <<ESC, "[", "K">> ->
              EditLast(rows, IF col < Len(Row) THEN SubSeq(Row, 1, col) ELSE Row)
         [] item = <<"TAB">> ->
              EditLast(rows, [i \in 1 .. (IF Len(Row) > col' THEN Len(Row) ELSE col') |->
                                IF i <= Len(Row) /\ i \notin col + 1 .. col' THEN Row[i] ELSE Blank])
         [] item = <<"x">> -> EditLast(rows, Write(Row, col, "x"))
         [] OTHER -> rows
-----------------------------------------------------------------------------
\* A read that ends where an item does.
Output ==
  /\ rest = <<>>
  /\ \E item \in Items :
       /\ processOutput(item)
       /\ Short(lines', col')
       /\ rows' = Shows(item)
  /\ UNCHANGED rest

\* Where a read may end: in a character of two bytes, each of which is taken
\* for a character that is none, or in a sequence.
Cuts ==
  {<< <<"?">>, <<"?">> >>}
    \union {<<SubSeq(item, 1, n), SubSeq(item, n + 1, 3)>> : item \in Escapes, n \in 1 .. 2}

\* A read that ends inside an item; a part of a sequence is one that is not known.
OutputCut ==
  /\ rest = <<>> /\ Row # Hurt      \* bound: one a row
  /\ Short(lines, col)
  /\ \E cut \in Cuts : processOutput(cut[1]) /\ rest' = cut[2]
  /\ rows' = EditLast(rows, Hurt)

\* The next read, which takes what is left of it for text.
OutputRest ==
  /\ rest # <<>>
  /\ processOutput(rest)
  /\ rest' = <<>>
  /\ UNCHANGED rows

ScreenNext == Output \/ OutputCut \/ OutputRest
-----------------------------------------------------------------------------
ScreenTypeOK ==
  /\ lines # <<>> /\ Len(lines) <= maxLines
  /\ col \in Nat

\* Line by line the tab shows what was written, in spite of the sequences that
\* stay in its lines; a read that ends inside a sequence or a character, which
\* processOutput takes for another sequence and text, damages the line it ends
\* in and no other (terminal.go:273).
ScreenShowsOutput ==
  /\ Len(lines) = Len(rows)
  /\ \A i \in DOMAIN rows : rows[i] # Hurt => Text(lines[i]) = rows[i]
=============================================================================
