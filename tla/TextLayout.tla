------------------------------- MODULE TextLayout -------------------------------
(***************************************************************************)
(* The placing of glyphs in rows (layout of bridges/jni/bitmap.c), with    *)
(* rows broken at a space where there is one.  Positions of the text are   *)
(* counted from 0; widths are those of the font.                           *)
(***************************************************************************)
EXTENDS Integers, FiniteSets
LOCAL INSTANCE FiniteSetsExt

CONSTANTS
  Advance(_),   \* width of a glyph
  Kern(_, _)    \* correction between two glyphs, or 0

Blank == {"space"}
Nowhere == [row |-> -1, x |-> 0]

\* Whether a glyph goes to the next row; the first of a row never does.
Overflows(s, bound, kern, advance) == bound > 0 /\ s.pen > 0 /\ s.pen + kern + advance > bound

\* A row ends, and the next begins with a position of the text.
NewRow(s, width, from) ==
  [s EXCEPT !.widths = [r \in 0..s.row |-> IF r = s.row THEN width ELSE s.widths[r]], !.row = @ + 1,
            !.pen = 0, !.previous = "", !.start = from, !.break = 0, !.index = from]

Place(text, s, bound) ==
  LET code == text[s.index]
      kern == IF s.previous = "" THEN 0 ELSE Kern(s.previous, code)
      clear == [s EXCEPT !.places[s.index] = Nowhere]
      placed == [s EXCEPT !.places[s.index] = [row |-> s.row, x |-> s.pen + kern],
                          !.break = IF code \in Blank THEN s.index + 1 ELSE @,
                          !.breakWidth = IF code \in Blank THEN s.pen ELSE @,
                          !.pen = @ + kern + Advance(code), !.previous = code, !.index = @ + 1]
  IN CASE code = "return" -> [clear EXCEPT !.index = @ + 1]
       [] code = "newline" -> NewRow(clear, s.pen, s.index + 1)
       [] Overflows(s, bound, kern, Advance(code)) ->
            IF s.break > s.start /\ s.break < s.index THEN NewRow(clear, s.breakWidth, s.break)
            ELSE NewRow(clear, s.pen, s.index)
       [] OTHER -> placed

RECURSIVE Loop(_, _, _, _)
Loop(text, count, s, bound) == IF s.index >= count THEN s ELSE Loop(text, count, Place(text, s, bound), bound)

Layout(text, count, bound) ==
  LET s == Loop(text, count, [index |-> 0, row |-> 0, pen |-> 0, start |-> 0, break |-> 0, breakWidth |-> 0, previous |-> "",
                              places |-> [i \in 0..count - 1 |-> Nowhere], widths |-> <<>>], bound)
  IN [places |-> s.places, rows |-> s.row + 1, widths |-> [r \in 0..s.row |-> IF r = s.row THEN s.pen ELSE s.widths[r]]]

\* Rows that were begun, given up and begun again: every glyph ends up in one place;
\* rows follow the text; what does not fit the width stands alone in its row; the
\* width of a row covers all of it but blanks; and there are no more rows than the
\* text has characters, and one.
LayoutExact(text, count, bound) ==
  LET l == Layout(text, count, bound)
      glyphs == {i \in 0..count - 1 : text[i] \notin {"return", "newline"}}
      InRow(i) == {j \in glyphs : l.places[j].row = l.places[i].row}
      End(i) == l.places[i].x + Advance(text[i])
  IN /\ \A i \in 0..count - 1 : (l.places[i].row >= 0) = (i \in glyphs)
     /\ \A i, j \in glyphs : i < j =>
          /\ l.places[i].row <= l.places[j].row
          /\ (\E k \in i..j : text[k] = "newline") => l.places[i].row < l.places[j].row
          /\ l.places[i].row = l.places[j].row => End(i) + Kern(text[i], text[j]) <= l.places[j].x \/ j > i + 1
     /\ bound > 0 => \A i \in glyphs : End(i) <= bound \/ i = Min(InRow(i))
     /\ \A i \in glyphs : text[i] \in Blank \/ End(i) <= l.widths[l.places[i].row]
     /\ l.rows <= count + 1
=============================================================================
