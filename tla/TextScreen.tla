----------------------------- MODULE TextScreen -----------------------------
(***************************************************************************)
(* What the text console promises: a screen of Rows lines of Cols cells,    *)
(* a cursor that is always on it, and lines that move up when the cursor    *)
(* would leave it at the bottom.  A cell is the picture it shows.           *)
(***************************************************************************)
EXTENDS Integers, Sequences

CONSTANTS
    Cols, Rows,
    TabStop,
    Inks,             \* pairs of a foreground and a background colour
    Chars,            \* printable characters
    Picture(_, _),    \* the picture of a character in an ink
    Blank(_)          \* the picture of an empty cell in an ink

VARIABLES
    cells,    \* Rows lines of Cols pictures
    cursor,   \* <<column, row>>, from 0
    ink

BlankLine == [i \in 1 .. Cols |-> Blank(ink)]

\* The lines become ls and the cursor moves to column x of line y, where the
\* line below the last one is a new one at the bottom.
Show(ls, x, y) ==
    IF y < Rows
    THEN cells' = ls /\ cursor' = <<x, y>>
    ELSE cells' = Append(Tail(ls), BlankLine) /\ cursor' = <<x, Rows - 1>>

Drawn(picture, x, y) == [cells EXCEPT ![y + 1][x + 1] = picture]

Type(ch) ==
    LET x == cursor[1]  y == cursor[2]  ls == Drawn(Picture(ch, ink), x, y)
    IN  IF x + 1 < Cols THEN Show(ls, x + 1, y) ELSE Show(ls, 0, y + 1)

NewLine == Show(cells, 0, cursor[2] + 1)

Return == Show(cells, 0, cursor[2])

Tab ==
    LET stop == (cursor[1] \div TabStop + 1) * TabStop
    IN  IF stop < Cols THEN Show(cells, stop, cursor[2]) ELSE Show(cells, 0, cursor[2] + 1)

Rub(x, y) == Show(Drawn(Blank(ink), x, y), x, y)

Backspace ==
    \/ cursor[1] > 0 /\ Rub(cursor[1] - 1, cursor[2])
    \/ cursor[1] = 0 /\ cursor[2] > 0 /\ Rub(Cols - 1, cursor[2] - 1)

Clear == cells' = [j \in 1 .. Rows |-> BlankLine] /\ cursor' = <<0, 0>>

Place == cells' = cells /\ cursor' \in (0 .. Cols - 1) \X (0 .. Rows - 1)

Next ==
    \/ ink' = ink /\ (\/ \E ch \in Chars : Type(ch)
                      \/ NewLine \/ Return \/ Tab \/ Backspace \/ Clear \/ Place)
    \/ ink' \in Inks /\ UNCHANGED <<cells, cursor>>

Init == cursor = <<0, 0>> /\ ink \in Inks /\ DOMAIN cells = 1 .. Rows

Spec == Init /\ [][Next]_<<cells, cursor, ink>>
=============================================================================
