------------------------------ MODULE Console -------------------------------
(***************************************************************************)
(* The text console (drivers/display/console.rs) over the framebuffer       *)
(* (framebuffer.rs), down to the memory of the framebuffer: a line of       *)
(* pixels takes FbPitch units, of which FbWidth are visible, and FbGuard    *)
(* units of other memory follow the last line.  A pixel is one unit and a   *)
(* colour is itself; init_display_console always asks for RGB565.           *)
(***************************************************************************)
EXTENDS Integers, Sequences, FiniteSetsExt

CONSTANTS
    FbWidth, FbHeight, FbPitch, FbGuard,
    CHAR_WIDTH, CHAR_HEIGHT,   \* SimpleVgaFont::width and height (8 and 16)
    TAB,                       \* the tab stop (8)
    Glyph,                     \* character -> its set of pixels <<px, py>>
    ConInks,                   \* pairs of colours callers set
    BLACK, WHITE,
    Unseen                     \* what memory outside the picture holds

ASSUME ConsoleAssumption ==
    /\ CHAR_WIDTH <= FbWidth /\ CHAR_HEIGHT <= FbHeight /\ FbWidth <= FbPitch
    /\ <<WHITE, BLACK>> \in ConInks

VARIABLES
    fb,                   \* memory from the framebuffer's base address on
    con_ready,            \* CONSOLE_INITIALIZED
    cursor_x, cursor_y,
    con_ink               \* <<fg_color, bg_color>>

consoleVars == <<fb, con_ready, cursor_x, cursor_y, con_ink>>

cols == FbWidth \div CHAR_WIDTH

rows == FbHeight \div CHAR_HEIGHT

FbSize == FbHeight * FbPitch

-----------------------------------------------------------------------------
(* The framebuffer.                                                         *)
pixel_offset(x, y) == y * FbPitch + x

Visible == {pixel_offset(x, y) : x \in 0 .. FbWidth - 1, y \in 0 .. FbHeight - 1}

put_pixel(mem, x, y, color) ==
    IF x >= FbWidth \/ y >= FbHeight THEN mem
    ELSE [mem EXCEPT ![pixel_offset(x, y)] = color]

fill_rect(mem, x, y, w, h, color) ==
    LET rect == {pixel_offset(px, py) : px \in x .. Min({x + w, FbWidth}) - 1,
                                        py \in y .. Min({y + h, FbHeight}) - 1}
    IN  [o \in DOMAIN mem |-> IF o \in rect THEN color ELSE mem[o]]

fb_clear(mem, color) == fill_rect(mem, 0, 0, FbWidth, FbHeight, color)

fb_scroll_VisibleOnly(mem, pixels) ==
    LET moved == [o \in DOMAIN mem |->
            IF o < (FbHeight - pixels) * FbWidth THEN mem[o + pixels * FbWidth] ELSE mem[o]]
    IN  IF pixels >= FbHeight THEN fb_clear(mem, BLACK)
        ELSE fill_rect(moved, 0, FbHeight - pixels, FbWidth, pixels, BLACK)

\* Whole lines move up, what lies between the visible pixels of two lines with
\* them, and black lines come in at the bottom.
fb_scroll(mem, pixels) ==
    LET moved == [o \in DOMAIN mem |->
            IF o < (FbHeight - pixels) * FbPitch THEN mem[o + pixels * FbPitch] ELSE mem[o]]
    IN  IF pixels >= FbHeight THEN fb_clear(mem, BLACK)
        ELSE fill_rect(moved, 0, FbHeight - pixels, FbWidth, pixels, BLACK)

-----------------------------------------------------------------------------
(* The console.                                                             *)
clear_char_at(mem, col, row) ==
    fill_rect(mem, col * CHAR_WIDTH, row * CHAR_HEIGHT, CHAR_WIDTH, CHAR_HEIGHT, con_ink[2])

render_char(mem, ch, col, row) ==
    FoldSet(LAMBDA p, m : put_pixel(m, col * CHAR_WIDTH + p[1], row * CHAR_HEIGHT + p[2], con_ink[1]),
            clear_char_at(mem, col, row), Glyph[ch])

console_scroll_TrustFb(mem) == fb_scroll(mem, CHAR_HEIGHT)

\* The bottom line is cleared once more, in the console's own background.
console_scroll(mem) ==
    FoldSet(LAMBDA col, m : clear_char_at(m, col, rows - 1),
            fb_scroll(mem, CHAR_HEIGHT), 0 .. cols - 1)

\* The end of put_char: scroll when the cursor has left the bottom line.
Settle(mem, x, y) ==
    /\ cursor_x' = x
    /\ IF y >= rows THEN fb' = console_scroll(mem) /\ cursor_y' = rows - 1
       ELSE fb' = mem /\ cursor_y' = y

\* A column at or past the last one wraps to the next line.
Wrap(mem, x, y) == IF x >= cols THEN Settle(mem, 0, y + 1) ELSE Settle(mem, x, y)

put_char(ch) ==
    /\ CASE ch = "\n" -> Settle(fb, 0, cursor_y + 1)
         [] ch = "\r" -> Settle(fb, 0, cursor_y)
         [] ch = "\t" -> Wrap(fb, ((cursor_x + TAB) \div TAB) * TAB, cursor_y)
         [] ch = "BS" ->
              IF cursor_x > 0
              THEN Settle(clear_char_at(fb, cursor_x - 1, cursor_y), cursor_x - 1, cursor_y)
              ELSE IF cursor_y > 0
              THEN Settle(clear_char_at(fb, cols - 1, cursor_y - 1), cols - 1, cursor_y - 1)
              ELSE Settle(fb, cursor_x, cursor_y)
         [] ch \in DOMAIN Glyph ->
              Wrap(render_char(fb, ch, cursor_x, cursor_y), cursor_x + 1, cursor_y)
    /\ UNCHANGED con_ink

console_clear ==
    /\ fb' = fb_clear(fb, con_ink[2])
    /\ cursor_x' = 0 /\ cursor_y' = 0
    /\ UNCHANGED con_ink

set_color(new) == con_ink' = new /\ UNCHANGED <<fb, cursor_x, cursor_y>>

set_cursor(x, y) ==
    /\ x < cols /\ y < rows
    /\ cursor_x' = x /\ cursor_y' = y
    /\ UNCHANGED <<fb, con_ink>>

\* init: the picture stays what main.rs painted until something is written.
console_init ==
    /\ ~con_ready /\ con_ready' = TRUE
    /\ UNCHANGED <<fb, cursor_x, cursor_y, con_ink>>

ConsoleInit ==
    /\ fb = [o \in 0 .. FbSize + FbGuard - 1 |-> IF o \in Visible THEN WHITE ELSE Unseen]
    /\ con_ready = FALSE
    /\ cursor_x = 0 /\ cursor_y = 0
    /\ con_ink = <<WHITE, BLACK>>

\* Without a console the wrappers do nothing.  write_str is one put_char after
\* the other.
ConsoleNext ==
    \/ console_init
    \/ /\ con_ready /\ UNCHANGED con_ready
       /\ \/ \E ch \in {"\n", "\r", "\t", "BS"} \cup DOMAIN Glyph : put_char(ch)
          \/ console_clear
          \/ \E new \in ConInks : set_color(new)
          \/ \E x \in 0 .. cols, y \in 0 .. rows : set_cursor(x, y)

-----------------------------------------------------------------------------
(* Drawing, clearing and scrolling change visible pixels only: the units    *)
(* between two lines and the memory behind the framebuffer, which scroll    *)
(* also moves through unchecked pointers, keep what they held.              *)
DrawsInside == \A o \in DOMAIN fb \ Visible : fb[o] = Unseen

(* The cursor is on the screen between any two characters, so a character   *)
(* is never drawn where nobody sees it and the subtractions of backspace    *)
(* and scroll do not wrap, and drawing stays inside the picture.            *)
ConsoleTypeOK ==
    /\ cursor_x \in 0 .. cols - 1 /\ cursor_y \in 0 .. rows - 1
    /\ con_ready \in BOOLEAN /\ con_ink \in ConInks
    /\ DrawsInside

Pixels == (0 .. CHAR_WIDTH - 1) \X (0 .. CHAR_HEIGHT - 1)

CellPicture(ch, ink) == [p \in Pixels |-> IF p \in Glyph[ch] THEN ink[1] ELSE ink[2]]

BlankPicture(ink) == [p \in Pixels |-> ink[2]]

\* The pictures of the cells, read from memory.
CellsShown ==
    [j \in 1 .. rows |-> [i \in 1 .. cols |-> [p \in Pixels |->
        fb[pixel_offset((i - 1) * CHAR_WIDTH + p[1], (j - 1) * CHAR_HEIGHT + p[2])]]]]

Screen == INSTANCE TextScreen WITH
    Cols <- cols, Rows <- rows, TabStop <- TAB, Inks <- ConInks, Chars <- DOMAIN Glyph,
    Picture <- CellPicture, Blank <- BlankPicture,
    cells <- CellsShown, cursor <- <<cursor_x, cursor_y>>, ink <- con_ink

(* The pixels in memory show a text screen: whatever is written, in which   *)
(* colours, every cell keeps its picture until it is overwritten, rubbed    *)
(* out or scrolled away, also when the height is not a multiple of the      *)
(* character height and when the padding of a line is scrolled with it.     *)
ConsoleShowsText == Screen!Spec
=============================================================================
