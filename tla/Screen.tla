---- MODULE Screen ----
(***************************************************************************)
(* What the framebuffer console promises to the terminal above it: a grid  *)
(* of cells that every call changes at once, and a flush that shows it.    *)
(* How a changed cell is queued until the flush is no part of the promise. *)
(***************************************************************************)
EXTENDS Naturals

CONSTANTS
    Cols, Rows,  \* size of the screen in cells
    Glyphs,      \* characters the terminal writes, the blank included
    Colours      \* colours of ink and paper

Cells == 0 .. Rows * Cols - 1
RowOf(i) == i \div Cols
CellAt(x, y) == y * Cols + x
OnScreen(x, y) == x < Cols /\ y < Rows
Blank == " "
Attributes == [fg : Colours, bg : Colours]
Cell(g, a) == [c |-> g, fg |-> a.fg, bg |-> a.bg]
Inverted(ch) == [ch EXCEPT !.fg = ch.bg, !.bg = ch.fg]

VARIABLES
    cells,           \* the latest contents of every cell
    shown,           \* what the framebuffer shows
    cursor_x, cursor_y, cursor_enabled,
    text,            \* attributes of the next character
    top, bottom,     \* rows top .. bottom - 1 scroll
    scroll_enabled   \* FALSE while a control sequence runs

screenVars == <<cells, shown, cursor_x, cursor_y, cursor_enabled, text,
                top, bottom, scroll_enabled>>

\* What a flush shows: every cell, the cursor's with its colours exchanged.
Picture ==
    [i \in Cells |->
        IF cursor_enabled /\ OnScreen(cursor_x, cursor_y) /\ i = CellAt(cursor_x, cursor_y)
        THEN Inverted(cells[i]) ELSE cells[i]]

ScreenInit ==
    /\ text \in Attributes
    /\ cells \in [Cells -> [c : Glyphs, fg : {text.fg}, bg : {text.bg}]]
    /\ cursor_x = 0 /\ cursor_y = 0 /\ cursor_enabled = TRUE
    /\ top = 0 /\ bottom = Rows /\ scroll_enabled = TRUE
    /\ shown = Picture

\* The lines of the region move up by one, the last one becomes blank.
Scrolled ==
    [i \in Cells |->
        IF RowOf(i) = bottom - 1 THEN Cell(Blank, text)
        ELSE IF RowOf(i) \in top .. bottom - 1 THEN cells[i + Cols] ELSE cells[i]]

\* Below the line t they move down by one, t becomes blank.
ScrolledBack(t) ==
    [i \in Cells |->
        IF RowOf(i) = t THEN Cell(Blank, text)
        ELSE IF RowOf(i) \in t + 1 .. bottom - 1 THEN cells[i - Cols] ELSE cells[i]]

Written(cs, g, x, y) ==
    IF OnScreen(x, y) THEN [cs EXCEPT ![CellAt(x, y)] = Cell(g, text)] ELSE cs

\* A character behind the last column goes to the next line: the region
\* scrolls under its last line, and below the region there is no next line.
WriteChar ==
    \E g \in Glyphs :
        IF cursor_x < Cols \/ ~(cursor_y < bottom - 1 \/ scroll_enabled)
        THEN /\ cells' = Written(cells, g, cursor_x, cursor_y)
             /\ cursor_x' = cursor_x + 1 /\ cursor_y' = cursor_y
        ELSE /\ cursor_x' = 1
             /\ \/ /\ cursor_y = bottom - 1
                   /\ cells' = Written(Scrolled, g, 0, cursor_y)
                   /\ cursor_y' = cursor_y
                \/ /\ cursor_y # bottom - 1 /\ cursor_y < Rows - 1
                   /\ cells' = Written(cells, g, 0, cursor_y + 1)
                   /\ cursor_y' = cursor_y + 1
                \/ /\ cursor_y # bottom - 1 /\ cursor_y >= Rows - 1
                   /\ cursor_y' \in Nat /\ cursor_y' >= Rows - 1
                   /\ cells' = Written(cells, g, 0, cursor_y')

WriteCharStep ==
    WriteChar /\ UNCHANGED <<shown, cursor_enabled, text, top, bottom, scroll_enabled>>

CellsStep ==
    /\ \/ cells' = Scrolled
       \/ \E t \in 0 .. Rows - 1 : cells' = ScrolledBack(t)
       \/ \E i, j \in Cells : cells' = [cells EXCEPT ![i] = cells[j]]
    /\ UNCHANGED <<shown, cursor_x, cursor_y, cursor_enabled, text, top, bottom, scroll_enabled>>

ClearStep ==
    /\ cells' = [i \in Cells |-> Cell(Blank, text)]
    /\ <<cursor_x', cursor_y'>> \in {<<cursor_x, cursor_y>>, <<0, 0>>}
    /\ UNCHANGED <<shown, cursor_enabled, text, top, bottom, scroll_enabled>>

\* The terminal moves the cursor, sets attributes, margins and modes: no cell
\* and no pixel changes before the next flush.
TerminalStep == UNCHANGED <<cells, shown>>

FlushStep ==
    /\ shown' = Picture
    /\ UNCHANGED <<cells, cursor_x, cursor_y, cursor_enabled, text, top, bottom, scroll_enabled>>

ScreenNext == WriteCharStep \/ CellsStep \/ ClearStep \/ TerminalStep \/ FlushStep

ScreenSpec == ScreenInit /\ [][ScreenNext]_screenVars
====
