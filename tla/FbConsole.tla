---- MODULE FbConsole ----
(***************************************************************************)
(* The framebuffer back end of flanterm (fb.c).  Cells that change are put *)
(* on a queue, with a map from cells to queue items; the flush at the end  *)
(* of every flanterm_write plots the queued cells and the cursor.          *)
(*                                                                         *)
(* The state the parser of flanterm.c shares with the back end (margins,   *)
(* modes) is changed by the actions at the end, as the parser may.  A      *)
(* character is plotted as one value; a colour is a member of a small set. *)
(***************************************************************************)
EXTENDS Integers, Sequences, SequencesExt

CONSTANTS
    Cols, Rows,   \* size of the screen in cells
    Glyphs,       \* characters the parser writes
    Screens,      \* screens to start from: the blank one, or earlier output
    Palettes,     \* attributes the parser chooses
    DefaultText,  \* the attributes of flanterm_fb_init
    Black,        \* the colour 0
    MaxCalls      \* bound: calls between the start and the end of a run

Colours == {Black} \cup UNION {{p.fg, p.bg} : p \in Palettes \cup {DefaultText}}

\* A framebuffer is at least as many cells wide as high (see raw_putchar).
ASSUME FbAssumption ==
    /\ Rows \in Nat \ {0, 1} /\ Cols \in Nat /\ Cols >= Rows /\ MaxCalls \in Nat
    /\ " " \in Glyphs /\ Screens \subseteq [0 .. Rows * Cols - 1 -> Glyphs]
    /\ \A p \in Palettes \cup {DefaultText} : p = [fg |-> p.fg, bg |-> p.bg]

VARIABLES
    grid,          \* cells as last plotted
    queue,         \* queue[0 .. queue_i - 1]: [x, y, c]
    map,           \* item of a cell: its place in queue, or NULL
    fb,            \* what the framebuffer shows in every cell
    cursor_x, cursor_y, old_cursor, text,
    saved,         \* saved_state_...: attributes and cursor
    cursor_enabled, scroll_enabled,
    scroll_top_margin, scroll_bottom_margin,
    calls          \* calls made, at most MaxCalls

vars == <<grid, queue, map, fb, cursor_x, cursor_y, old_cursor, text, saved,
          cursor_enabled, scroll_enabled, scroll_top_margin, scroll_bottom_margin, calls>>
cellVars == <<queue, map>>
cursorVars == <<cursor_x, cursor_y>>
plotVars == <<grid, fb, old_cursor>>
textVars == <<text, saved>>
modeVars == <<cursor_enabled, scroll_enabled, scroll_top_margin, scroll_bottom_margin>>

NULL == 0
Cells == 0 .. Rows * Cols - 1
Char(g, a) == [c |-> g, fg |-> a.fg, bg |-> a.bg]
Swapped(a) == [a EXCEPT !.fg = a.bg, !.bg = a.fg]
Empty == Char(" ", text)

----
\* The queue.  A buffer is a record [queue, map].

\* Mutant: the map does not learn of a new item.
push_ForgetsMap(b, c, x, y) ==
    LET i == y * Cols + x IN
    IF x >= Cols \/ y >= Rows THEN b
    ELSE IF b.map[i] # NULL THEN [b EXCEPT !.queue[b.map[i]].c = c]
    ELSE IF grid[i] = c THEN b
    ELSE [b EXCEPT !.queue = Append(b.queue, [x |-> x, y |-> y, c |-> c])]

\* Mutant: a cell equal to the plotted one is skipped although it is queued.
push_ComparesFirst(b, c, x, y) ==
    LET i == y * Cols + x IN
    IF x >= Cols \/ y >= Rows THEN b
    ELSE IF grid[i] = c THEN b
    ELSE IF b.map[i] # NULL THEN [b EXCEPT !.queue[b.map[i]].c = c]
    ELSE [queue |-> Append(b.queue, [x |-> x, y |-> y, c |-> c]),
          map |-> [b.map EXCEPT ![i] = Len(b.queue) + 1]]

push_to_queue(b, c, x, y) ==
    LET i == y * Cols + x IN
    IF x >= Cols \/ y >= Rows THEN b
    ELSE IF b.map[i] # NULL THEN [b EXCEPT !.queue[b.map[i]].c = c]
    ELSE IF grid[i] = c THEN b
    ELSE [queue |-> Append(b.queue, [x |-> x, y |-> y, c |-> c]),
          map |-> [b.map EXCEPT ![i] = Len(b.queue) + 1]]

Buffer == [queue |-> queue, map |-> map]
SetBuffer(b) == queue' = b.queue /\ map' = b.map

Current(b, i) == IF b.map[i] # NULL THEN b.queue[b.map[i]].c ELSE grid[i]

\* The cells named by a sequence are copied one after the other, d cells on.
CopyCells(b, from, d) ==
    FoldLeft(LAMBDA a, i : push_to_queue(a, Current(a, i), (i + d) % Cols, (i + d) \div Cols),
             b, from)

ClearRow(b, y) ==
    FoldLeft(LAMBDA a, x : push_to_queue(a, Empty, x, y), b, [x \in 1 .. Cols |-> x - 1])

Ascending(first, n) == [k \in 1 .. n |-> first + k - 1]
Descending(last, n) == [k \in 1 .. n |-> last - k + 1]
NoLess(n) == IF n < 0 THEN 0 ELSE n

flanterm_fb_scroll(b) ==
    ClearRow(CopyCells(b, Ascending((scroll_top_margin + 1) * Cols,
                                    (scroll_bottom_margin - scroll_top_margin - 1) * Cols), -Cols),
             scroll_bottom_margin - 1)

\* t is the top margin; the insertion of lines sets it to the cursor's row.
flanterm_fb_revscroll(b, t) ==
    ClearRow(CopyCells(b, Descending((scroll_bottom_margin - 1) * Cols - 1,
                                     NoLess(scroll_bottom_margin - 1 - t) * Cols), Cols), t)

----
\* The cursor.

Clamp(v, n) == IF v < 0 THEN 0 ELSE IF v >= n THEN n - 1 ELSE v

set_cursor_pos(x, y) == cursor_x' = Clamp(x, Cols) /\ cursor_y' = Clamp(y, Rows)

CursorRow == IF cursor_y >= Rows THEN Rows - 1 ELSE cursor_y

\* The framebuffer while a flush runs: a record [grid, map, fb].
Plot(p, i, c) == [p EXCEPT !.fb[i] = c]

draw_cursor(p) ==
    LET i == cursor_y * Cols + cursor_x
        c == IF p.map[i] # NULL THEN queue[p.map[i]].c ELSE p.grid[i]
    IN  IF cursor_x >= Cols \/ cursor_y >= Rows THEN p
        ELSE [Plot(p, i, Swapped(c)) EXCEPT !.grid[i] = c, !.map[i] = NULL]

PlotItem(p, q) ==
    LET i == q.y * Cols + q.x IN
    IF p.map[i] = NULL THEN p
    ELSE [Plot(p, i, q.c) EXCEPT !.grid[i] = q.c, !.map[i] = NULL]

\* Mutant: the cell the cursor left is only plotted while the cursor is on.
HideOldCursor_OnlyWhenOn(p) ==
    LET x == old_cursor.x
        y == old_cursor.y
    IN  IF /\ cursor_enabled
           /\ x # cursor_x \/ y # cursor_y
           /\ x < Cols /\ y < Rows
        THEN Plot(p, y * Cols + x, p.grid[y * Cols + x]) ELSE p

HideOldCursor(p) ==
    LET x == old_cursor.x
        y == old_cursor.y
    IN  IF /\ x # cursor_x \/ y # cursor_y \/ ~cursor_enabled
           /\ x < Cols /\ y < Rows
        THEN Plot(p, y * Cols + x, p.grid[y * Cols + x]) ELSE p

----
FullRefresh(g) == [g EXCEPT ![0] = Swapped(g[0])]

Init ==
    /\ text = DefaultText
    /\ \E s \in Screens : grid = [i \in Cells |-> Char(s[i], text)]
    /\ queue = <<>> /\ map = [i \in Cells |-> NULL]
    /\ cursor_x = 0 /\ cursor_y = 0 /\ old_cursor = [x |-> 0, y |-> 0]
    /\ fb = FullRefresh(grid)
    /\ saved = [text |-> [fg |-> Black, bg |-> Black], x |-> 0, y |-> 0]
    /\ cursor_enabled = TRUE /\ scroll_enabled = TRUE
    /\ scroll_top_margin = 0 /\ scroll_bottom_margin = Rows
    /\ calls = 0

Call == calls < MaxCalls /\ calls' = calls + 1

\* Mutant: the new line under the region's last one does not go back.
NextLine_GoesOn(b) ==
    LET y == cursor_y + 1 IN
    [buffer |-> IF y = scroll_bottom_margin THEN flanterm_fb_scroll(b) ELSE b,
     y |-> IF y >= Cols THEN Cols - 1 ELSE y]

\* The comparison with cols, not rows, is the code's.
NextLine(b) ==
    LET y == IF cursor_y + 1 = scroll_bottom_margin THEN cursor_y ELSE cursor_y + 1 IN
    [buffer |-> IF cursor_y + 1 = scroll_bottom_margin THEN flanterm_fb_scroll(b) ELSE b,
     y |-> IF y >= Cols THEN Cols - 1 ELSE y]

raw_putchar ==
    /\ Call
    /\ \E g \in Glyphs :
         LET wraps == cursor_x >= Cols /\ (cursor_y < scroll_bottom_margin - 1 \/ scroll_enabled)
             line == IF wraps THEN NextLine(Buffer) ELSE [buffer |-> Buffer, y |-> cursor_y]
             x == IF wraps THEN 0 ELSE cursor_x
         IN  /\ SetBuffer(push_to_queue(line.buffer, Char(g, text), x, line.y))
             /\ cursor_x' = x + 1 /\ cursor_y' = line.y
    /\ UNCHANGED <<plotVars, textVars, modeVars>>

scroll ==
    /\ Call
    /\ SetBuffer(flanterm_fb_scroll(Buffer))
    /\ UNCHANGED <<cursorVars, plotVars, textVars, modeVars>>

revscroll ==
    /\ Call
    /\ \E t \in {scroll_top_margin, CursorRow} : SetBuffer(flanterm_fb_revscroll(Buffer, t))
    /\ UNCHANGED <<cursorVars, plotVars, textVars, modeVars>>

clear ==
    /\ Call
    /\ SetBuffer(FoldLeft(LAMBDA b, y : ClearRow(b, y), Buffer, [y \in 1 .. Rows |-> y - 1]))
    /\ IF scroll_enabled THEN cursor_x' = 0 /\ cursor_y' = 0 ELSE UNCHANGED cursorVars
    /\ UNCHANGED <<plotVars, textVars, modeVars>>

move_character ==
    /\ Call
    /\ \E old_x \in 0 .. Cols - 1 : \E new_x \in {old_x - 1, old_x + 1} \ {-1} :
         SetBuffer(push_to_queue(Buffer, Current(Buffer, CursorRow * Cols + old_x), new_x, CursorRow))
    /\ UNCHANGED <<cursorVars, plotVars, textVars, modeVars>>

MoveCursor ==
    /\ Call
    /\ \E x \in {-1, 0, Cols - 1, Cols}, y \in -1 .. Rows : set_cursor_pos(x, y)
    /\ UNCHANGED <<cellVars, plotVars, textVars, modeVars>>

set_text ==
    /\ Call
    /\ ~scroll_enabled
    /\ text' \in Palettes \cup {Swapped(text)}
    /\ UNCHANGED <<cellVars, cursorVars, plotVars, saved, modeVars>>

save_state ==
    /\ Call
    /\ scroll_enabled
    /\ saved' = [text |-> text, x |-> cursor_x, y |-> cursor_y]
    /\ UNCHANGED <<cellVars, cursorVars, plotVars, text, modeVars>>

restore_state ==
    /\ Call
    /\ scroll_enabled
    /\ text' = saved.text /\ cursor_x' = saved.x /\ cursor_y' = saved.y
    /\ UNCHANGED <<cellVars, plotVars, saved, modeVars>>

\* Mutant: the queue is not emptied.
double_buffer_flush_KeepsQueue ==
    LET p == [grid |-> grid, map |-> map, fb |-> fb]
        drawn == IF cursor_enabled THEN draw_cursor(p) ELSE p
        done == HideOldCursor(FoldLeft(PlotItem, drawn, queue))
    IN  /\ scroll_enabled
        /\ grid' = done.grid /\ map' = done.map /\ fb' = done.fb
        /\ old_cursor' = [x |-> cursor_x, y |-> cursor_y]
        /\ UNCHANGED <<queue, cursorVars, textVars, modeVars, calls>>

\* flanterm_write flushes when the parser is done with its bytes.
double_buffer_flush ==
    LET p == [grid |-> grid, map |-> map, fb |-> fb]
        drawn == IF cursor_enabled THEN draw_cursor(p) ELSE p
        done == HideOldCursor(FoldLeft(PlotItem, drawn, queue))
    IN  /\ scroll_enabled
        /\ grid' = done.grid /\ map' = done.map /\ fb' = done.fb
        /\ old_cursor' = [x |-> cursor_x, y |-> cursor_y]
        /\ queue' = <<>>
        /\ UNCHANGED <<cursorVars, textVars, modeVars, calls>>

----
\* The parser's modes.  Nothing scrolls at the end of a line while a control
\* sequence runs; margins leave two rows or more and move the cursor home.

ControlSequence ==
    /\ scroll_enabled' = ~scroll_enabled
    /\ UNCHANGED <<cellVars, cursorVars, plotVars, textVars, cursor_enabled,
                   scroll_top_margin, scroll_bottom_margin, calls>>

SetMargins ==
    /\ Call
    /\ ~scroll_enabled
    /\ \E t \in 0 .. Rows - 1, b \in 0 .. Rows :
         /\ t < b - 1
         /\ scroll_top_margin' = t /\ scroll_bottom_margin' = b
    /\ set_cursor_pos(0, 0)
    /\ UNCHANGED <<cellVars, plotVars, textVars, cursor_enabled, scroll_enabled>>

ShowCursor ==
    /\ Call
    /\ scroll_enabled
    /\ cursor_enabled' = ~cursor_enabled
    /\ UNCHANGED <<cellVars, cursorVars, plotVars, textVars, scroll_enabled,
                   scroll_top_margin, scroll_bottom_margin>>

Next ==
    \/ raw_putchar \/ scroll \/ revscroll \/ clear \/ move_character
    \/ MoveCursor \/ set_text \/ save_state \/ restore_state
    \/ double_buffer_flush \/ ControlSequence \/ SetMargins \/ ShowCursor

Spec == Init /\ [][Next]_vars

----
(* Types.  The queue never holds more items than the screen has cells, the  *)
(* number flanterm_fb_init allocates.                                       *)
TypeOK ==
    LET Text == [fg : Colours, bg : Colours]
        Chars == [c : Glyphs, fg : Colours, bg : Colours]
    IN  /\ grid \in [Cells -> Chars] /\ fb \in [Cells -> Chars]
        /\ queue \in Seq([x : 0 .. Cols - 1, y : 0 .. Rows - 1, c : Chars])
        /\ Len(queue) <= Rows * Cols
        /\ map \in [Cells -> 0 .. Rows * Cols]
        /\ cursor_x \in Nat /\ cursor_y \in Nat
        /\ old_cursor \in [x : Nat, y : Nat]
        /\ text \in Text /\ saved \in [text : Text, x : Nat, y : Nat]
        /\ cursor_enabled \in BOOLEAN /\ scroll_enabled \in BOOLEAN
        /\ scroll_top_margin \in 0 .. Rows - 2
        /\ scroll_bottom_margin \in scroll_top_margin + 2 .. Rows
        /\ calls \in 0 .. MaxCalls

(* Between two calls the items of the queue and the entries of the map      *)
(* belong together one to one: no cell is queued twice, and none is queued  *)
(* without the map knowing (push_to_queue, draw_cursor and the flush).      *)
QueueIsExact ==
    /\ \A k \in DOMAIN queue : map[queue[k].y * Cols + queue[k].x] = k
    /\ \A i \in Cells : map[i] # NULL =>
         /\ map[i] \in DOMAIN queue
         /\ queue[map[i]].y * Cols + queue[map[i]].x = i

(* The framebuffer shows the grid; only the cell of the cursor as of the    *)
(* last flush may have its colours exchanged.  No second cursor stays       *)
(* behind, and no cell is plotted without the grid or the other way round.  *)
FbShowsGrid ==
    \A i \in Cells :
        \/ fb[i] = grid[i]
        \/ /\ fb[i] = Swapped(grid[i])
           /\ old_cursor.x < Cols /\ i = old_cursor.y * Cols + old_cursor.x

(* While the whole screen scrolls, writing never takes the cursor's row off *)
(* the screen: at the bottom the screen scrolls instead (raw_putchar).      *)
CursorRowOnScreen ==
    [][ /\ scroll_top_margin = 0 /\ scroll_bottom_margin = Rows
        /\ cursor_y < Rows /\ saved.y < Rows
        => cursor_y' < Rows ]_vars

(* The queue is invisible: the console behaves like a screen whose cells    *)
(* change at once and are shown by the flush (all of fb.c's calls).         *)
S == INSTANCE Screen WITH
        cells <- [i \in Cells |-> Current(Buffer, i)], shown <- fb,
        top <- scroll_top_margin, bottom <- scroll_bottom_margin
ImplementsScreen == S!ScreenSpec
====
