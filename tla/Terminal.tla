---- MODULE Terminal ----
(***************************************************************************)
(* flanterm's parser (flanterm.c): one action per byte, or per number of a *)
(* control sequence, and what it does to the screen behind it.  Loops over *)
(* cells run in the order of the code.                                     *)
(*                                                                         *)
(* "other" is every byte an action does not name, HPA the backquote.  A    *)
(* cell holds where its character came from: its own place at the start,   *)
(* Blank, or a written character; the code never looks at it.  Colours are *)
(* the subject of Colours, the queue behind the screen of FbConsole.  The  *)
(* kernel sets no callback, so the commands that only call one do nothing. *)
(***************************************************************************)
EXTENDS Integers, Sequences, SequencesExt

CONSTANTS
    Cols, Rows,
    TabSize,     \* 8
    Word,        \* 2^32: one more than the largest esc_values[i]
    MaxValues,   \* FLANTERM_MAX_ESC_VALUES
    Base,        \* 64: values of the six bits a UTF-8 byte after the first holds
    LeadValues,  \* <<32, 16, 8>>: values in the first of two, three and four bytes
    Cp437,       \* code points with a glyph in code page 437
    Combining,   \* mk_wcwidth's table: sorted intervals [first, last]
    NonPrinting, \* code points below 32, and 0x7f .. 0x9f
    Wide,        \* code points two columns wide
    Numbers,     \* the numbers of control sequences
    Starts,      \* [x, y, top, bottom]: screens on which the run begins
    MaxItems     \* bound: bytes outside of sequences

ASSUME TerminalAssumption ==
    /\ Rows \in Nat \ {0, 1} /\ Cols \in Nat /\ Cols >= Rows
    /\ TabSize \in Nat \ {0} /\ MaxValues \in Nat \ {0} /\ MaxItems \in Nat
    /\ Word \in Nat /\ Numbers \subseteq 0 .. Word - 1 /\ Rows < Word
    /\ Starts \subseteq [x : 0 .. Cols, y : 0 .. Rows - 1, top : 0 .. Rows - 2, bottom : 2 .. Rows]
    /\ \A s \in Starts : s.top + 2 <= s.bottom
    /\ Base \in Nat \ {0} /\ LeadValues \in [1 .. 3 -> Nat \ {0}]
    /\ Combining \in Seq([first : Nat, last : Nat]) /\ Combining # <<>>
    /\ \A i \in 1 .. Len(Combining) : Combining[i].first <= Combining[i].last
    /\ \A i \in 1 .. Len(Combining) - 1 : Combining[i].last < Combining[i + 1].first

Cells == 0 .. Rows * Cols - 1
RowOf(i) == i \div Cols
CellAt(x, y) == y * Cols + x
Blank == -1
Letter == -2
Drawing == -3

VARIABLES
    screen,           \* [cells, x, y]: x = Cols after the last column
    scroll_top_margin, scroll_bottom_margin,
    saved_cursor,     \* CSI s
    saved_state,      \* ESC 7: cursor and character set
    cursor_enabled, insert_mode,
    charsets, current_charset, g_select,
    escape, csi, control_sequence, osc, osc_escape, dec_private, discard_next,
    escape_offset,    \* bytes since ESC, 3 for more than 2
    esc_values, rrr,  \* numbers so far; rrr: the last one may get more digits
    unicode_remaining, code_point,
    items

marginVars == <<scroll_top_margin, scroll_bottom_margin>>
savedVars == <<saved_cursor, saved_state>>
charsetVars == <<charsets, current_charset, g_select>>
valueVars == <<esc_values, rrr, dec_private>>
flagVars == <<csi, control_sequence, osc, osc_escape, discard_next>>
modeVars == <<cursor_enabled, insert_mode>>
vars == <<screen, marginVars, savedVars, modeVars, charsetVars, valueVars, flagVars,
          escape, escape_offset, unicode_remaining, code_point, items>>

Least(a, b) == IF a < b THEN a ELSE b

----
\* The screen behind the parser.

\* Positions are 64-bit numbers; the sign is tested on their low half.
Clamp(v, n) ==
    IF v \in 0 .. n - 1 THEN v ELSE IF v % Word >= Word \div 2 THEN 0 ELSE n - 1
set_cursor_pos(s, x, y) == [s EXCEPT !.x = Clamp(x, Cols), !.y = Clamp(y, Rows)]

X == IF screen.x >= Cols THEN Cols - 1 ELSE screen.x
Y == IF screen.y >= Rows THEN Rows - 1 ELSE screen.y

scroll(s) ==
    [s EXCEPT !.cells = [i \in Cells |->
        IF RowOf(i) = scroll_bottom_margin - 1 THEN Blank
        ELSE IF RowOf(i) \in scroll_top_margin .. scroll_bottom_margin - 1
        THEN s.cells[i + Cols] ELSE s.cells[i]]]

revscroll(s, top) ==
    [s EXCEPT !.cells = [i \in Cells |->
        IF RowOf(i) = top THEN Blank
        ELSE IF RowOf(i) \in top + 1 .. scroll_bottom_margin - 1
        THEN s.cells[i - Cols] ELSE s.cells[i]]]

Store(s, g, x, y) ==
    IF x < Cols /\ y < Rows THEN [s EXCEPT !.cells[CellAt(x, y)] = g] ELSE s

NextLine(s) ==
    LET line == IF s.y + 1 = scroll_bottom_margin THEN scroll(s) ELSE [s EXCEPT !.y = @ + 1]
    IN  [line EXCEPT !.x = 0, !.y = Least(@, Cols - 1)]

\* scroll_enabled is FALSE while a control sequence runs.
raw_putchar(s, g, scroll_enabled) ==
    LET line == IF s.x >= Cols /\ (s.y < scroll_bottom_margin - 1 \/ scroll_enabled)
                THEN NextLine(s) ELSE s
    IN  [Store(line, g, line.x, line.y) EXCEPT !.x = line.x + 1]

move_character(s, new, old, y) ==
    IF new < Cols THEN Store(s, s.cells[CellAt(old, y)], new, y) ELSE s

Upwards(a, b) == [k \in 1 .. b - a + 1 |-> a + k - 1]
Downwards(a, b) == [k \in 1 .. a - b + 1 |-> a - k + 1]

Blanks(s, n) == FoldLeft(LAMBDA a, k : raw_putchar(a, Blank, FALSE), s, Upwards(1, n))

----
\* What arrives, and which part of the parser takes it (flanterm_putchar).

NextOffset == IF escape_offset < 3 THEN escape_offset + 1 ELSE 3

\* A byte that is no part of a character ends one that is not complete.
Arrives == ~discard_next /\ unicode_remaining' = 0 /\ code_point' = 0

AtGround ==
    /\ Arrives
    /\ ~escape /\ escape' = escape
    /\ items < MaxItems /\ items' = items + 1
    /\ UNCHANGED <<escape_offset, savedVars, marginVars, cursor_enabled>>

InSequence == Arrives /\ escape /\ UNCHANGED items

\* The count and the values of a sequence are not read after its end.
Forgotten == escape_offset' = 0 /\ esc_values' = <<>> /\ rrr' = FALSE
Ends == escape' = FALSE /\ Forgotten
GoesOn ==
    /\ escape' = TRUE /\ escape_offset' = NextOffset
    /\ UNCHANGED <<screen, savedVars, marginVars, modeVars, charsetVars>>

Init ==
    /\ \E s \in Starts :
         /\ screen = [cells |-> [i \in Cells |-> i], x |-> s.x, y |-> s.y]
         /\ scroll_top_margin = s.top /\ scroll_bottom_margin = s.bottom
    /\ saved_cursor = [x |-> 0, y |-> 0]
    /\ saved_state = [x |-> 0, y |-> 0, charset |-> 0]
    /\ cursor_enabled = TRUE /\ insert_mode = FALSE
    /\ charsets = [k \in {0, 1} |-> IF k = 0 THEN "default" ELSE "special"]
    /\ current_charset = 0 /\ g_select = 0
    /\ escape = FALSE /\ csi = FALSE /\ control_sequence = FALSE
    /\ osc = FALSE /\ osc_escape = FALSE /\ dec_private = FALSE /\ discard_next = FALSE
    /\ escape_offset = 0 /\ esc_values = <<>> /\ rrr = FALSE
    /\ unicode_remaining = 0 /\ code_point = 0 /\ items = 0

\* Mutant: the sequence itself goes on.
Cancel_KeepsSequence ==
    /\ discard_next' = FALSE /\ escape' = FALSE /\ csi' = FALSE
    /\ UNCHANGED control_sequence
    /\ unicode_remaining' = 0 /\ code_point' = 0 /\ osc' = FALSE /\ osc_escape' = FALSE /\ g_select' = 0
    /\ Forgotten
    /\ UNCHANGED <<screen, marginVars, savedVars, modeVars, charsets, current_charset,
                   dec_private, items>>

\* CAN or SUB, or any byte that is to be discarded.
Cancel ==
    /\ discard_next' = FALSE /\ escape' = FALSE /\ csi' = FALSE
    /\ control_sequence' = FALSE
    /\ unicode_remaining' = 0 /\ code_point' = 0 /\ osc' = FALSE /\ osc_escape' = FALSE /\ g_select' = 0
    /\ Forgotten
    /\ UNCHANGED <<screen, marginVars, savedVars, modeVars, charsets, current_charset,
                   dec_private, items>>

----
\* UTF-8, in and outside of sequences.

\* bits << (6 * k)
Shifted(bits, k) == bits * <<1, Base, Base * Base, Base * Base * Base>>[k + 1]

UnicodeLead ==
    /\ ~discard_next
    /\ items < MaxItems /\ items' = items + 1
    /\ \E k \in 1 .. 3 : \E bits \in 0 .. LeadValues[k] - 1 :
         unicode_remaining' = k /\ code_point' = Shifted(bits, k)
    /\ UNCHANGED <<screen, marginVars, savedVars, modeVars, charsetVars, valueVars,
                   flagVars, escape, escape_offset>>

\* Mutant: the interval in the middle is left out together with the upper half.
bisearch_Skips(ucs, table) ==
    LET mid(b) == (b[1] + b[2]) \div 2
        search[b \in (1 .. Len(table) + 1) \X (0 .. Len(table))] ==
            /\ b[1] <= b[2]
            /\ IF ucs > table[mid(b)].last THEN search[<<mid(b) + 1, b[2]>>]
               ELSE IF ucs < table[mid(b)].first
               THEN mid(b) > 1 /\ search[<<b[1], mid(b) - 2>>]
               ELSE TRUE
    IN  table[1].first <= ucs /\ ucs <= table[Len(table)].last /\ search[<<1, Len(table)>>]

\* b: the bounds of the part of the table that is left.
bisearch(ucs, table) ==
    LET mid(b) == (b[1] + b[2]) \div 2
        search[b \in (1 .. Len(table) + 1) \X (0 .. Len(table))] ==
            /\ b[1] <= b[2]
            /\ IF ucs > table[mid(b)].last THEN search[<<mid(b) + 1, b[2]>>]
               ELSE IF ucs < table[mid(b)].first THEN search[<<b[1], mid(b) - 1>>]
               ELSE TRUE
    IN  table[1].first <= ucs /\ ucs <= table[Len(table)].last /\ search[<<1, Len(table)>>]

mk_wcwidth(ucs) ==
    IF ucs = 0 THEN 0
    ELSE IF ucs \in NonPrinting THEN 1
    ELSE IF bisearch(ucs, Combining) THEN 0
    ELSE IF ucs \in Wide THEN 2 ELSE 1

\* A code point outside of the code page is shown as a box of its width.
unicode_to_cp437(s, ucs) ==
    IF ucs \in Cp437 THEN raw_putchar(s, Letter, TRUE)
    ELSE FoldLeft(LAMBDA a, k : raw_putchar(a, IF k = 1 THEN Letter ELSE Blank, TRUE),
                  s, Upwards(1, mk_wcwidth(ucs)))

UnicodeContinues ==
    /\ ~discard_next /\ unicode_remaining # 0
    /\ unicode_remaining' = unicode_remaining - 1
    /\ \E bits \in 0 .. Base - 1 :
         LET ucs == code_point + Shifted(bits, unicode_remaining')
         IN  IF unicode_remaining' # 0 THEN code_point' = ucs /\ UNCHANGED screen
             ELSE code_point' = 0 /\ screen' = unicode_to_cp437(screen, ucs)
    /\ UNCHANGED <<marginVars, savedVars, modeVars, charsetVars, valueVars, flagVars,
                   escape, escape_offset, items>>

----
\* Outside of sequences.

StartSequence ==
    /\ Arrives /\ ~escape /\ g_select = 0
    /\ items < MaxItems /\ items' = items + 1
    /\ \E c \in {"ESC", "CSI"} : csi' = (c = "CSI" \/ csi)
    /\ escape' = TRUE /\ escape_offset' = 0
    /\ UNCHANGED <<screen, marginVars, savedVars, modeVars, charsetVars, valueVars,
                   control_sequence, osc, osc_escape, discard_next>>

\* The byte after ESC ( or ESC ) names the character set.
Designate ==
    /\ AtGround /\ g_select # 0
    /\ g_select' = 0
    /\ \E c \in {"B", "0", "other"} :
         charsets' = IF c = "B" THEN [charsets EXCEPT ![g_select - 1] = "default"]
                     ELSE IF c = "0" THEN [charsets EXCEPT ![g_select - 1] = "special"]
                     ELSE charsets
    /\ UNCHANGED <<screen, insert_mode, current_charset, valueVars, flagVars>>

LineFeed(s, x) ==
    IF Y = scroll_bottom_margin - 1 THEN set_cursor_pos(scroll(s), x, Y)
    ELSE set_cursor_pos(s, x, Y + 1)

Tabbed ==
    LET stop == X \div TabSize + 1
    IN  set_cursor_pos(screen, IF stop >= Cols THEN Cols - 1 ELSE stop * TabSize, Y)

Control ==
    /\ AtGround /\ g_select = 0
    /\ \E c \in {"NUL", "TAB", "LF", "BS", "CR", "SO", "SI"} :
         /\ screen' = CASE c = "TAB" -> Tabbed
                        [] c = "LF" -> LineFeed(screen, 0)
                        [] c = "BS" -> set_cursor_pos(screen, X - 1, Y)
                        [] c = "CR" -> set_cursor_pos(screen, 0, Y)
                        [] OTHER -> screen
         /\ current_charset' =
              IF c = "SO" THEN 1 ELSE IF c = "SI" THEN 0 ELSE current_charset
    /\ UNCHANGED <<insert_mode, charsets, g_select, valueVars, flagVars>>

\* In insert mode the rest of the line moves also for a byte without a glyph.
MadeRoom ==
    IF insert_mode
    THEN FoldLeft(LAMBDA a, i : move_character(a, i + 1, i, Y), screen, Downwards(Cols - 1, X))
    ELSE screen

\* A byte is a letter in both character sets, a drawing in the special one, or
\* no glyph at all.
PrintCharacter ==
    /\ AtGround /\ g_select = 0
    /\ \E kind \in {"letter", "drawing", "none"} :
         LET glyph == IF kind = "drawing" /\ charsets[current_charset] = "special"
                      THEN Drawing ELSE Letter
         IN  screen' = IF kind = "none" THEN MadeRoom ELSE raw_putchar(MadeRoom, glyph, TRUE)
    /\ UNCHANGED <<insert_mode, charsetVars, valueVars, flagVars>>

----
\* escape_parse: after ESC.

InEscape == InSequence /\ ~osc /\ ~control_sequence /\ ~csi

EscapeOpens ==
    /\ \/ /\ InEscape                                                 \* ]
          /\ osc' = TRUE /\ osc_escape' = FALSE
          /\ UNCHANGED <<csi, control_sequence, esc_values, rrr>>
       \/ /\ \/ InEscape                                              \* [
             \/ InSequence /\ ~osc /\ ~control_sequence /\ csi         \* any
          /\ csi' = FALSE /\ control_sequence' = TRUE
          /\ esc_values' = <<>> /\ rrr' = FALSE
          /\ UNCHANGED <<osc, osc_escape>>
    /\ GoesOn
    /\ UNCHANGED <<dec_private, discard_next>>

\* ESC 7 and ESC 8.
EscapeSaves ==
    /\ InEscape /\ Ends
    /\ saved_state' = [x |-> screen.x, y |-> screen.y, charset |-> current_charset]
    /\ UNCHANGED <<screen, saved_cursor, marginVars, modeVars, charsetVars, dec_private, flagVars>>

EscapeRestores ==
    /\ InEscape /\ Ends
    /\ screen' = [screen EXCEPT !.x = saved_state.x, !.y = saved_state.y]
    /\ current_charset' = saved_state.charset
    /\ UNCHANGED <<savedVars, marginVars, modeVars, charsets, g_select, dec_private, flagVars>>

\* ESC c: flanterm_context_reinit and clear.
EscapeResets ==
    /\ InEscape /\ Ends
    /\ screen' = [cells |-> [i \in Cells |-> Blank], x |-> 0, y |-> 0]
    /\ scroll_top_margin' = 0 /\ scroll_bottom_margin' = Rows
    /\ saved_cursor' = [x |-> 0, y |-> 0]
    /\ cursor_enabled' = TRUE /\ insert_mode' = FALSE
    /\ charsets' = [k \in {0, 1} |-> IF k = 0 THEN "default" ELSE "special"]
    /\ current_charset' = 0 /\ g_select' = 0
    /\ dec_private' = FALSE
    /\ UNCHANGED <<saved_state, flagVars>>

\* ESC M goes back to the first column, as ESC E does.
EscapeScrolls ==
    /\ Ends
    /\ InEscape
    /\ \/ screen' = LineFeed(screen, X)                               \* D
       \/ screen' = LineFeed(screen, 0)                               \* E
       \/ screen' = IF Y = scroll_top_margin                          \* M
                    THEN set_cursor_pos(revscroll(screen, scroll_top_margin), 0, Y)
                    ELSE set_cursor_pos(screen, 0, Y - 1)
    /\ UNCHANGED <<savedVars, marginVars, modeVars, charsetVars, dec_private, flagVars>>

\* ESC ( and ESC ); any other byte just ends the sequence.
EscapeOthers ==
    /\ Ends
    /\ InEscape
    /\ \E c \in {"(", ")", "other"} :
         g_select' = IF c = "(" THEN 1 ELSE IF c = ")" THEN 2 ELSE g_select
    /\ UNCHANGED <<screen, savedVars, marginVars, modeVars, charsets, current_charset,
                   dec_private, flagVars>>

\* osc_parse: a string ends with BEL or ESC \.
OscByte ==
    /\ InSequence /\ osc
    /\ \E c \in {"BEL", "ESC", "\\", "other"} :
         IF c = "BEL" \/ (osc_escape /\ c = "\\")
         THEN Ends /\ osc' = FALSE /\ osc_escape' = FALSE
         ELSE GoesOn /\ osc' = TRUE /\ osc_escape' = (c = "ESC") /\ UNCHANGED <<esc_values, rrr>>
    /\ UNCHANGED <<screen, savedVars, marginVars, modeVars, charsetVars, dec_private,
                   csi, control_sequence, discard_next>>

----
\* control_sequence_parse: the bytes up to the final one.

InControl == InSequence /\ ~osc /\ control_sequence
First == NextOffset = 2
Full == Len(esc_values) = MaxValues

\* Mutant: the table of values has no end.
Number_NoLimit ==
    /\ InControl /\ ~rrr
    /\ \E n \in Numbers : esc_values' = Append(esc_values, n) /\ rrr' = TRUE
    /\ GoesOn
    /\ UNCHANGED <<dec_private, flagVars>>

\* All digits of a number at once.
Number ==
    /\ InControl /\ ~rrr
    /\ IF Full THEN UNCHANGED <<esc_values, rrr>>
       ELSE \E n \in Numbers : esc_values' = Append(esc_values, n) /\ rrr' = TRUE
    /\ GoesOn
    /\ UNCHANGED <<dec_private, flagVars>>

Separator ==
    /\ InControl
    /\ rrr' = FALSE
    /\ esc_values' = IF rrr \/ Full THEN esc_values ELSE Append(esc_values, 0)
    /\ GoesOn
    /\ UNCHANGED <<dec_private, flagVars>>

PrivateMark ==
    /\ InControl /\ First
    /\ dec_private' = TRUE
    /\ GoesOn
    /\ UNCHANGED <<esc_values, rrr, flagVars>>

\* ESC [ [ : a function key of the Linux console, whose next byte is dropped.
FunctionKey ==
    /\ InControl /\ First
    /\ discard_next' = TRUE /\ control_sequence' = FALSE
    /\ Ends
    /\ UNCHANGED <<screen, savedVars, marginVars, modeVars, charsetVars, dec_private,
                   csi, osc, osc_escape>>

\* The final byte.
Finishes ==
    /\ InControl
    /\ control_sequence' = FALSE
    /\ Ends
    /\ UNCHANGED <<charsetVars, csi, osc, osc_escape, discard_next>>

Command == Finishes /\ ~dec_private /\ UNCHANGED <<dec_private, cursor_enabled>>

\* A command that changes the screen only.
ScreenCommand == Command /\ UNCHANGED <<savedVars, marginVars, insert_mode>>

Value(k, default) == IF k <= Len(esc_values) THEN esc_values[k] ELSE default
Count == Value(1, 1)

Private ==
    /\ Finishes /\ dec_private /\ dec_private' = FALSE
    /\ \E c \in {"h", "l", "other"} :
         cursor_enabled' = IF Len(esc_values) > 0 /\ Value(1, 1) = 25 /\ c # "other"
                            THEN c = "h" ELSE cursor_enabled
    /\ UNCHANGED <<screen, savedVars, marginVars, insert_mode>>

\* Whether a move from row a to the row b below it meets a margin.
MeetsMargin(a, b) == scroll_top_margin \in a .. b \/ scroll_bottom_margin \in a .. b

\* Mutant: the upper margin does not stop the cursor.
CursorUp_IgnoresMargin ==
    \E c \in {"A", "F"} :
      LET row == Y - Least(Count, Y)
      IN  /\ ScreenCommand
          /\ screen' = set_cursor_pos(screen, IF c = "F" THEN 0 ELSE X, row)

CursorUp ==
    \E c \in {"A", "F"} :
      LET row == Y - Least(Count, Y)
          stops == MeetsMargin(row, Y) /\ row < scroll_top_margin
      IN  /\ ScreenCommand
          /\ screen' = set_cursor_pos(screen, IF c = "F" THEN 0 ELSE X,
                                      IF stops THEN scroll_top_margin ELSE row)

CursorDown ==
    \E c \in {"B", "e", "E"} :
      LET row == Y + Least(Count, Rows - 1 - Y)
          stops == MeetsMargin(Y, row) /\ row >= scroll_bottom_margin
      IN  /\ ScreenCommand
          /\ screen' = set_cursor_pos(screen, IF c = "E" THEN 0 ELSE X,
                                      IF stops THEN scroll_bottom_margin - 1 ELSE row)

\* The subtraction wraps: row and column 0 are the last ones.
Before(n) == (n - 1) % Word
OneLess(n) == IF n = 0 THEN 0 ELSE n - 1

CursorAnywhere ==
    \E c \in {"C", "a", "D", "d", "G", "HPA", "H", "f", "u"} :
      /\ ScreenCommand
      /\ screen' =
           CASE c \in {"C", "a"} -> set_cursor_pos(screen, X + Least(Count, Cols - 1 - X), Y)
             [] c = "D" -> set_cursor_pos(screen, X - Least(Count, X), Y)
             [] c = "d" -> set_cursor_pos(screen, X, Least(Before(Count), Rows - 1))
             [] c \in {"G", "HPA"} -> set_cursor_pos(screen, Least(Before(Count), Cols - 1), Y)
             [] c = "u" -> set_cursor_pos(screen, saved_cursor.x, saved_cursor.y)
             [] OTHER -> set_cursor_pos(screen, Least(OneLess(Value(2, 1)), Cols - 1),
                                        Least(OneLess(Count), Rows - 1))

\* 's'.
SaveCursor ==
    /\ Command
    /\ saved_cursor' = [x |-> X, y |-> Y]
    /\ UNCHANGED <<screen, saved_state, marginVars, insert_mode>>

\* 'M' scrolls the region, wherever the cursor is.
DeleteLines ==
    /\ ScreenCommand
    /\ screen' = FoldLeft(LAMBDA s, k : scroll(s), screen, Upwards(1, Count))

\* 'L' makes the cursor's row the upper margin while it scrolls back.
InsertLines ==
    /\ ScreenCommand
    /\ screen' = FoldLeft(LAMBDA s, k : revscroll(s, Y), screen, Upwards(1, Count))

\* Mutant: the loop stops before the cell of the cursor.
EraseDisplay_OneLess ==
    /\ ScreenCommand
    /\ \/ /\ Value(1, 0) = 0
          /\ screen' = set_cursor_pos(
                Blanks(screen, (Rows - (Y + 1)) * Cols + (Cols - (X + 1))), X, Y)
       \/ /\ Value(1, 0) = 1
          /\ screen' = set_cursor_pos(Blanks(set_cursor_pos(screen, 0, 0), Y * Cols + X + 1), X, Y)
       \/ /\ Value(1, 0) \in {2, 3}
          /\ screen' = [screen EXCEPT !.cells = [i \in Cells |-> Blank]]
       \/ Value(1, 0) > 3 /\ UNCHANGED screen

\* 'J'.
EraseDisplay ==
    /\ ScreenCommand
    /\ \/ /\ Value(1, 0) = 0
          /\ screen' = set_cursor_pos(
                Blanks(screen, (Rows - (Y + 1)) * Cols + (Cols - (X + 1)) + 1), X, Y)
       \/ /\ Value(1, 0) = 1
          /\ screen' = set_cursor_pos(Blanks(set_cursor_pos(screen, 0, 0), Y * Cols + X + 1), X, Y)
       \/ /\ Value(1, 0) \in {2, 3}
          /\ screen' = [screen EXCEPT !.cells = [i \in Cells |-> Blank]]
       \/ Value(1, 0) > 3 /\ UNCHANGED screen

\* 'K'.
EraseLine ==
    /\ ScreenCommand
    /\ \/ /\ Value(1, 0) = 0
          /\ screen' = set_cursor_pos(Blanks(screen, Cols - X), X, Y)
       \/ /\ Value(1, 0) = 1
          /\ screen' = Blanks(set_cursor_pos(screen, 0, Y), X)
       \/ /\ Value(1, 0) = 2
          /\ screen' = set_cursor_pos(Blanks(set_cursor_pos(screen, 0, Y), Cols), X, Y)
       \/ Value(1, 0) > 2 /\ UNCHANGED screen

\* '@'.
InsertChars ==
    LET move(s, i) == raw_putchar(set_cursor_pos(move_character(s, i + Count, i, Y), i, Y), Blank, FALSE)
    IN  /\ ScreenCommand
        /\ screen' = set_cursor_pos(FoldLeft(move, screen, Downwards(Cols - 1, X)), X, Y)

\* 'P' blanks as many cells at the end of the line as it deletes, and 'X' as many
\* from the cursor on; neither loop stops at the end of the line.
DeleteOrEraseChars ==
    LET move(s, i) == move_character(s, i - Count, i, Y)
        moved == FoldLeft(move, screen, Upwards(X + Count, Cols - 1))
    IN  \/ /\ ScreenCommand
           /\ screen' = set_cursor_pos(Blanks(set_cursor_pos(moved, Cols - Count, Y), Count), X, Y)
        \/ /\ ScreenCommand
           /\ screen' = set_cursor_pos(Blanks(screen, Count), X, Y)

\* 'r'.  Fewer than two rows, or rows that do not exist, make the whole screen
\* the region.
SetMargins ==
    LET first == IF Value(1, 1) = 0 THEN 1 ELSE Value(1, 1)
        last == IF Value(2, 1) = 0 THEN 1 ELSE Value(2, 1)
        top == IF Len(esc_values) > 0 THEN first - 1 ELSE 0
        bottom == IF Len(esc_values) > 1 THEN last ELSE Rows
        invalid == top >= Rows \/ bottom > Rows \/ top >= bottom - 1
    IN  /\ Command
        /\ scroll_top_margin' = IF invalid THEN 0 ELSE top
        /\ scroll_bottom_margin' = IF invalid THEN Rows ELSE bottom
        /\ screen' = set_cursor_pos(screen, 0, 0)
        /\ UNCHANGED <<savedVars, insert_mode>>

\* 'h' and 'l'; mode 4 is the only one there is.
ModeToggle ==
    \E c \in {"h", "l"} :
      /\ Command
      /\ insert_mode' = IF Len(esc_values) > 0 /\ Value(1, 1) = 4 THEN c = "h" ELSE insert_mode
      /\ UNCHANGED <<screen, savedVars, marginVars>>

\* Callbacks, colours and bytes that mean nothing.
NoEffect ==
    /\ ScreenCommand
    /\ UNCHANGED screen

Next ==
    \/ Cancel \/ UnicodeLead \/ UnicodeContinues
    \/ StartSequence \/ Designate \/ Control \/ PrintCharacter
    \/ EscapeOpens \/ EscapeSaves \/ EscapeRestores \/ EscapeResets \/ EscapeScrolls
    \/ EscapeOthers \/ OscByte
    \/ Number \/ Separator \/ PrivateMark \/ FunctionKey \/ Private
    \/ CursorUp \/ CursorDown \/ CursorAnywhere \/ SaveCursor
    \/ DeleteLines \/ InsertLines \/ EraseDisplay \/ EraseLine
    \/ InsertChars \/ DeleteOrEraseChars \/ SetMargins \/ ModeToggle \/ NoEffect

Spec == Init /\ [][Next]_vars

----
(* Types.  The margins enclose two rows or more, the table of values never  *)
(* holds more than it has room for.                                         *)
TypeOK ==
    LET Positions == [x : Nat, y : Nat] IN
    /\ screen.cells \in [Cells -> Cells \cup {Blank, Letter, Drawing}]
    /\ screen.x \in 0 .. Cols /\ screen.y \in Nat
    /\ scroll_top_margin \in 0 .. Rows - 2
    /\ scroll_bottom_margin \in scroll_top_margin + 2 .. Rows
    /\ saved_cursor \in Positions
    /\ saved_state \in [x : Nat, y : Nat, charset : {0, 1}]
    /\ cursor_enabled \in BOOLEAN /\ insert_mode \in BOOLEAN
    /\ charsets \in [{0, 1} -> {"default", "special"}]
    /\ current_charset \in {0, 1} /\ g_select \in 0 .. 2
    /\ escape \in BOOLEAN /\ csi \in BOOLEAN /\ control_sequence \in BOOLEAN
    /\ osc \in BOOLEAN /\ osc_escape \in BOOLEAN /\ dec_private \in BOOLEAN
    /\ discard_next \in BOOLEAN /\ rrr \in BOOLEAN
    /\ escape_offset \in 0 .. 3 /\ unicode_remaining \in 0 .. 3 /\ code_point \in Nat
    /\ esc_values \in Seq(0 .. Word - 1) /\ Len(esc_values) <= MaxValues
    /\ items \in 0 .. MaxItems

(* The flags of the parser describe one state: a sequence is a control      *)
(* sequence, a string, or has just begun; outside of sequences nothing of   *)
(* one is left, however it ended (the cleanups of control_sequence_parse,   *)
(* osc_parse and escape_parse, and CAN).  dec_private alone survives CAN.   *)
OneStateAtATime ==
    /\ ~(control_sequence /\ osc) /\ ~(control_sequence /\ csi) /\ ~(osc /\ csi)
    /\ ~escape => ~control_sequence /\ ~osc /\ ~csi /\ escape_offset = 0
    /\ osc_escape => osc
    /\ esc_values # <<>> \/ rrr => control_sequence
    /\ rrr => esc_values # <<>>
    /\ discard_next \/ g_select # 0 => ~escape

(* A character takes the columns of its code point: one with a glyph of its *)
(* own, none if it combines, two if it is wide (bisearch finds a code point *)
(* in the table exactly if an interval holds it).                           *)
CharacterTakesItsWidth ==
    [][ \A bits \in 0 .. Base - 1 :
          LET ucs == code_point + bits
              combines == \E i \in DOMAIN Combining :
                            ucs \in Combining[i].first .. Combining[i].last
              next(x) == IF x = Cols THEN 1 ELSE x + 1
          IN  UnicodeContinues /\ unicode_remaining = 1
              /\ screen' = unicode_to_cp437(screen, ucs)
              => screen'.x = IF ucs \in Cp437 THEN next(screen.x)
                             ELSE IF ucs = 0 THEN screen.x
                             ELSE IF ucs \in NonPrinting THEN next(screen.x)
                             ELSE IF combines THEN screen.x
                             ELSE IF ucs \in Wide THEN next(next(screen.x))
                             ELSE next(screen.x) ]_vars

----
\* Where a command finds the cursor on a cell: not after the last column, where
\* the next character goes to the next line, nor below the screen.
OnCell == screen.x < Cols /\ screen.y < Rows
Here == CellAt(X, Y)
Line(x1, x2) == {CellAt(x, Y) : x \in x1 .. x2}

DisplayPart ==
    CASE Value(1, 0) = 0 ->
            {i \in Cells : i >= Here /\ (RowOf(i) < scroll_bottom_margin \/ RowOf(i) = Y)}
      [] Value(1, 0) = 1 -> {i \in Cells : i <= Here /\ RowOf(i) < scroll_bottom_margin}
      [] Value(1, 0) \in {2, 3} -> Cells
      [] OTHER -> {}
LinePart ==
    CASE Value(1, 0) = 0 -> Line(X, Cols - 1)
      [] Value(1, 0) = 1 -> Line(0, X - 1)
      [] Value(1, 0) = 2 -> Line(0, Cols - 1)
      [] OTHER -> {}

(* Commands that change cells change exactly those they name.  Erasing the  *)
(* display or the line blanks the named cells and leaves the cursor; rows   *)
(* below the bottom margin are out of the reach of the loop over            *)
(* raw_putchar (cases J and K of control_sequence_parse).  Insertion and    *)
(* deletion move the rest of the line and no other cell, as long as the     *)
(* count fits in it; insert mode moves it by one for each character         *)
(* (cases @, P and X, and flanterm_putchar's insert mode).                  *)
CommandsAreExact ==
    [][ LET blanked(S) == [i \in Cells |-> IF i \in S THEN Blank ELSE screen.cells[i]]
            rest(n) == Line(X + n, Cols - 1)
            inserted(n) == [i \in Cells |-> IF i \in rest(n) THEN screen.cells[i - n]
                                           ELSE IF i \in rest(0) THEN Blank ELSE screen.cells[i]]
            deleted(n) == [i \in Cells |-> IF i \in Line(X, Cols - 1 - n) THEN screen.cells[i + n]
                                          ELSE IF i \in rest(0) THEN Blank ELSE screen.cells[i]]
            becomes(c) == screen' = [screen EXCEPT !.cells = c]
        IN  OnCell =>
            /\ EraseDisplay => becomes(blanked(DisplayPart))
            /\ EraseLine => becomes(blanked(LinePart))
            /\ InsertChars /\ Count > 0 => becomes(inserted(Count))
            /\ DeleteOrEraseChars /\ Count <= Cols - X =>
                 becomes(deleted(Count)) \/ becomes(blanked(Line(X, X + Count - 1)))
            /\ PrintCharacter /\ insert_mode =>
                 \A i \in Cells \ {Here} :
                    screen'.cells[i] = IF i \in rest(1) THEN screen.cells[i - 1]
                                       ELSE screen.cells[i] ]_vars

(* A cursor between the margins stays there when it moves up or down, and   *)
(* no row outside of them changes when lines move (line feeds, cases A, B,  *)
(* E, F, L and M, and ESC D, E, M).                                         *)
MarginsHold ==
    [][ LET inside(y) == y \in scroll_top_margin .. scroll_bottom_margin - 1
        IN  inside(screen.y) /\ (CursorUp \/ CursorDown \/ Control \/ EscapeScrolls
                                \/ DeleteLines \/ InsertLines)
            => /\ inside(screen'.y)
               /\ \A i \in Cells : inside(RowOf(i)) \/ screen'.cells[i] = screen.cells[i] ]_vars
====
