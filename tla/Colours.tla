---- MODULE Colours ----
(***************************************************************************)
(* The colours of the text (sgr in flanterm.c, the setters of fb.c): the   *)
(* attributes a program asks for are kept beside the two colours the next  *)
(* character is drawn in, and each code updates both.                      *)
(***************************************************************************)
EXTENDS Integers, Sequences, SequencesExt

CONSTANTS
    Lists,    \* the values of the SGR sequences that arrive
    MaxCalls  \* bound: sequences in a run

ASSUME ColoursAssumption == MaxCalls \in Nat /\ \A v \in Lists : v \in Seq(Nat)

None == -1                   \* (size_t)-1: the default colour
Ansi(k) == <<"ansi", k>>
Bright(k) == <<"bright", k>>
RGB(v) == <<"rgb", v>>
DefaultFg == <<"default_fg", 0>>
DefaultBg == <<"default_bg", 0>>
DefaultFgBright == <<"default_fg_bright", 0>>
DefaultBgBright == <<"default_bg_bright", 0>>
Col256 == 0 .. 239           \* indices of col256

VARIABLES
    attr,    \* bold, bg_bold, reverse_video, current_primary, current_bg; text_fg, text_bg
    saved,   \* saved_state_*
    calls

colourVars == <<attr, saved, calls>>

Plain == [bold |-> FALSE, bg_bold |-> FALSE, reverse_video |-> FALSE,
          current_primary |-> None, current_bg |-> None,
          text_fg |-> DefaultFg, text_bg |-> DefaultBg]
\* What the context holds before the first ESC 7: zeroes.
Unsaved == [Plain EXCEPT !.current_primary = 0, !.current_bg = 0,
                         !.text_fg = RGB(0), !.text_bg = RGB(0)]

swap_palette(a) == [a EXCEPT !.text_fg = a.text_bg, !.text_bg = a.text_fg]

----
\* One value of a sequence.

Reset(a) == Plain

\* Mutant: the colours change places at each code.
Turned_Always(a, on) == swap_palette([a EXCEPT !.reverse_video = on])

\* 7 and 27.
Turned(a, on) ==
    IF a.reverse_video = on THEN a ELSE swap_palette([a EXCEPT !.reverse_video = on])

\* 1 and 22, 5 and 25.  With the default colour and reverse video the default
\* of the place is set, which is that of the other colour.
Intensity(a, fg, on) ==
    LET k == IF fg THEN a.current_primary ELSE a.current_bg
        text == fg # a.reverse_video
        colour == IF k # None THEN (IF on THEN Bright(k) ELSE Ansi(k))
                  ELSE IF text THEN (IF on THEN DefaultFgBright ELSE DefaultFg)
                  ELSE (IF on THEN DefaultBgBright ELSE DefaultBg)
        flagged == IF fg THEN [a EXCEPT !.bold = on] ELSE [a EXCEPT !.bg_bold = on]
    IN  IF text THEN [flagged EXCEPT !.text_fg = colour] ELSE [flagged EXCEPT !.text_bg = colour]

\* 30 .. 37, 40 .. 47, 90 .. 97, 100 .. 107.
SetColour(a, fg, bright, k) ==
    LET chosen == IF fg THEN [a EXCEPT !.current_primary = k] ELSE [a EXCEPT !.current_bg = k]
        colour == IF bright \/ (IF fg THEN a.bold ELSE a.bg_bold) THEN Bright(k) ELSE Ansi(k)
    IN  IF fg # a.reverse_video THEN [chosen EXCEPT !.text_fg = colour]
        ELSE [chosen EXCEPT !.text_bg = colour]

\* Mutant: without the swaps around the setter.
SetDefault_NoSwap(a, fg) ==
    IF fg THEN [a EXCEPT !.current_primary = None,
                         !.text_fg = IF a.bold THEN DefaultFgBright ELSE DefaultFg]
    ELSE [a EXCEPT !.current_bg = None,
                   !.text_bg = IF a.bg_bold THEN DefaultBgBright ELSE DefaultBg]

\* 39 and 49.
SetDefault(a, fg) ==
    LET turned(s) == IF s.reverse_video THEN swap_palette(s) ELSE s
        b == turned(a)
    IN  turned(IF fg THEN [b EXCEPT !.current_primary = None,
                                    !.text_fg = IF b.bold THEN DefaultFgBright ELSE DefaultFg]
               ELSE [b EXCEPT !.current_bg = None,
                              !.text_bg = IF b.bg_bold THEN DefaultBgBright ELSE DefaultBg])

\* A colour by number or by components (below 256) goes to the text or to the
\* background, reversed or not, and is not remembered.
SetRgb(a, fg, colour) ==
    IF fg THEN [a EXCEPT !.text_fg = colour] ELSE [a EXCEPT !.text_bg = colour]

\* A number beyond the table reads whatever follows it.
Indexed(col) ==
    IF col < 8 THEN Ansi(col) ELSE IF col < 16 THEN Bright(col - 8)
    ELSE IF col - 16 \in Col256 THEN RGB(col - 16) ELSE RGB(-1)

Apply(a, v) ==
    CASE v = 0 -> Reset(a)
      [] v \in {1, 22} -> Intensity(a, TRUE, v = 1)
      [] v \in {5, 25} -> Intensity(a, FALSE, v = 5)
      [] v \in 30 .. 37 -> SetColour(a, TRUE, FALSE, v - 30)
      [] v \in 40 .. 47 -> SetColour(a, FALSE, FALSE, v - 40)
      [] v \in 90 .. 97 -> SetColour(a, TRUE, TRUE, v - 90)
      [] v \in 100 .. 107 -> SetColour(a, FALSE, TRUE, v - 100)
      [] v \in {39, 49} -> SetDefault(a, v = 39)
      [] v \in {7, 27} -> Turned(a, v = 7)
      [] OTHER -> a

\* 38 and 48 begin a group, whose second value says of which kind it is.
Complete(g) == (g[2] = 5 /\ Len(g) = 3) \/ (g[2] = 2 /\ Len(g) = 5)
Chosen(g) == IF g[2] = 5 THEN Indexed(g[3]) ELSE RGB(65536 * g[3] + 256 * g[4] + g[5])

\* One more value. A group of an unknown kind ends with its second.
Taken(s, v) ==
    LET g == Append(s.group, v) IN
    IF s.group = <<>>
    THEN IF v \in {38, 48} THEN [s EXCEPT !.group = g] ELSE [s EXCEPT !.a = Apply(@, v)]
    ELSE IF g[2] \notin {2, 5} THEN [s EXCEPT !.group = <<>>]
    ELSE IF Complete(g) THEN [a |-> SetRgb(s.a, g[1] = 38, Chosen(g)), group |-> <<>>]
    ELSE [s EXCEPT !.group = g]

\* A group that is not complete at the end has no effect.
sgr(values) ==
    FoldLeft(Taken, [a |-> attr, group |-> <<>>], IF values = <<>> THEN <<0>> ELSE values).a

----
Call == calls < MaxCalls /\ calls' = calls + 1

ColoursInit == attr = Plain /\ saved = Unsaved /\ calls = 0

SgrOf(v) == Call /\ attr' = sgr(v) /\ UNCHANGED saved
Sgr == \E v \in Lists : SgrOf(v)

\* ESC 7 and ESC 8.
SaveState == Call /\ saved' = attr /\ UNCHANGED attr
RestoreState == Call /\ attr' = saved /\ UNCHANGED saved

\* ESC c: the attributes, but not the colours they have set.
Reinit ==
    /\ Call
    /\ attr' = [Plain EXCEPT !.text_fg = attr.text_fg, !.text_bg = attr.text_bg]
    /\ UNCHANGED saved

ColoursNext == Sgr \/ SaveState \/ RestoreState \/ Reinit

ColoursSpec == ColoursInit /\ [][ColoursNext]_colourVars

----
\* The colours of the strokes and of the ground, as the attributes name them.
Ink(a) == IF a.reverse_video THEN a.text_bg ELSE a.text_fg
Paper(a) == IF a.reverse_video THEN a.text_fg ELSE a.text_bg

Inks(a) ==
    IF a.current_primary = None THEN {IF a.bold THEN DefaultFgBright ELSE DefaultFg}
    ELSE {Bright(a.current_primary)} \cup (IF a.bold THEN {} ELSE {Ansi(a.current_primary)})
Papers(a) ==
    IF a.current_bg = None THEN {IF a.bg_bold THEN DefaultBgBright ELSE DefaultBg}
    ELSE {Bright(a.current_bg)} \cup (IF a.bg_bold THEN {} ELSE {Ansi(a.current_bg)})
Agrees(a) == Ink(a) \in Inks(a) /\ Paper(a) \in Papers(a)

Values(v) == {v[i] : i \in DOMAIN v}

(* The colours the next character is drawn in are those of the attributes,  *)
(* whatever the order of codes, reversed or not, and after ESC 7 and ESC 8; *)
(* code 0 makes them agree again.  Not so after colours by number, ESC c,   *)
(* and an intensity code in reverse video, which sets the other default     *)
(* colour (sgr).                                                            *)
ColoursFollowAttributes ==
    [][ /\ \A v \in Lists : SgrOf(v) /\ Values(v) \cap {38, 48} = {} =>
             /\ Agrees(attr) /\ (\/ Values(v) \cap {1, 5, 22, 25} = {}
                                \/ (~attr.reverse_video /\ 7 \notin Values(v)))
                => Agrees(attr')
             /\ v = <<>> \/ v[Len(v)] = 0 => attr' = Plain
        /\ RestoreState /\ saved # Unsaved /\ Agrees(saved) => Agrees(attr') ]_colourVars

(* A code for the strokes leaves the colour of the ground, and a code for   *)
(* the ground that of the strokes, also while they are swapped; only 38 and *)
(* 48 do not heed reverse video, and do nothing when cut short (sgr).       *)
InkAndPaperAreApart ==
    [][ LET ofInk == {1, 22, 39} \cup (30 .. 37) \cup (90 .. 97)
            ofPaper == {5, 25, 49} \cup (40 .. 47) \cup (100 .. 107)
            turning == {7, 27}
        IN  \A v \in Lists : SgrOf(v) /\ v # <<>> =>
              /\ Values(v) \subseteq ofInk \cup turning => Paper(attr') = Paper(attr)
              /\ Values(v) \subseteq ofPaper \cup turning => Ink(attr') = Ink(attr)
              /\ v[1] \in {38, 48} /\ Len(v) < 3 => attr' = attr ]_colourVars
====
