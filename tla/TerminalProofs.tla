---- MODULE TerminalProofs ----
(***************************************************************************)
(* Proofs about Terminal, for every screen, every table of values and      *)
(* every set of numbers: the parser and its values, the scroll region, the *)
(* types, and what a command and a character do to the screen; and about   *)
(* Colours, the command that sets them.                                    *)
(*                                                                         *)
(* A command that rewrites the screen is a fold of raw_putchar or of       *)
(* move_character over a range of cells; a lemma about each kind of run    *)
(* says which cells it leaves as they were and what the others show, and   *)
(* the proofs about the commands rest on those.  A sequence of colour codes *)
(* is a fold as well.                                                      *)
(***************************************************************************)
EXTENDS Terminal, Colours, FiniteSetTheorems, WellFoundedInduction, TLAPS

----
\* The values of the sequence under way, and room for them.
ValuesInv ==
    /\ esc_values \in Seq(0 .. Word - 1)
    /\ Len(esc_values) <= MaxValues

ParserInv == ValuesInv /\ OneStateAtATime

RegionInv ==
    /\ scroll_top_margin \in 0 .. Rows - 2
    /\ scroll_bottom_margin \in scroll_top_margin + 2 .. Rows

LEMMA InitParser == Init => ParserInv
<1> SUFFICES ASSUME Init PROVE ParserInv
  OBVIOUS
<1>1. /\ ~escape /\ ~csi /\ ~control_sequence /\ ~osc /\ ~osc_escape /\ ~discard_next
      /\ escape_offset = 0 /\ esc_values = <<>> /\ ~rrr /\ g_select = 0
  BY DEF Init
<1>2. esc_values \in Seq(0 .. Word - 1) /\ Len(esc_values) <= MaxValues
  BY <1>1, TerminalAssumption DEF TerminalAssumption
<1> QED
  BY <1>1, <1>2 DEF ParserInv, ValuesInv, OneStateAtATime

\* A sequence that ends, in whatever way, leaves no values.
LEMMA EndLeavesNothing ==
    ASSUME esc_values' = <<>>, ~rrr', ~escape', escape_offset' = 0,
           ~control_sequence', ~osc', ~csi', ~osc_escape'
    PROVE  ParserInv'
<1>1. esc_values' \in Seq(0 .. Word - 1) /\ Len(esc_values') <= MaxValues
  BY TerminalAssumption DEF TerminalAssumption
<1> QED
  BY <1>1 DEF ParserInv, ValuesInv, OneStateAtATime

LEMMA GroundKeeps ==
    ASSUME ParserInv,
           \/ UnicodeLead \/ UnicodeContinues \/ StartSequence \/ Designate \/ Control
           \/ PrintCharacter \/ UNCHANGED vars
    PROVE  ParserInv'
<1>1. UNCHANGED <<esc_values, rrr, control_sequence, osc, osc_escape, discard_next>>
  BY DEF UnicodeLead, UnicodeContinues, StartSequence, Designate, Control, PrintCharacter,
         vars, valueVars, flagVars
<1>2. ValuesInv'
  BY <1>1 DEF ParserInv, ValuesInv
<1>3. CASE UNCHANGED <<csi, escape, escape_offset>> /\ (g_select' = g_select \/ ~escape)
  BY <1>1, <1>2, <1>3 DEF ParserInv, OneStateAtATime
<1>4. CASE StartSequence
  <2>1. ~escape /\ g_select = 0 /\ g_select' = 0 /\ ~discard_next /\ escape' /\ escape_offset' = 0
    BY <1>4 DEF StartSequence, Arrives, charsetVars
  <2> QED
    BY <1>1, <1>2, <2>1 DEF ParserInv, OneStateAtATime
<1>5. ASSUME \/ UnicodeLead \/ UnicodeContinues \/ Designate \/ Control
             \/ PrintCharacter \/ UNCHANGED vars
      PROVE  UNCHANGED <<csi, escape, escape_offset>> /\ (g_select' = g_select \/ ~escape)
  BY <1>5 DEF UnicodeLead, UnicodeContinues, Designate, Control, PrintCharacter, AtGround,
         vars, valueVars, flagVars, charsetVars
<1> QED
  BY <1>3, <1>4, <1>5

LEMMA EscapeKeeps ==
    ASSUME ParserInv,
           \/ Cancel \/ EscapeOpens \/ EscapeSaves \/ EscapeRestores \/ EscapeResets
           \/ EscapeScrolls \/ EscapeOthers \/ OscByte
    PROVE  ParserInv'
<1>1. CASE Cancel
  BY <1>1, EndLeavesNothing DEF Cancel, Forgotten
<1>2. CASE EscapeSaves \/ EscapeRestores \/ EscapeResets \/ EscapeScrolls \/ EscapeOthers
  <2>1. /\ esc_values' = <<>> /\ ~rrr' /\ ~escape' /\ escape_offset' = 0
        /\ ~osc /\ ~control_sequence /\ ~csi
        /\ UNCHANGED <<csi, control_sequence, osc, osc_escape>>
    BY <1>2 DEF EscapeSaves, EscapeRestores, EscapeResets, EscapeScrolls, EscapeOthers,
                InEscape, Ends, Forgotten, flagVars
  <2> QED
    BY <2>1, EndLeavesNothing DEF ParserInv, OneStateAtATime
<1>3. CASE EscapeOpens
  <2>1. escape /\ ~discard_next /\ escape' /\ UNCHANGED <<g_select, discard_next>>
    BY <1>3 DEF EscapeOpens, InEscape, InSequence, Arrives, GoesOn, charsetVars
  <2>2. \/ /\ ~osc /\ ~control_sequence /\ ~csi /\ osc' = TRUE /\ osc_escape' = FALSE
           /\ UNCHANGED <<csi, control_sequence, esc_values, rrr>>
        \/ /\ ~osc /\ csi' = FALSE /\ control_sequence' = TRUE /\ esc_values' = <<>> /\ rrr' = FALSE
           /\ UNCHANGED <<osc, osc_escape>>
    BY <1>3 DEF EscapeOpens, InEscape
  <2>3. ValuesInv'
    <3>1. <<>> \in Seq(0 .. Word - 1) /\ Len(<<>>) <= MaxValues
      BY TerminalAssumption DEF TerminalAssumption
    <3> QED
      BY <2>2, <3>1 DEF ParserInv, ValuesInv
  <2> QED
    BY <2>1, <2>2, <2>3 DEF ParserInv, OneStateAtATime
<1>4. CASE OscByte
  <2>1. escape /\ osc /\ ~control_sequence /\ ~csi /\ UNCHANGED <<csi, control_sequence, discard_next, g_select>>
    BY <1>4 DEF OscByte, InSequence, charsetVars, ParserInv, OneStateAtATime
  <2>2. \/ Ends /\ osc' = FALSE /\ osc_escape' = FALSE
        \/ GoesOn /\ osc' = TRUE /\ UNCHANGED <<esc_values, rrr>>
    BY <1>4 DEF OscByte
  <2>3. CASE Ends /\ osc' = FALSE /\ osc_escape' = FALSE
    BY <2>1, <2>3, EndLeavesNothing DEF Ends, Forgotten
  <2>4. CASE GoesOn /\ osc' = TRUE /\ UNCHANGED <<esc_values, rrr>>
    BY <2>1, <2>4 DEF GoesOn, ParserInv, ValuesInv, OneStateAtATime
  <2> QED
    BY <2>2, <2>3, <2>4
<1> QED
  BY <1>1, <1>2, <1>3, <1>4

\* One more value, where there is room.
LEMMA AnotherValue ==
    ASSUME ValuesInv, NEW n \in 0 .. Word - 1, ~Full
    PROVE  LET longer == Append(esc_values, n)
           IN  longer \in Seq(0 .. Word - 1) /\ Len(longer) <= MaxValues /\ longer # <<>>
<1>1. Len(esc_values) \in Nat /\ Len(esc_values) < MaxValues
  BY TerminalAssumption DEF TerminalAssumption, ValuesInv, Full
<1>2. /\ Append(esc_values, n) \in Seq(0 .. Word - 1)
      /\ Len(Append(esc_values, n)) = Len(esc_values) + 1
  BY DEF ValuesInv
<1>3. Append(esc_values, n) # <<>>
  BY <1>1, <1>2
<1>4. MaxValues \in Nat
  BY TerminalAssumption DEF TerminalAssumption
<1> QED
  BY <1>1, <1>2, <1>3, <1>4

LEMMA ValueKeeps ==
    ASSUME ParserInv, Number \/ Separator \/ PrivateMark
    PROVE  ParserInv'
<1>1. /\ InControl /\ escape' = TRUE /\ UNCHANGED <<g_select, flagVars>>
  BY DEF Number, Separator, PrivateMark, GoesOn, charsetVars
<1>2. \/ UNCHANGED <<esc_values, rrr>> \/ (rrr' = FALSE /\ esc_values' = esc_values)
      \/ \E n \in 0 .. Word - 1 : ~Full /\ esc_values' = Append(esc_values, n) /\ rrr' \in BOOLEAN
  <2>1. Numbers \subseteq 0 .. Word - 1 /\ 0 \in 0 .. Word - 1
    BY TerminalAssumption DEF TerminalAssumption
  <2>2. CASE Number
    BY <2>1, <2>2 DEF Number
  <2>3. CASE Separator
    BY <2>1, <2>3 DEF Separator
  <2>4. CASE PrivateMark
    BY <2>4 DEF PrivateMark
  <2> QED
    BY <2>2, <2>3, <2>4
<1>3. ValuesInv' /\ (rrr' => esc_values' # <<>>)
  <2>1. CASE esc_values' = esc_values /\ (rrr' = rrr \/ rrr' = FALSE)
    BY <2>1 DEF ParserInv, ValuesInv, OneStateAtATime
  <2>2. ASSUME NEW n \in 0 .. Word - 1, ~Full, esc_values' = Append(esc_values, n)
        PROVE  ValuesInv' /\ esc_values' # <<>>
    BY <2>2, AnotherValue DEF ParserInv, ValuesInv
  <2> QED
    BY <1>2, <2>1, <2>2
<1> QED
  BY <1>1, <1>3 DEF ParserInv, OneStateAtATime, InControl, InSequence, flagVars

\* The actions on the final byte.
LEMMA FinalKeeps ==
    ASSUME ParserInv, Finishes \/ FunctionKey
    PROVE  ParserInv'
<1>1. /\ escape' = FALSE /\ escape_offset' = 0 /\ esc_values' = <<>> /\ rrr' = FALSE
      /\ control_sequence' = FALSE /\ control_sequence /\ UNCHANGED <<csi, osc, osc_escape>>
  BY DEF Finishes, FunctionKey, InControl, Ends, Forgotten
<1> QED
  BY <1>1, EndLeavesNothing DEF ParserInv, OneStateAtATime

LEMMA CommandsFinish ==
    ASSUME \/ Private \/ CursorUp \/ CursorDown \/ CursorAnywhere \/ SaveCursor
           \/ DeleteLines \/ InsertLines \/ EraseDisplay \/ EraseLine
           \/ InsertChars \/ DeleteOrEraseChars \/ SetMargins \/ ModeToggle \/ NoEffect
    PROVE  Finishes
BY DEF Private, CursorUp, CursorDown, CursorAnywhere, SaveCursor, DeleteLines, InsertLines,
       EraseDisplay, EraseLine, InsertChars, DeleteOrEraseChars, SetMargins, ModeToggle,
       NoEffect, ScreenCommand, Command

LEMMA ParserKeeps == ParserInv /\ [Next]_vars => ParserInv'
BY GroundKeeps, EscapeKeeps, ValueKeeps, FinalKeeps, CommandsFinish DEF Next

LEMMA ParserHolds == Spec => []ParserInv
BY InitParser, ParserKeeps, PTL DEF Spec

----
\* The scroll region changes with 'r', which checks it, and with ESC c.

LEMMA MarginsAreChecked ==
    ASSUME ParserInv, SetMargins
    PROVE  RegionInv'
<1> DEFINE first == IF Value(1, 1) = 0 THEN 1 ELSE Value(1, 1)
           last == IF Value(2, 1) = 0 THEN 1 ELSE Value(2, 1)
           top == IF Len(esc_values) > 0 THEN first - 1 ELSE 0
           bottom == IF Len(esc_values) > 1 THEN last ELSE Rows
           invalid == top >= Rows \/ bottom > Rows \/ top >= bottom - 1
<1>1. Rows \in Nat /\ Rows >= 2
  BY TerminalAssumption DEF TerminalAssumption
<1>2. Value(1, 1) \in Nat /\ Value(2, 1) \in Nat
  <2>1. esc_values \in Seq(0 .. Word - 1) /\ Word \in Nat
    BY TerminalAssumption DEF TerminalAssumption, ParserInv, ValuesInv
  <2>2. ASSUME NEW k \in {1, 2} PROVE Value(k, 1) \in Nat
    <3>1. CASE k <= Len(esc_values)
      BY <2>1, <3>1 DEF Value
    <3> QED
      BY <3>1 DEF Value
  <2> QED
    BY <2>2
<1>3. top \in Nat /\ bottom \in Nat
  <2>1. first \in Nat \ {0} /\ last \in Nat
    BY <1>2
  <2> QED
    BY <1>1, <2>1
<1>4. /\ scroll_top_margin' = IF invalid THEN 0 ELSE top
      /\ scroll_bottom_margin' = IF invalid THEN Rows ELSE bottom
  BY DEF SetMargins
<1> HIDE DEF top, bottom
<1>5. CASE invalid
  <2>1. scroll_top_margin' = 0 /\ scroll_bottom_margin' = Rows
    BY <1>4, <1>5
  <2>2. 0 \in 0 .. Rows - 2 /\ Rows \in 0 + 2 .. Rows
    BY <1>1
  <2> QED
    BY <2>1, <2>2 DEF RegionInv
<1>6. CASE ~invalid
  BY <1>1, <1>3, <1>4, <1>6 DEF RegionInv
<1> QED
  BY <1>5, <1>6

LEMMA OthersLeaveMargins ==
    ASSUME Next, ~SetMargins, ~EscapeResets
    PROVE  UNCHANGED marginVars
BY DEF Next, Cancel, UnicodeLead, UnicodeContinues, StartSequence, Designate, Control,
       PrintCharacter, AtGround, marginVars,
       EscapeOpens, EscapeSaves, EscapeRestores, EscapeScrolls, EscapeOthers, OscByte, GoesOn,
       Number, Separator, PrivateMark, FunctionKey, Private, CursorUp, CursorDown,
       CursorAnywhere, SaveCursor, DeleteLines, InsertLines, EraseDisplay, EraseLine,
       InsertChars, DeleteOrEraseChars, ModeToggle, NoEffect, ScreenCommand

LEMMA RegionKeeps == ParserInv /\ RegionInv /\ [Next]_vars => RegionInv'
<1> SUFFICES ASSUME ParserInv, RegionInv, [Next]_vars PROVE RegionInv'
  OBVIOUS
<1>1. CASE EscapeResets
  <2>1. Rows \in Nat /\ Rows >= 2
    BY TerminalAssumption DEF TerminalAssumption
  <2> QED
    BY <1>1, <2>1 DEF EscapeResets, RegionInv
<1>2. CASE UNCHANGED marginVars
  BY <1>2 DEF marginVars, RegionInv
<1> QED
  BY <1>1, <1>2, MarginsAreChecked, OthersLeaveMargins DEF vars, marginVars

LEMMA RegionHolds == Spec => []RegionInv
<1>1. Init => RegionInv
  <2> SUFFICES ASSUME Init PROVE RegionInv
    OBVIOUS
  <2>1. PICK s \in Starts : scroll_top_margin = s.top /\ scroll_bottom_margin = s.bottom
    BY DEF Init
  <2>2. /\ s.top \in 0 .. Rows - 2 /\ s.bottom \in 2 .. Rows /\ s.top + 2 <= s.bottom
        /\ Rows \in Nat
    BY TerminalAssumption DEF TerminalAssumption
  <2> QED
    BY <2>1, <2>2 DEF RegionInv
<1> QED
  BY <1>1, RegionKeeps, ParserHolds, PTL DEF Spec

----

----
\* Numbers up to a bound, and folds over them.

\* A set of naturals has a least element.
LEMMA LeastElement ==
    ASSUME NEW T, T \subseteq Nat, T # {}
    PROVE  \E x \in T : \A y \in T : x <= y
<1> DEFINE R == OpToRel(<, Nat)
<1>1. IsWellFoundedOn(R, Nat)
  BY NatLessThanWellFounded
<1>2. \A a, b \in Nat : a < b => <<a, b>> \in R
  BY DEF OpToRel
<1> HIDE DEF R
<1>3. PICK x \in T : \A y \in T : <<y, x>> \notin R
  BY <1>1, WFMin
<1>4. ASSUME NEW y \in T PROVE x <= y
  <2>1. ~(y < x)
    BY <1>2, <1>3
  <2> QED
    BY <2>1
<1> QED
  BY <1>4

\* What holds at 0 and goes on from each number to the next holds up to n.
LEMMA UpTo ==
    ASSUME NEW n \in Nat, NEW P, 0 \in P, \A k \in 0 .. n - 1 : k \in P => k + 1 \in P
    PROVE  \A k \in 0 .. n : k \in P
<1> DEFINE T == {k \in 0 .. n : k \notin P}
<1>1. CASE T = {}
  BY <1>1
<1>2. CASE T # {}
  <2>0. T \subseteq Nat
    OBVIOUS
  <2>1. PICK m \in T : \A k \in T : m <= k
    <3> HIDE DEF T
    <3> QED
      BY <1>2, <2>0, LeastElement
  <2>2. m \in 1 .. n /\ m - 1 \in 0 .. n - 1 /\ m - 1 \in 0 .. n
    BY <2>1
  <2>3. m - 1 \in P
    BY <2>1, <2>2
  <2>4. m - 1 + 1 \in P
    BY <2>2, <2>3
  <2> QED
    BY <2>1, <2>2, <2>4
<1> QED
  BY <1>1, <1>2

\* The greatest of the numbers up to k, and the rest.
LEMMA LastOfInitial ==
    ASSUME NEW k \in Nat, k # 0
    PROVE  Max(1 .. k) = k /\ (1 .. k) \ {k} = 1 .. k - 1
<1>1. k \in 1 .. k /\ \A y \in 1 .. k : k >= y
  OBVIOUS
<1>2. \A x \in 1 .. k : (\A y \in 1 .. k : x >= y) => x = k
  OBVIOUS
<1>3. Max(1 .. k) = k
  <2>1. Max(1 .. k) \in 1 .. k /\ \A y \in 1 .. k : Max(1 .. k) >= y
    BY <1>1 DEF Max
  <2> QED
    BY <1>2, <2>1
<1> QED
  BY <1>3

\* A set of numbers up to n has a greatest element.
LEMMA MaxIsMember ==
    ASSUME NEW n \in Nat, NEW s \in SUBSET (1 .. n), s # {}
    PROVE  Max(s) \in s /\ \A y \in s : Max(s) >= y
<1> DEFINE T == {n - y : y \in s}
<1>1. T \subseteq Nat /\ T # {}
  <2>1. PICK y \in s : TRUE
    OBVIOUS
  <2>2. n - y \in T
    OBVIOUS
  <2>3. \A z \in 1 .. n : n - z \in Nat
    OBVIOUS
  <2> QED
    BY <2>2, <2>3
<1>2. PICK t \in T : \A u \in T : t <= u
  <2> HIDE DEF T
  <2> QED
    BY <1>1, LeastElement
<1>3. PICK x \in s : t = n - x
  BY <1>2
<1>4. \A y \in s : x >= y
  <2> SUFFICES ASSUME NEW y \in s PROVE x >= y
    OBVIOUS
  <2>1. n - y \in T /\ y \in Nat /\ x \in Nat
    OBVIOUS
  <2>2. n - x <= n - y
    BY <1>2, <1>3, <2>1
  <2> QED
    BY <2>1, <2>2
<1> QED
  BY <1>3, <1>4 DEF Max

\* The recursion of FoldLeft, for a step function F on a set of states.
IsFold(g, B, n, F, b) ==
    /\ g \in [SUBSET (1 .. n) -> B]
    /\ \A s \in SUBSET (1 .. n) : g[s] = IF s = {} THEN b ELSE F[g[s \ {Max(s)}], Max(s)]

\* A step function on a set of states can be iterated over 1 .. n in order, as FoldLeft does.
LEMMA FoldExists ==
    ASSUME NEW B, NEW n \in Nat, NEW F \in [B \X (1 .. n) -> B], NEW b \in B
    PROVE  \E g : IsFold(g, B, n, F, b)
<1> DEFINE Ok(g, k) == /\ g \in [SUBSET (1 .. k) -> B]
                       /\ \A s \in SUBSET (1 .. k) :
                             g[s] = IF s = {} THEN b ELSE F[g[s \ {Max(s)}], Max(s)]
           P == {k \in 0 .. n : \E g : Ok(g, k)}
<1>1. 0 \in P
  <2>1. 1 .. 0 = {} /\ SUBSET (1 .. 0) = {{}}
    OBVIOUS
  <2>2. Ok([s \in SUBSET (1 .. 0) |-> b], 0)
    BY <2>1
  <2> HIDE DEF Ok
  <2> QED
    BY <2>2
<1>2. ASSUME NEW k \in 0 .. n - 1, k \in P PROVE k + 1 \in P
  <2>1. PICK g : Ok(g, k)
    BY <1>2
  <2> DEFINE l == k + 1
             h == [s \in SUBSET (1 .. l) |-> IF l \in s THEN F[g[s \ {l}], l] ELSE g[s]]
  <2>2. l \in 1 .. n /\ l \in Nat /\ \A s \in SUBSET (1 .. l) : s \ {l} \in SUBSET (1 .. k)
    OBVIOUS
  <2>3. \A s \in SUBSET (1 .. l) : l \notin s => s \in SUBSET (1 .. k)
    OBVIOUS
  <2>4. h \in [SUBSET (1 .. l) -> B]
    BY <2>1, <2>2, <2>3
  <2>5. ASSUME NEW s \in SUBSET (1 .. l), l \in s PROVE Max(s) = l
    <3>1. \A y \in s : l >= y /\ y \in Nat
      BY <2>2
    <3>2. Max(s) \in s /\ \A y \in s : Max(s) >= y
      BY <2>2, <2>5, MaxIsMember
    <3>3. Max(s) >= l /\ l >= Max(s) /\ Max(s) \in Nat
      BY <2>5, <3>1, <3>2
    <3> QED
      BY <2>2, <3>3
  <2>6. ASSUME NEW s \in SUBSET (1 .. l)
        PROVE  h[s] = IF s = {} THEN b ELSE F[h[s \ {Max(s)}], Max(s)]
    <3>1. CASE l \in s
      <4>1. s # {} /\ Max(s) = l /\ h[s] = F[g[s \ {l}], l]
        BY <2>5, <3>1
      <4>2. h[s \ {l}] = g[s \ {l}]
        BY <2>2
      <4> QED
        BY <4>1, <4>2
    <3>2. CASE l \notin s
      <4>1. s \in SUBSET (1 .. k) /\ h[s] = g[s]
        BY <2>3, <3>2
      <4>2. s \ {Max(s)} \in SUBSET (1 .. k) /\ l \notin s \ {Max(s)} /\ s \ {Max(s)} \in SUBSET (1 .. l)
        BY <3>2, <4>1
      <4>3. h[s \ {Max(s)}] = g[s \ {Max(s)}]
        BY <4>2
      <4> QED
        BY <2>1, <4>1, <4>3
    <3> QED
      BY <3>1, <3>2
  <2>7. Ok(h, k + 1)
    BY <2>4, <2>6
  <2>8. k + 1 \in 0 .. n
    OBVIOUS
  <2> HIDE DEF Ok
  <2> QED
    BY <2>7, <2>8
<1> HIDE DEF P
<1>3. n \in P
  <2>1. \A k \in 0 .. n - 1 : k \in P => k + 1 \in P
    BY <1>2
  <2>2. \A k \in 0 .. n : k \in P
    BY <1>1, <2>1, UpTo
  <2> QED
    BY <2>2
<1> QED
  BY <1>3 DEF P, IsFold

----
\* The screen: what the cells hold, and where the cursor may be.

Marks == Cells \cup {Blank, Letter, Drawing}
Screens == [cells : [Cells -> Marks], x : Nat, y : Nat]

LEMMA Sizes ==
    /\ Cols \in Nat /\ Rows \in Nat /\ Cols >= 2 /\ Rows >= 2
    /\ Word \in Nat /\ Word > 0 /\ TabSize \in Nat /\ TabSize > 0
BY TerminalAssumption DEF TerminalAssumption

LEMMA ProductIsMonotone ==
    ASSUME NEW a \in Nat, NEW b \in Nat, NEW m \in Nat, a <= b
    PROVE  a * m <= b * m
<1>1. PICK d \in Nat : b = a + d
  <2>1. b - a \in Nat /\ b = a + (b - a)
    OBVIOUS
  <2> QED
    BY <2>1
<1>2. b * m = a * m + d * m /\ d * m \in Nat /\ a * m \in Nat
  BY <1>1
<1> QED
  BY <1>2

\* A cell has one number, and its number one row and column.
LEMMA CellNumber ==
    ASSUME NEW u \in 0 .. Cols - 1, NEW v \in 0 .. Rows - 1
    PROVE  CellAt(u, v) \in Cells /\ RowOf(CellAt(u, v)) = v
<1>1. Cols \in Nat /\ Rows \in Nat /\ u \in Nat /\ v \in Nat /\ u < Cols /\ v + 1 <= Rows
  BY Sizes
<1>2. (v + 1) * Cols <= Rows * Cols
  BY <1>1, ProductIsMonotone
<1>3. v * Cols \in Nat /\ Rows * Cols \in Nat /\ (v + 1) * Cols = v * Cols + Cols
  BY <1>1
<1> DEFINE p == v * Cols
           q == Rows * Cols
<1>4. p \in Nat /\ q \in Nat /\ p + Cols <= q
  BY <1>2, <1>3
<1>5. (v * Cols + u) \div Cols = v
  BY <1>1
<1> HIDE DEF p, q
<1>6. p + u \in 0 .. q - 1
  BY <1>1, <1>4
<1> QED
  BY <1>5, <1>6 DEF Cells, CellAt, RowOf, p, q

\* Every cell is CellAt of its row and some column.
LEMMA CellHasPlace ==
    ASSUME NEW i \in Cells
    PROVE  /\ RowOf(i) \in 0 .. Rows - 1 /\ i \in Nat
           /\ i - RowOf(i) * Cols \in 0 .. Cols - 1
           /\ i = CellAt(i - RowOf(i) * Cols, RowOf(i))
<1> DEFINE r == i \div Cols
           q == Rows * Cols
<1>1. Cols \in Nat /\ Rows \in Nat /\ Cols > 0 /\ q \in Nat /\ i \in Nat /\ i < q
  BY Sizes DEF Cells
<1>2. r \in Nat /\ r * Cols \in Nat /\ r * Cols <= i /\ i < r * Cols + Cols
  BY <1>1
<1>3. r < Rows
  <2> SUFFICES ASSUME Rows <= r PROVE FALSE
    BY <1>1, <1>2
  <2>1. Rows * Cols <= r * Cols
    BY <1>1, <1>2, ProductIsMonotone
  <2> QED
    BY <1>1, <1>2, <2>1
<1>4. i - r * Cols \in 0 .. Cols - 1 /\ i = r * Cols + (i - r * Cols)
  <2> DEFINE p == r * Cols
  <2>1. p \in Nat /\ p <= i /\ i < p + Cols
    BY <1>2
  <2> HIDE DEF p
  <2>2. i - p \in 0 .. Cols - 1 /\ i = p + (i - p)
    BY <1>1, <2>1
  <2> QED
    BY <2>2 DEF p
<1> QED
  BY <1>1, <1>2, <1>3, <1>4 DEF RowOf, CellAt

\* The cell below and the cell above.
LEMMA CellBelow ==
    ASSUME NEW i \in Cells, RowOf(i) < Rows - 1
    PROVE  i + Cols \in Cells /\ RowOf(i + Cols) = RowOf(i) + 1
<1> DEFINE r == RowOf(i)
           u == i - r * Cols
<1>1. /\ r \in 0 .. Rows - 1 /\ i \in Nat /\ u \in 0 .. Cols - 1 /\ i = r * Cols + u
      /\ Cols \in Nat /\ Rows \in Nat
  BY CellHasPlace, Sizes DEF CellAt
<1>2. r + 1 \in 0 .. Rows - 1
  BY <1>1
<1>3. CellAt(u, r + 1) \in Cells /\ RowOf(CellAt(u, r + 1)) = r + 1
  <2> HIDE DEF r, u
  <2> QED
    BY <1>1, <1>2, CellNumber
<1>4. CellAt(u, r + 1) = i + Cols
  <2>1. (r + 1) * Cols = r * Cols + Cols /\ r * Cols \in Nat
    BY <1>1
  <2> HIDE DEF r, u
  <2> QED
    BY <1>1, <2>1 DEF CellAt
<1> QED
  BY <1>3, <1>4

LEMMA CellAbove ==
    ASSUME NEW i \in Cells, RowOf(i) > 0
    PROVE  i - Cols \in Cells /\ RowOf(i - Cols) = RowOf(i) - 1
<1> DEFINE r == RowOf(i)
           u == i - r * Cols
<1>1. /\ r \in 0 .. Rows - 1 /\ i \in Nat /\ u \in 0 .. Cols - 1 /\ i = r * Cols + u
      /\ Cols \in Nat /\ Rows \in Nat
  BY CellHasPlace, Sizes DEF CellAt
<1>2. r - 1 \in 0 .. Rows - 1
  BY <1>1
<1>3. CellAt(u, r - 1) \in Cells /\ RowOf(CellAt(u, r - 1)) = r - 1
  <2> HIDE DEF r, u
  <2> QED
    BY <1>1, <1>2, CellNumber
<1>4. CellAt(u, r - 1) = i - Cols
  <2>1. (r - 1) * Cols = r * Cols - Cols /\ r * Cols \in Nat
    BY <1>1
  <2> HIDE DEF r, u
  <2> QED
    BY <1>1, <2>1 DEF CellAt
<1> QED
  BY <1>3, <1>4

----
\* The operations of the screen keep it a screen.

LEMMA ClampIsOnScreen ==
    ASSUME NEW v \in Int, NEW n \in Nat, n > 0
    PROVE  Clamp(v, n) \in 0 .. n - 1 /\ (v \in 0 .. n - 1 => Clamp(v, n) = v)
BY DEF Clamp

LEMMA CursorIsSet ==
    ASSUME NEW s \in Screens, NEW u \in Int, NEW v \in Int
    PROVE  LET t == set_cursor_pos(s, u, v)
           IN  /\ t \in Screens /\ t.cells = s.cells
               /\ t.x \in 0 .. Cols - 1 /\ t.y \in 0 .. Rows - 1
               /\ u \in 0 .. Cols - 1 => t.x = u
               /\ v \in 0 .. Rows - 1 => t.y = v
<1>1. Clamp(u, Cols) \in 0 .. Cols - 1 /\ Clamp(v, Rows) \in 0 .. Rows - 1
  BY Sizes, ClampIsOnScreen
<1>2. /\ u \in 0 .. Cols - 1 => Clamp(u, Cols) = u
      /\ v \in 0 .. Rows - 1 => Clamp(v, Rows) = v
  BY Sizes, ClampIsOnScreen
<1> DEFINE a == Clamp(u, Cols)
           b == Clamp(v, Rows)
<1>3. set_cursor_pos(s, u, v) = [s EXCEPT !.x = a, !.y = b]
  BY DEF set_cursor_pos
<1>4. a \in 0 .. Cols - 1 /\ b \in 0 .. Rows - 1 /\ a \in Nat /\ b \in Nat
  BY <1>1, Sizes
<1> HIDE DEF a, b
<1>5. set_cursor_pos(s, u, v) = [cells |-> s.cells, x |-> a, y |-> b]
  BY <1>3 DEF Screens
<1>6. [cells |-> s.cells, x |-> a, y |-> b] \in Screens
  BY <1>4 DEF Screens
<1> QED
  BY <1>2, <1>4, <1>5, <1>6 DEF a, b

LEMMA CursorCell ==
    ASSUME screen \in Screens
    PROVE  /\ X \in 0 .. Cols - 1 /\ Y \in 0 .. Rows - 1
           /\ screen.x < Cols => X = screen.x
           /\ screen.y < Rows => Y = screen.y
<1>1. screen.x \in Nat /\ screen.y \in Nat
  BY DEF Screens
<1> QED
  BY <1>1, Sizes DEF X, Y

\* The cells after each operation, given those before.
LEMMA ScrollCells ==
    ASSUME NEW s \in Screens, RegionInv
    PROVE  /\ scroll(s) \in Screens /\ scroll(s).x = s.x /\ scroll(s).y = s.y
           /\ \A i \in Cells : RowOf(i) \notin scroll_top_margin .. scroll_bottom_margin - 1
                                 => scroll(s).cells[i] = s.cells[i]
<1>1. /\ scroll_top_margin \in 0 .. Rows - 2 /\ scroll_bottom_margin \in scroll_top_margin + 2 .. Rows
      /\ Rows \in Nat
  BY Sizes DEF RegionInv
<1> DEFINE c == [i \in Cells |->
                   IF RowOf(i) = scroll_bottom_margin - 1 THEN Blank
                   ELSE IF RowOf(i) \in scroll_top_margin .. scroll_bottom_margin - 1
                   THEN s.cells[i + Cols] ELSE s.cells[i]]
<1>2. s.cells \in [Cells -> Marks] /\ s.x \in Nat /\ s.y \in Nat
  BY DEF Screens
<1>3. ASSUME NEW i \in Cells PROVE c[i] \in Marks
  <2>1. CASE RowOf(i) = scroll_bottom_margin - 1
    BY <2>1 DEF Marks
  <2>2. CASE RowOf(i) # scroll_bottom_margin - 1 /\ RowOf(i) \in scroll_top_margin .. scroll_bottom_margin - 1
    <3>1. i + Cols \in Cells
      BY <1>1, <2>2, CellHasPlace, CellBelow
    <3> QED
      BY <1>2, <2>2, <3>1
  <2>3. CASE RowOf(i) # scroll_bottom_margin - 1 /\ RowOf(i) \notin scroll_top_margin .. scroll_bottom_margin - 1
    BY <1>2, <2>3
  <2> QED
    BY <2>1, <2>2, <2>3
<1>4. c \in [Cells -> Marks]
  BY <1>3
<1>5. scroll(s) = [cells |-> c, x |-> s.x, y |-> s.y]
  BY DEF scroll, Screens
<1>6. \A i \in Cells : RowOf(i) \notin scroll_top_margin .. scroll_bottom_margin - 1 => c[i] = s.cells[i]
  BY <1>1
<1> HIDE DEF c
<1> QED
  BY <1>2, <1>4, <1>5, <1>6 DEF Screens

LEMMA RevscrollCells ==
    ASSUME NEW s \in Screens, RegionInv, NEW top \in 0 .. Rows - 1
    PROVE  /\ revscroll(s, top) \in Screens /\ revscroll(s, top).x = s.x /\ revscroll(s, top).y = s.y
           /\ \A i \in Cells : RowOf(i) # top /\ RowOf(i) \notin top + 1 .. scroll_bottom_margin - 1
                                 => revscroll(s, top).cells[i] = s.cells[i]
<1>1. scroll_bottom_margin \in Nat /\ scroll_bottom_margin <= Rows /\ Rows \in Nat
  BY Sizes DEF RegionInv
<1> DEFINE c == [i \in Cells |->
                   IF RowOf(i) = top THEN Blank
                   ELSE IF RowOf(i) \in top + 1 .. scroll_bottom_margin - 1
                   THEN s.cells[i - Cols] ELSE s.cells[i]]
<1>2. s.cells \in [Cells -> Marks] /\ s.x \in Nat /\ s.y \in Nat
  BY DEF Screens
<1>3. ASSUME NEW i \in Cells PROVE c[i] \in Marks
  <2>1. CASE RowOf(i) = top
    BY <2>1 DEF Marks
  <2>2. CASE RowOf(i) # top /\ RowOf(i) \in top + 1 .. scroll_bottom_margin - 1
    <3>1. i - Cols \in Cells
      BY <1>1, <2>2, CellHasPlace, CellAbove
    <3> QED
      BY <1>2, <2>2, <3>1
  <2>3. CASE RowOf(i) # top /\ RowOf(i) \notin top + 1 .. scroll_bottom_margin - 1
    BY <1>2, <2>3
  <2> QED
    BY <2>1, <2>2, <2>3
<1>4. c \in [Cells -> Marks]
  BY <1>3
<1>5. revscroll(s, top) = [cells |-> c, x |-> s.x, y |-> s.y]
  BY DEF revscroll, Screens
<1>6. \A i \in Cells : RowOf(i) # top /\ RowOf(i) \notin top + 1 .. scroll_bottom_margin - 1
                         => c[i] = s.cells[i]
  OBVIOUS
<1> HIDE DEF c
<1> QED
  BY <1>2, <1>4, <1>5, <1>6 DEF Screens

LEMMA StoreCells ==
    ASSUME NEW s \in Screens, NEW g \in Marks, NEW u \in Nat, NEW v \in Nat
    PROVE  LET t == Store(s, g, u, v)
           IN  /\ t \in Screens /\ t.x = s.x /\ t.y = s.y
               /\ u < Cols /\ v < Rows => CellAt(u, v) \in Cells
               /\ t.cells = IF u < Cols /\ v < Rows THEN [s.cells EXCEPT ![CellAt(u, v)] = g]
                            ELSE s.cells
<1>1. s.cells \in [Cells -> Marks] /\ s.x \in Nat /\ s.y \in Nat
  BY DEF Screens
<1>2. CASE u < Cols /\ v < Rows
  <2>1. u \in 0 .. Cols - 1 /\ v \in 0 .. Rows - 1
    BY <1>2, Sizes
  <2>2. CellAt(u, v) \in Cells
    BY <2>1, CellNumber
  <2> DEFINE c == [s.cells EXCEPT ![CellAt(u, v)] = g]
  <2>3. Store(s, g, u, v) = [cells |-> c, x |-> s.x, y |-> s.y]
    BY <1>2 DEF Store, Screens
  <2>4. c \in [Cells -> Marks]
    BY <1>1, <2>2
  <2> HIDE DEF c
  <2>5. [cells |-> c, x |-> s.x, y |-> s.y] \in Screens
    BY <1>1, <2>4 DEF Screens
  <2> QED
    BY <1>2, <2>2, <2>3, <2>5 DEF c
<1>3. CASE ~(u < Cols /\ v < Rows)
  <2>1. Store(s, g, u, v) = s
    BY <1>3 DEF Store
  <2> QED
    BY <1>3, <2>1
<1> QED
  BY <1>2, <1>3

LEMMA NextLineCells ==
    ASSUME NEW s \in Screens, RegionInv
    PROVE  NextLine(s) \in Screens /\ NextLine(s).x = 0
<1> DEFINE l == IF s.y + 1 = scroll_bottom_margin THEN scroll(s) ELSE [s EXCEPT !.y = @ + 1]
<1>1. l \in Screens
  <2>1. CASE s.y + 1 = scroll_bottom_margin
    BY <2>1, ScrollCells
  <2>2. CASE s.y + 1 # scroll_bottom_margin
    BY <2>2 DEF Screens
  <2> QED
    BY <2>1, <2>2
<1>2. NextLine(s) = [l EXCEPT !.x = 0, !.y = Least(@, Cols - 1)]
  BY DEF NextLine
<1> HIDE DEF l
<1>3. l.cells \in [Cells -> Marks] /\ l.y \in Nat
  BY <1>1 DEF Screens
<1>4. NextLine(s) = [cells |-> l.cells, x |-> 0, y |-> Least(l.y, Cols - 1)]
  BY <1>1, <1>2 DEF Screens
<1>5. Least(l.y, Cols - 1) \in Nat
  BY <1>3, Sizes DEF Least
<1> QED
  BY <1>3, <1>4, <1>5 DEF Screens

\* A character moves the cursor by one column, or to the second one of a line.
LEMMA CharacterCells ==
    ASSUME NEW s \in Screens, NEW g \in Marks, NEW on \in BOOLEAN, RegionInv
    PROVE  LET t == raw_putchar(s, g, on)
           IN  /\ t \in Screens
               /\ s.x < Cols => t.x = s.x + 1 /\ t.y = s.y /\ t.cells = Store(s, g, s.x, s.y).cells
               /\ s.x >= Cols /\ on => t.x = 1
<1> DEFINE wraps == s.x >= Cols /\ (s.y < scroll_bottom_margin - 1 \/ on)
           l == IF wraps THEN NextLine(s) ELSE s
           w == Store(l, g, l.x, l.y)
<1>1. raw_putchar(s, g, on) = [w EXCEPT !.x = l.x + 1]
  BY DEF raw_putchar
<1>2. l \in Screens
  BY NextLineCells
<1>3. s.x < Cols => l = s
  BY Sizes DEF Screens
<1>4. s.x >= Cols /\ on => l.x = 0
  BY NextLineCells
<1> HIDE DEF l, wraps
<1>5. l.x \in Nat /\ l.y \in Nat
  BY <1>2 DEF Screens
<1>6. w \in Screens /\ w.y = l.y
  BY <1>2, <1>5, StoreCells
<1>7. s.x < Cols => w = Store(s, g, s.x, s.y) /\ w.y = s.y
  BY <1>3, <1>6
<1> HIDE DEF w
<1>8. raw_putchar(s, g, on) = [cells |-> w.cells, x |-> l.x + 1, y |-> w.y]
  BY <1>1, <1>6 DEF Screens
<1>9. [cells |-> w.cells, x |-> l.x + 1, y |-> w.y] \in Screens
  BY <1>5, <1>6 DEF Screens
<1> QED
  BY <1>3, <1>4, <1>5, <1>7, <1>8, <1>9

LEMMA MoveCells ==
    ASSUME NEW s \in Screens, NEW new \in Nat, NEW old \in 0 .. Cols - 1, NEW v \in 0 .. Rows - 1
    PROVE  LET t == move_character(s, new, old, v)
           IN  /\ t \in Screens /\ t.x = s.x /\ t.y = s.y
               /\ new < Cols => CellAt(new, v) \in Cells
               /\ CellAt(old, v) \in Cells
               /\ t.cells = IF new < Cols
                            THEN [s.cells EXCEPT ![CellAt(new, v)] = s.cells[CellAt(old, v)]]
                            ELSE s.cells
<1>1. CellAt(old, v) \in Cells
  BY CellNumber
<1>2. s.cells[CellAt(old, v)] \in Marks
  BY <1>1 DEF Screens
<1>3. v \in Nat /\ v < Rows
  BY Sizes
<1>4. CASE new < Cols
  <2> DEFINE g == s.cells[CellAt(old, v)]
  <2>1. move_character(s, new, old, v) = Store(s, g, new, v) /\ g \in Marks
    BY <1>2, <1>4 DEF move_character
  <2> HIDE DEF g
  <2>2. LET t == Store(s, g, new, v)
        IN  /\ t \in Screens /\ t.x = s.x /\ t.y = s.y /\ CellAt(new, v) \in Cells
            /\ t.cells = [s.cells EXCEPT ![CellAt(new, v)] = g]
    BY <1>3, <1>4, <2>1, StoreCells
  <2> QED
    BY <1>1, <1>4, <2>1, <2>2 DEF g
<1>5. CASE ~(new < Cols)
  <2>1. move_character(s, new, old, v) = s
    BY <1>5 DEF move_character
  <2> QED
    BY <1>1, <1>5, <2>1
<1> QED
  BY <1>4, <1>5

----
\* Folds over steps 1 .. n: the screens in between.

LEMMA StaysIn ==
    ASSUME NEW B, NEW n \in Nat, NEW r, r[0] \in B,
           \A k \in 1 .. n : r[k - 1] \in B => r[k] \in B
    PROVE  \A k \in 0 .. n : r[k] \in B
<1> DEFINE P == {k \in 0 .. n : r[k] \in B}
<1>1. 0 \in P
  OBVIOUS
<1>2. ASSUME NEW k \in 0 .. n - 1, k \in P PROVE k + 1 \in P
  <2>1. k + 1 \in 1 .. n /\ k + 1 \in 0 .. n /\ (k + 1) - 1 = k
    OBVIOUS
  <2> QED
    BY <1>2, <2>1
<1>3. \A k \in 0 .. n : k \in P
  <2> HIDE DEF P
  <2> QED
    BY <1>1, <1>2, UpTo
<1> QED
  BY <1>3

LEMMA UpwardsFrom1 ==
    ASSUME NEW n \in Nat
    PROVE  DOMAIN Upwards(1, n) = 1 .. n /\ \A k \in 1 .. n : Upwards(1, n)[k] = k
BY DEF Upwards

\* What a fold over the first n numbers has seen after k of them.
LEMMA FirstElements ==
    ASSUME NEW n \in Nat, NEW k \in 1 .. n
    PROVE  /\ 1 .. k \in SUBSET (1 .. n) /\ 1 .. k # {} /\ k \in 0 .. n /\ k - 1 \in 0 .. n
           /\ k \in Nat /\ k # 0
<1>1. k \in Nat /\ k # 0 /\ k <= n
  OBVIOUS
<1>2. 1 \in 1 .. k
  BY <1>1
<1> QED
  BY <1>1, <1>2

\* Blanks, one after the other.
BlankRun(h, s, m) ==
    /\ h \in [0 .. m -> Screens] /\ h[0] = s /\ h[m] = Blanks(s, m)
    /\ \A k \in 1 .. m : h[k] = raw_putchar(h[k - 1], Blank, FALSE)

LEMMA BlanksRun ==
    ASSUME NEW s \in Screens, NEW m \in Nat, RegionInv
    PROVE  \E h : BlankRun(h, s, m)
<1> DEFINE n == m
           D == 1 .. n
           sq == Upwards(1, m)
           F == [p \in Screens \X D |-> raw_putchar(p[1], Blank, FALSE)]
           E(g) == [t \in SUBSET D |->
                      IF t = {} THEN s
                      ELSE raw_putchar(g[t \ {Max(t)}], Blank, FALSE)]
           it == CHOOSE g : g = E(g)
           h == [k \in 0 .. n |-> it[1 .. k]]
<1>0. n \in Nat /\ DOMAIN sq = D /\ s \in Screens /\ \A k \in D : sq[k] = k
  BY UpwardsFrom1
<1>b. n \in Nat
  BY <1>0
<1>a. Blanks(s, m) = it[D]
  BY <1>0 DEF Blanks, FoldLeft, MapThenFoldSet
<1> HIDE DEF n, sq
<1>1. ASSUME NEW a \in Screens, NEW k \in D PROVE raw_putchar(a, Blank, FALSE) \in Screens
  <2>1. Blank \in Marks
    BY DEF Marks
  <2> QED
    BY <2>1, CharacterCells
<1>2. /\ F \in [Screens \X D -> Screens]
      /\ \A a \in Screens, k \in D : F[a, k] = raw_putchar(a, Blank, FALSE)
  BY <1>1
<1> HIDE DEF F
<1>4. it = E(it)
  <2>1. PICK g : IsFold(g, Screens, n, F, s)
    BY <1>0, <1>2, FoldExists
  <2>2. ASSUME NEW t \in SUBSET D
        PROVE  g[t] = IF t = {} THEN s ELSE raw_putchar(g[t \ {Max(t)}], Blank, FALSE)
    <3>1. t # {} => Max(t) \in D
      BY <1>0, MaxIsMember
    <3> QED
      BY <1>2, <2>1, <3>1 DEF IsFold
  <2>3. g = E(g)
    BY <2>1, <2>2 DEF IsFold
  <2> QED
    BY <2>3
<1> HIDE DEF it
<1>5. \A t \in SUBSET D : it[t] = IF t = {} THEN s
                                  ELSE raw_putchar(it[t \ {Max(t)}], Blank, FALSE)
  BY <1>4
<1>6. h[0] = s /\ h[n] = Blanks(s, m)
  <2>1. 1 .. 0 = {} /\ 0 \in 0 .. n /\ n \in 0 .. n
    BY <1>0
  <2>2. it[{}] = s
    BY <1>5
  <2> QED
    BY <1>a, <2>1, <2>2
<1>7. ASSUME NEW k \in D PROVE h[k] = raw_putchar(h[k - 1], Blank, FALSE)
  <2>1. 1 .. k \in SUBSET D /\ 1 .. k # {} /\ k \in 0 .. n /\ k - 1 \in 0 .. n /\ k \in Nat /\ k # 0
    BY <1>b, FirstElements
  <2>2. Max(1 .. k) = k /\ (1 .. k) \ {k} = 1 .. k - 1
    BY <2>1, LastOfInitial
  <2>3. it[1 .. k] = raw_putchar(it[(1 .. k) \ {Max(1 .. k)}], Blank, FALSE)
    BY <1>5, <2>1
  <2>4. h[k] = it[1 .. k] /\ h[k - 1] = it[1 .. k - 1]
    BY <2>1
  <2> QED
    BY <2>2, <2>3, <2>4
<1>8. h = [k \in 0 .. n |-> h[k]]
  OBVIOUS
<1> HIDE DEF h
<1>9. \A k \in 0 .. n : h[k] \in Screens
  <2>1. \A k \in 1 .. n : h[k - 1] \in Screens => h[k] \in Screens
    BY <1>1, <1>7
  <2> QED
    BY <1>0, <1>6, <2>1, StaysIn
<1>10. ASSUME NEW k \in D PROVE h[k] = raw_putchar(h[k - 1], Blank, FALSE)
  <2>1. sq[k] = k
    BY <1>0
  <2> QED
    BY <1>7, <2>1
<1> QED
  BY <1>0, <1>6, <1>8, <1>9, <1>10 DEF BlankRun, n

\* A character without a glyph of its own: a box, and a blank behind a wide one.
Boxes(s, m) == FoldLeft(LAMBDA a, k : raw_putchar(a, IF k = 1 THEN Letter ELSE Blank, TRUE),
                        s, Upwards(1, m))

GlyphRun(h, s, m) ==
    /\ h \in [0 .. m -> Screens] /\ h[0] = s /\ h[m] = Boxes(s, m)
    /\ \A k \in 1 .. m : h[k] = raw_putchar(h[k - 1], IF k = 1 THEN Letter ELSE Blank, TRUE)

LEMMA GlyphsRun ==
    ASSUME NEW s \in Screens, NEW m \in Nat, RegionInv
    PROVE  \E h : GlyphRun(h, s, m)
<1> DEFINE n == m
           D == 1 .. n
           sq == Upwards(1, m)
           F == [p \in Screens \X D |-> raw_putchar(p[1], IF sq[p[2]] = 1 THEN Letter ELSE Blank, TRUE)]
           E(g) == [t \in SUBSET D |->
                      IF t = {} THEN s
                      ELSE raw_putchar(g[t \ {Max(t)}], IF sq[Max(t)] = 1 THEN Letter ELSE Blank, TRUE)]
           it == CHOOSE g : g = E(g)
           h == [k \in 0 .. n |-> it[1 .. k]]
<1>0. n \in Nat /\ DOMAIN sq = D /\ s \in Screens /\ \A k \in D : sq[k] = k
  BY UpwardsFrom1
<1>b. n \in Nat
  BY <1>0
<1>a. Boxes(s, m) = it[D]
  BY <1>0 DEF Boxes, FoldLeft, MapThenFoldSet
<1> HIDE DEF n, sq
<1>1. ASSUME NEW a \in Screens, NEW k \in D PROVE raw_putchar(a, IF sq[k] = 1 THEN Letter ELSE Blank, TRUE) \in Screens
  <2>1. Blank \in Marks /\ Letter \in Marks
    BY DEF Marks
  <2> QED
    BY <2>1, CharacterCells
<1>2. /\ F \in [Screens \X D -> Screens]
      /\ \A a \in Screens, k \in D : F[a, k] = raw_putchar(a, IF sq[k] = 1 THEN Letter ELSE Blank, TRUE)
  BY <1>1
<1> HIDE DEF F
<1>4. it = E(it)
  <2>1. PICK g : IsFold(g, Screens, n, F, s)
    BY <1>0, <1>2, FoldExists
  <2>2. ASSUME NEW t \in SUBSET D
        PROVE  g[t] = IF t = {} THEN s ELSE raw_putchar(g[t \ {Max(t)}], IF sq[Max(t)] = 1 THEN Letter ELSE Blank, TRUE)
    <3>1. t # {} => Max(t) \in D
      BY <1>0, MaxIsMember
    <3> QED
      BY <1>2, <2>1, <3>1 DEF IsFold
  <2>3. g = E(g)
    BY <2>1, <2>2 DEF IsFold
  <2> QED
    BY <2>3
<1> HIDE DEF it
<1>5. \A t \in SUBSET D : it[t] = IF t = {} THEN s
                                  ELSE raw_putchar(it[t \ {Max(t)}], IF sq[Max(t)] = 1 THEN Letter ELSE Blank, TRUE)
  BY <1>4
<1>6. h[0] = s /\ h[n] = Boxes(s, m)
  <2>1. 1 .. 0 = {} /\ 0 \in 0 .. n /\ n \in 0 .. n
    BY <1>0
  <2>2. it[{}] = s
    BY <1>5
  <2> QED
    BY <1>a, <2>1, <2>2
<1>7. ASSUME NEW k \in D PROVE h[k] = raw_putchar(h[k - 1], IF sq[k] = 1 THEN Letter ELSE Blank, TRUE)
  <2>1. 1 .. k \in SUBSET D /\ 1 .. k # {} /\ k \in 0 .. n /\ k - 1 \in 0 .. n /\ k \in Nat /\ k # 0
    BY <1>b, FirstElements
  <2>2. Max(1 .. k) = k /\ (1 .. k) \ {k} = 1 .. k - 1
    BY <2>1, LastOfInitial
  <2>3. it[1 .. k] = raw_putchar(it[(1 .. k) \ {Max(1 .. k)}], IF sq[Max(1 .. k)] = 1 THEN Letter ELSE Blank, TRUE)
    BY <1>5, <2>1
  <2>4. h[k] = it[1 .. k] /\ h[k - 1] = it[1 .. k - 1]
    BY <2>1
  <2> QED
    BY <2>2, <2>3, <2>4
<1>8. h = [k \in 0 .. n |-> h[k]]
  OBVIOUS
<1> HIDE DEF h
<1>9. \A k \in 0 .. n : h[k] \in Screens
  <2>1. \A k \in 1 .. n : h[k - 1] \in Screens => h[k] \in Screens
    BY <1>1, <1>7
  <2> QED
    BY <1>0, <1>6, <2>1, StaysIn
<1>10. ASSUME NEW k \in D PROVE h[k] = raw_putchar(h[k - 1], IF k = 1 THEN Letter ELSE Blank, TRUE)
  <2>1. sq[k] = k
    BY <1>0
  <2> QED
    BY <1>7, <2>1
<1> QED
  BY <1>0, <1>6, <1>8, <1>9, <1>10 DEF GlyphRun, n

\* Insert mode: the rest of the line moves by one, from its end on.
RoomRun(h) ==
    /\ h \in [0 .. (Cols - X) -> Screens] /\ h[0] = screen /\ h[(Cols - X)] = MadeRoom
    /\ \A k \in 1 .. (Cols - X) : h[k] = move_character(h[k - 1], (Cols - k) + 1, Cols - k, Y)

LEMMA RoomsRun ==
    ASSUME screen \in Screens, insert_mode
    PROVE  \E h : RoomRun(h)
<1> DEFINE n == Cols - X
           D == 1 .. n
           sq == Downwards(Cols - 1, X)
           F == [p \in Screens \X D |-> move_character(p[1], (sq[p[2]]) + 1, sq[p[2]], Y)]
           E(g) == [t \in SUBSET D |->
                      IF t = {} THEN screen
                      ELSE move_character(g[t \ {Max(t)}], (sq[Max(t)]) + 1, sq[Max(t)], Y)]
           it == CHOOSE g : g = E(g)
           h == [k \in 0 .. n |-> it[1 .. k]]
<1>0. n \in Nat /\ DOMAIN sq = D /\ screen \in Screens /\ \A k \in D : sq[k] = Cols - k
  <2>1. X \in 0 .. Cols - 1 /\ Cols \in Nat
    BY CursorCell, Sizes
  <2>2. sq = [k \in 1 .. (Cols - 1) - X + 1 |-> (Cols - 1) - k + 1]
    BY DEF Downwards
  <2>3. (Cols - 1) - X + 1 = n /\ n \in Nat
    BY <2>1
  <2>4. \A k \in 1 .. n : (Cols - 1) - k + 1 = Cols - k
    BY <2>1, <2>3
  <2> HIDE DEF sq, n
  <2> QED
    BY <2>2, <2>3, <2>4
<1>b. n \in Nat
  BY <1>0
<1>a. MadeRoom = it[D]
  BY <1>0 DEF MadeRoom, FoldLeft, MapThenFoldSet
<1> HIDE DEF n, sq
<1>1. ASSUME NEW a \in Screens, NEW k \in D PROVE move_character(a, (sq[k]) + 1, sq[k], Y) \in Screens
  <2>1. sq[k] \in X .. Cols - 1 /\ X \in 0 .. Cols - 1 /\ Y \in 0 .. Rows - 1 /\ Cols \in Nat
    BY <1>0, CursorCell, Sizes DEF n
  <2>2. sq[k] + 1 \in Nat /\ sq[k] \in 0 .. Cols - 1
    BY <2>1
  <2> QED
    BY <2>1, <2>2, MoveCells
<1>2. /\ F \in [Screens \X D -> Screens]
      /\ \A a \in Screens, k \in D : F[a, k] = move_character(a, (sq[k]) + 1, sq[k], Y)
  BY <1>1
<1> HIDE DEF F
<1>4. it = E(it)
  <2>1. PICK g : IsFold(g, Screens, n, F, screen)
    BY <1>0, <1>2, FoldExists
  <2>2. ASSUME NEW t \in SUBSET D
        PROVE  g[t] = IF t = {} THEN screen ELSE move_character(g[t \ {Max(t)}], (sq[Max(t)]) + 1, sq[Max(t)], Y)
    <3>1. t # {} => Max(t) \in D
      BY <1>0, MaxIsMember
    <3> QED
      BY <1>2, <2>1, <3>1 DEF IsFold
  <2>3. g = E(g)
    BY <2>1, <2>2 DEF IsFold
  <2> QED
    BY <2>3
<1> HIDE DEF it
<1>5. \A t \in SUBSET D : it[t] = IF t = {} THEN screen
                                  ELSE move_character(it[t \ {Max(t)}], (sq[Max(t)]) + 1, sq[Max(t)], Y)
  BY <1>4
<1>6. h[0] = screen /\ h[n] = MadeRoom
  <2>1. 1 .. 0 = {} /\ 0 \in 0 .. n /\ n \in 0 .. n
    BY <1>0
  <2>2. it[{}] = screen
    BY <1>5
  <2> QED
    BY <1>a, <2>1, <2>2
<1>7. ASSUME NEW k \in D PROVE h[k] = move_character(h[k - 1], (sq[k]) + 1, sq[k], Y)
  <2>1. 1 .. k \in SUBSET D /\ 1 .. k # {} /\ k \in 0 .. n /\ k - 1 \in 0 .. n /\ k \in Nat /\ k # 0
    BY <1>b, FirstElements
  <2>2. Max(1 .. k) = k /\ (1 .. k) \ {k} = 1 .. k - 1
    BY <2>1, LastOfInitial
  <2>3. it[1 .. k] = move_character(it[(1 .. k) \ {Max(1 .. k)}], (sq[Max(1 .. k)]) + 1, sq[Max(1 .. k)], Y)
    BY <1>5, <2>1
  <2>4. h[k] = it[1 .. k] /\ h[k - 1] = it[1 .. k - 1]
    BY <2>1
  <2> QED
    BY <2>2, <2>3, <2>4
<1>8. h = [k \in 0 .. n |-> h[k]]
  OBVIOUS
<1> HIDE DEF h
<1>9. \A k \in 0 .. n : h[k] \in Screens
  <2>1. \A k \in 1 .. n : h[k - 1] \in Screens => h[k] \in Screens
    BY <1>1, <1>7
  <2> QED
    BY <1>0, <1>6, <2>1, StaysIn
<1>10. ASSUME NEW k \in D PROVE h[k] = move_character(h[k - 1], (Cols - k) + 1, Cols - k, Y)
  <2>1. sq[k] = Cols - k
    BY <1>0
  <2> QED
    BY <1>7, <2>1
<1> QED
  BY <1>0, <1>6, <1>8, <1>9, <1>10 DEF RoomRun, n

\* DeleteLines.
ScrollRun(h, s, m) ==
    /\ h \in [0 .. m -> Screens] /\ h[0] = s /\ h[m] = FoldLeft(LAMBDA a, k : scroll(a), s, Upwards(1, m))
    /\ \A k \in 1 .. m : h[k] = scroll(h[k - 1])

LEMMA ScrollsRun ==
    ASSUME NEW s \in Screens, NEW m \in Nat, RegionInv
    PROVE  \E h : ScrollRun(h, s, m)
<1> DEFINE n == m
           D == 1 .. n
           sq == Upwards(1, m)
           F == [p \in Screens \X D |-> scroll(p[1])]
           E(g) == [t \in SUBSET D |->
                      IF t = {} THEN s
                      ELSE scroll(g[t \ {Max(t)}])]
           it == CHOOSE g : g = E(g)
           h == [k \in 0 .. n |-> it[1 .. k]]
<1>0. n \in Nat /\ DOMAIN sq = D /\ s \in Screens /\ \A k \in D : sq[k] = k
  BY UpwardsFrom1
<1>b. n \in Nat
  BY <1>0
<1>a. FoldLeft(LAMBDA a, k : scroll(a), s, Upwards(1, m)) = it[D]
  BY <1>0 DEF FoldLeft, MapThenFoldSet
<1> HIDE DEF n, sq
<1>1. ASSUME NEW a \in Screens, NEW k \in D PROVE scroll(a) \in Screens
  BY ScrollCells
<1>2. /\ F \in [Screens \X D -> Screens]
      /\ \A a \in Screens, k \in D : F[a, k] = scroll(a)
  BY <1>1
<1> HIDE DEF F
<1>4. it = E(it)
  <2>1. PICK g : IsFold(g, Screens, n, F, s)
    BY <1>0, <1>2, FoldExists
  <2>2. ASSUME NEW t \in SUBSET D
        PROVE  g[t] = IF t = {} THEN s ELSE scroll(g[t \ {Max(t)}])
    <3>1. t # {} => Max(t) \in D
      BY <1>0, MaxIsMember
    <3> QED
      BY <1>2, <2>1, <3>1 DEF IsFold
  <2>3. g = E(g)
    BY <2>1, <2>2 DEF IsFold
  <2> QED
    BY <2>3
<1> HIDE DEF it
<1>5. \A t \in SUBSET D : it[t] = IF t = {} THEN s
                                  ELSE scroll(it[t \ {Max(t)}])
  BY <1>4
<1>6. h[0] = s /\ h[n] = FoldLeft(LAMBDA a, k : scroll(a), s, Upwards(1, m))
  <2>1. 1 .. 0 = {} /\ 0 \in 0 .. n /\ n \in 0 .. n
    BY <1>0
  <2>2. it[{}] = s
    BY <1>5
  <2> QED
    BY <1>a, <2>1, <2>2
<1>7. ASSUME NEW k \in D PROVE h[k] = scroll(h[k - 1])
  <2>1. 1 .. k \in SUBSET D /\ 1 .. k # {} /\ k \in 0 .. n /\ k - 1 \in 0 .. n /\ k \in Nat /\ k # 0
    BY <1>b, FirstElements
  <2>2. Max(1 .. k) = k /\ (1 .. k) \ {k} = 1 .. k - 1
    BY <2>1, LastOfInitial
  <2>3. it[1 .. k] = scroll(it[(1 .. k) \ {Max(1 .. k)}])
    BY <1>5, <2>1
  <2>4. h[k] = it[1 .. k] /\ h[k - 1] = it[1 .. k - 1]
    BY <2>1
  <2> QED
    BY <2>2, <2>3, <2>4
<1>8. h = [k \in 0 .. n |-> h[k]]
  OBVIOUS
<1> HIDE DEF h
<1>9. \A k \in 0 .. n : h[k] \in Screens
  <2>1. \A k \in 1 .. n : h[k - 1] \in Screens => h[k] \in Screens
    BY <1>1, <1>7
  <2> QED
    BY <1>0, <1>6, <2>1, StaysIn
<1>10. ASSUME NEW k \in D PROVE h[k] = scroll(h[k - 1])
  <2>1. sq[k] = k
    BY <1>0
  <2> QED
    BY <1>7, <2>1
<1> QED
  BY <1>0, <1>6, <1>8, <1>9, <1>10 DEF ScrollRun, n

\* InsertLines.
RevscrollRun(h, s, v, m) ==
    /\ h \in [0 .. m -> Screens] /\ h[0] = s /\ h[m] = FoldLeft(LAMBDA a, k : revscroll(a, v), s, Upwards(1, m))
    /\ \A k \in 1 .. m : h[k] = revscroll(h[k - 1], v)

LEMMA RevscrollsRun ==
    ASSUME NEW s \in Screens, NEW m \in Nat, NEW v \in 0 .. Rows - 1, RegionInv
    PROVE  \E h : RevscrollRun(h, s, v, m)
<1> DEFINE n == m
           D == 1 .. n
           sq == Upwards(1, m)
           F == [p \in Screens \X D |-> revscroll(p[1], v)]
           E(g) == [t \in SUBSET D |->
                      IF t = {} THEN s
                      ELSE revscroll(g[t \ {Max(t)}], v)]
           it == CHOOSE g : g = E(g)
           h == [k \in 0 .. n |-> it[1 .. k]]
<1>0. n \in Nat /\ DOMAIN sq = D /\ s \in Screens /\ \A k \in D : sq[k] = k
  BY UpwardsFrom1
<1>b. n \in Nat
  BY <1>0
<1>a. FoldLeft(LAMBDA a, k : revscroll(a, v), s, Upwards(1, m)) = it[D]
  BY <1>0 DEF FoldLeft, MapThenFoldSet
<1> HIDE DEF n, sq
<1>1. ASSUME NEW a \in Screens, NEW k \in D PROVE revscroll(a, v) \in Screens
  BY RevscrollCells
<1>2. /\ F \in [Screens \X D -> Screens]
      /\ \A a \in Screens, k \in D : F[a, k] = revscroll(a, v)
  BY <1>1
<1> HIDE DEF F
<1>4. it = E(it)
  <2>1. PICK g : IsFold(g, Screens, n, F, s)
    BY <1>0, <1>2, FoldExists
  <2>2. ASSUME NEW t \in SUBSET D
        PROVE  g[t] = IF t = {} THEN s ELSE revscroll(g[t \ {Max(t)}], v)
    <3>1. t # {} => Max(t) \in D
      BY <1>0, MaxIsMember
    <3> QED
      BY <1>2, <2>1, <3>1 DEF IsFold
  <2>3. g = E(g)
    BY <2>1, <2>2 DEF IsFold
  <2> QED
    BY <2>3
<1> HIDE DEF it
<1>5. \A t \in SUBSET D : it[t] = IF t = {} THEN s
                                  ELSE revscroll(it[t \ {Max(t)}], v)
  BY <1>4
<1>6. h[0] = s /\ h[n] = FoldLeft(LAMBDA a, k : revscroll(a, v), s, Upwards(1, m))
  <2>1. 1 .. 0 = {} /\ 0 \in 0 .. n /\ n \in 0 .. n
    BY <1>0
  <2>2. it[{}] = s
    BY <1>5
  <2> QED
    BY <1>a, <2>1, <2>2
<1>7. ASSUME NEW k \in D PROVE h[k] = revscroll(h[k - 1], v)
  <2>1. 1 .. k \in SUBSET D /\ 1 .. k # {} /\ k \in 0 .. n /\ k - 1 \in 0 .. n /\ k \in Nat /\ k # 0
    BY <1>b, FirstElements
  <2>2. Max(1 .. k) = k /\ (1 .. k) \ {k} = 1 .. k - 1
    BY <2>1, LastOfInitial
  <2>3. it[1 .. k] = revscroll(it[(1 .. k) \ {Max(1 .. k)}], v)
    BY <1>5, <2>1
  <2>4. h[k] = it[1 .. k] /\ h[k - 1] = it[1 .. k - 1]
    BY <2>1
  <2> QED
    BY <2>2, <2>3, <2>4
<1>8. h = [k \in 0 .. n |-> h[k]]
  OBVIOUS
<1> HIDE DEF h
<1>9. \A k \in 0 .. n : h[k] \in Screens
  <2>1. \A k \in 1 .. n : h[k - 1] \in Screens => h[k] \in Screens
    BY <1>1, <1>7
  <2> QED
    BY <1>0, <1>6, <2>1, StaysIn
<1>10. ASSUME NEW k \in D PROVE h[k] = revscroll(h[k - 1], v)
  <2>1. sq[k] = k
    BY <1>0
  <2> QED
    BY <1>7, <2>1
<1> QED
  BY <1>0, <1>6, <1>8, <1>9, <1>10 DEF RevscrollRun, n

\* InsertChars: from the end of the line on, each cell moves and becomes blank.
Inserted(a, i, c) ==
    raw_putchar(set_cursor_pos(move_character(a, i + c, i, Y), i, Y), Blank, FALSE)

InsertRun(h, c) ==
    /\ h \in [0 .. (Cols - X) -> Screens] /\ h[0] = screen /\ h[(Cols - X)] = FoldLeft(LAMBDA a, i : Inserted(a, i, c), screen, Downwards(Cols - 1, X))
    /\ \A k \in 1 .. (Cols - X) : h[k] = Inserted(h[k - 1], Cols - k, c)

LEMMA InsertsRun ==
    ASSUME screen \in Screens, NEW c \in Nat, RegionInv
    PROVE  \E h : InsertRun(h, c)
<1> DEFINE n == Cols - X
           D == 1 .. n
           sq == Downwards(Cols - 1, X)
           F == [p \in Screens \X D |-> Inserted(p[1], sq[p[2]], c)]
           E(g) == [t \in SUBSET D |->
                      IF t = {} THEN screen
                      ELSE Inserted(g[t \ {Max(t)}], sq[Max(t)], c)]
           it == CHOOSE g : g = E(g)
           h == [k \in 0 .. n |-> it[1 .. k]]
<1>0. n \in Nat /\ DOMAIN sq = D /\ screen \in Screens /\ \A k \in D : sq[k] = Cols - k
  <2>1. X \in 0 .. Cols - 1 /\ Cols \in Nat
    BY CursorCell, Sizes
  <2>2. sq = [k \in 1 .. (Cols - 1) - X + 1 |-> (Cols - 1) - k + 1]
    BY DEF Downwards
  <2>3. (Cols - 1) - X + 1 = n /\ n \in Nat
    BY <2>1
  <2>4. \A k \in 1 .. n : (Cols - 1) - k + 1 = Cols - k
    BY <2>1, <2>3
  <2> HIDE DEF sq, n
  <2> QED
    BY <2>2, <2>3, <2>4
<1>b. n \in Nat
  BY <1>0
<1>a. FoldLeft(LAMBDA a, i : Inserted(a, i, c), screen, Downwards(Cols - 1, X)) = it[D]
  BY <1>0 DEF FoldLeft, MapThenFoldSet
<1> HIDE DEF n, sq
<1>1. ASSUME NEW a \in Screens, NEW k \in D PROVE Inserted(a, sq[k], c) \in Screens
  <2>1. sq[k] \in X .. Cols - 1 /\ X \in 0 .. Cols - 1 /\ Y \in 0 .. Rows - 1 /\ Cols \in Nat
    BY <1>0, CursorCell, Sizes DEF n
  <2>2. sq[k] + c \in Nat /\ sq[k] \in 0 .. Cols - 1 /\ sq[k] \in Int /\ Y \in Int
    BY <2>1, Sizes
  <2>3. move_character(a, sq[k] + c, sq[k], Y) \in Screens
    BY <2>1, <2>2, MoveCells
  <2>4. set_cursor_pos(move_character(a, sq[k] + c, sq[k], Y), sq[k], Y) \in Screens
    BY <2>2, <2>3, CursorIsSet
  <2>5. Blank \in Marks
    BY DEF Marks
  <2> QED
    BY <2>4, <2>5, CharacterCells DEF Inserted
<1>2. /\ F \in [Screens \X D -> Screens]
      /\ \A a \in Screens, k \in D : F[a, k] = Inserted(a, sq[k], c)
  BY <1>1
<1> HIDE DEF F
<1>4. it = E(it)
  <2>1. PICK g : IsFold(g, Screens, n, F, screen)
    BY <1>0, <1>2, FoldExists
  <2>2. ASSUME NEW t \in SUBSET D
        PROVE  g[t] = IF t = {} THEN screen ELSE Inserted(g[t \ {Max(t)}], sq[Max(t)], c)
    <3>1. t # {} => Max(t) \in D
      BY <1>0, MaxIsMember
    <3> QED
      BY <1>2, <2>1, <3>1 DEF IsFold
  <2>3. g = E(g)
    BY <2>1, <2>2 DEF IsFold
  <2> QED
    BY <2>3
<1> HIDE DEF it
<1>5. \A t \in SUBSET D : it[t] = IF t = {} THEN screen
                                  ELSE Inserted(it[t \ {Max(t)}], sq[Max(t)], c)
  BY <1>4
<1>6. h[0] = screen /\ h[n] = FoldLeft(LAMBDA a, i : Inserted(a, i, c), screen, Downwards(Cols - 1, X))
  <2>1. 1 .. 0 = {} /\ 0 \in 0 .. n /\ n \in 0 .. n
    BY <1>0
  <2>2. it[{}] = screen
    BY <1>5
  <2> QED
    BY <1>a, <2>1, <2>2
<1>7. ASSUME NEW k \in D PROVE h[k] = Inserted(h[k - 1], sq[k], c)
  <2>1. 1 .. k \in SUBSET D /\ 1 .. k # {} /\ k \in 0 .. n /\ k - 1 \in 0 .. n /\ k \in Nat /\ k # 0
    BY <1>b, FirstElements
  <2>2. Max(1 .. k) = k /\ (1 .. k) \ {k} = 1 .. k - 1
    BY <2>1, LastOfInitial
  <2>3. it[1 .. k] = Inserted(it[(1 .. k) \ {Max(1 .. k)}], sq[Max(1 .. k)], c)
    BY <1>5, <2>1
  <2>4. h[k] = it[1 .. k] /\ h[k - 1] = it[1 .. k - 1]
    BY <2>1
  <2> QED
    BY <2>2, <2>3, <2>4
<1>8. h = [k \in 0 .. n |-> h[k]]
  OBVIOUS
<1> HIDE DEF h
<1>9. \A k \in 0 .. n : h[k] \in Screens
  <2>1. \A k \in 1 .. n : h[k - 1] \in Screens => h[k] \in Screens
    BY <1>1, <1>7
  <2> QED
    BY <1>0, <1>6, <2>1, StaysIn
<1>10. ASSUME NEW k \in D PROVE h[k] = Inserted(h[k - 1], Cols - k, c)
  <2>1. sq[k] = Cols - k
    BY <1>0
  <2> QED
    BY <1>7, <2>1
<1> QED
  BY <1>0, <1>6, <1>8, <1>9, <1>10 DEF InsertRun, n

\* DeleteOrEraseChars: from the cell behind the deleted ones on, each cell moves back.
DeleteRun(h, c, m) ==
    /\ h \in [0 .. m -> Screens] /\ h[0] = screen /\ h[m] = FoldLeft(LAMBDA a, i : move_character(a, i - c, i, Y), screen, Upwards(X + c, Cols - 1))
    /\ \A k \in 1 .. m : h[k] = move_character(h[k - 1], X + k - 1, X + c + k - 1, Y)

LEMMA DeletesRun ==
    ASSUME screen \in Screens, NEW c \in Nat, NEW m \in Nat, m = (IF c <= Cols - X THEN Cols - X - c ELSE 0)
    PROVE  \E h : DeleteRun(h, c, m)
<1> DEFINE n == m
           D == 1 .. n
           sq == Upwards(X + c, Cols - 1)
           F == [p \in Screens \X D |-> move_character(p[1], sq[p[2]] - c, sq[p[2]], Y)]
           E(g) == [t \in SUBSET D |->
                      IF t = {} THEN screen
                      ELSE move_character(g[t \ {Max(t)}], sq[Max(t)] - c, sq[Max(t)], Y)]
           it == CHOOSE g : g = E(g)
           h == [k \in 0 .. n |-> it[1 .. k]]
<1>0. n \in Nat /\ DOMAIN sq = D /\ screen \in Screens /\ \A k \in D : sq[k] = X + c + k - 1
  <2>1. X \in 0 .. Cols - 1 /\ Cols \in Nat
    BY CursorCell, Sizes
  <2>2. sq = [k \in 1 .. (Cols - 1) - (X + c) + 1 |-> (X + c) + k - 1]
    BY DEF Upwards
  <2>3. 1 .. (Cols - 1) - (X + c) + 1 = 1 .. n
    BY <2>1
  <2>4. \A k \in 1 .. n : (X + c) + k - 1 = X + c + k - 1
    BY <2>1, <2>3
  <2> HIDE DEF sq
  <2> QED
    BY <2>2, <2>3, <2>4
<1>b. n \in Nat
  BY <1>0
<1>a. FoldLeft(LAMBDA a, i : move_character(a, i - c, i, Y), screen, Upwards(X + c, Cols - 1)) = it[D]
  BY <1>0 DEF FoldLeft, MapThenFoldSet
<1> HIDE DEF n, sq
<1>1. ASSUME NEW a \in Screens, NEW k \in D PROVE move_character(a, sq[k] - c, sq[k], Y) \in Screens
  <2>1. X \in 0 .. Cols - 1 /\ Y \in 0 .. Rows - 1 /\ Cols \in Nat /\ n \in Nat /\ sq[k] = X + c + k - 1
    BY <1>0, CursorCell, Sizes
  <2>2. n <= Cols - X - c
    BY <2>1 DEF n
  <2>3. sq[k] - c \in Nat /\ sq[k] \in 0 .. Cols - 1
    BY <2>1, <2>2
  <2> QED
    BY <2>1, <2>3, MoveCells
<1>2. /\ F \in [Screens \X D -> Screens]
      /\ \A a \in Screens, k \in D : F[a, k] = move_character(a, sq[k] - c, sq[k], Y)
  BY <1>1
<1> HIDE DEF F
<1>4. it = E(it)
  <2>1. PICK g : IsFold(g, Screens, n, F, screen)
    BY <1>0, <1>2, FoldExists
  <2>2. ASSUME NEW t \in SUBSET D
        PROVE  g[t] = IF t = {} THEN screen ELSE move_character(g[t \ {Max(t)}], sq[Max(t)] - c, sq[Max(t)], Y)
    <3>1. t # {} => Max(t) \in D
      BY <1>0, MaxIsMember
    <3> QED
      BY <1>2, <2>1, <3>1 DEF IsFold
  <2>3. g = E(g)
    BY <2>1, <2>2 DEF IsFold
  <2> QED
    BY <2>3
<1> HIDE DEF it
<1>5. \A t \in SUBSET D : it[t] = IF t = {} THEN screen
                                  ELSE move_character(it[t \ {Max(t)}], sq[Max(t)] - c, sq[Max(t)], Y)
  BY <1>4
<1>6. h[0] = screen /\ h[n] = FoldLeft(LAMBDA a, i : move_character(a, i - c, i, Y), screen, Upwards(X + c, Cols - 1))
  <2>1. 1 .. 0 = {} /\ 0 \in 0 .. n /\ n \in 0 .. n
    BY <1>0
  <2>2. it[{}] = screen
    BY <1>5
  <2> QED
    BY <1>a, <2>1, <2>2
<1>7. ASSUME NEW k \in D PROVE h[k] = move_character(h[k - 1], sq[k] - c, sq[k], Y)
  <2>1. 1 .. k \in SUBSET D /\ 1 .. k # {} /\ k \in 0 .. n /\ k - 1 \in 0 .. n /\ k \in Nat /\ k # 0
    BY <1>b, FirstElements
  <2>2. Max(1 .. k) = k /\ (1 .. k) \ {k} = 1 .. k - 1
    BY <2>1, LastOfInitial
  <2>3. it[1 .. k] = move_character(it[(1 .. k) \ {Max(1 .. k)}], sq[Max(1 .. k)] - c, sq[Max(1 .. k)], Y)
    BY <1>5, <2>1
  <2>4. h[k] = it[1 .. k] /\ h[k - 1] = it[1 .. k - 1]
    BY <2>1
  <2> QED
    BY <2>2, <2>3, <2>4
<1>8. h = [k \in 0 .. n |-> h[k]]
  OBVIOUS
<1> HIDE DEF h
<1>9. \A k \in 0 .. n : h[k] \in Screens
  <2>1. \A k \in 1 .. n : h[k - 1] \in Screens => h[k] \in Screens
    BY <1>1, <1>7
  <2> QED
    BY <1>0, <1>6, <2>1, StaysIn
<1>10. ASSUME NEW k \in D PROVE h[k] = move_character(h[k - 1], X + k - 1, X + c + k - 1, Y)
  <2>1. sq[k] = X + c + k - 1
    BY <1>0
  <2>2. X \in Int /\ k \in Int
    BY <1>b, CursorCell, Sizes
  <2>3. (X + c + k - 1) - c = X + k - 1
    BY <2>2
  <2> QED
    BY <1>7, <2>1, <2>3
<1> QED
  BY <1>0, <1>6, <1>8, <1>9, <1>10 DEF DeleteRun, n

----
\* Blanks, written one after the other: from the cell of the cursor on, through the lines down
\* to the bottom margin, or to the end of its own line where that is below the margin.

LastLine(v) == IF v < scroll_bottom_margin THEN scroll_bottom_margin - 1 ELSE v

\* Where a run of blanks that started on line v is.
OnItsWay(t, v) == t.y \in v .. LastLine(v) /\ (t.x <= Cols \/ t.y = LastLine(v))
Position(t) == t.y * Cols + t.x

LEMMA LastLineOnScreen ==
    ASSUME RegionInv, NEW v \in 0 .. Rows - 1
    PROVE  LastLine(v) \in v .. Rows - 1 /\ LastLine(v) \in Nat /\ v \in Nat
BY Sizes DEF RegionInv, LastLine

LEMMA OneBlank ==
    ASSUME RegionInv, NEW v \in 0 .. Rows - 1, NEW a \in Screens, OnItsWay(a, v)
    PROVE  LET t == raw_putchar(a, Blank, FALSE)
           IN  /\ t \in Screens /\ OnItsWay(t, v) /\ Position(t) = Position(a) + 1
               /\ \A i \in Cells : t.cells[i] = IF i = Position(a) /\ i < (LastLine(v) + 1) * Cols
                                                THEN Blank ELSE a.cells[i]
<1> DEFINE t == raw_putchar(a, Blank, FALSE)
           last == LastLine(v)
           b == scroll_bottom_margin
<1>1. /\ Cols \in Nat /\ Rows \in Nat /\ Cols >= 2 /\ Cols >= Rows /\ last \in v .. Rows - 1
      /\ last \in Nat /\ b \in Nat /\ b <= Rows /\ b >= 2 /\ v \in Nat
  <2>1. Cols >= Rows
    BY TerminalAssumption DEF TerminalAssumption
  <2>2. b \in Nat /\ b <= Rows /\ b >= 2
    BY Sizes DEF RegionInv
  <2>3. last \in v .. Rows - 1 /\ last \in Nat /\ v \in Nat
    BY LastLineOnScreen
  <2> HIDE DEF last, b
  <2> QED
    BY <2>1, <2>2, <2>3, Sizes
<1>2. /\ a.x \in Nat /\ a.y \in Nat /\ a.y \in v .. last /\ (a.x <= Cols \/ a.y = last)
      /\ a.cells \in [Cells -> Marks]
  BY DEF OnItsWay, Screens
<1>3. last = IF v < b THEN b - 1 ELSE v
  BY DEF LastLine
<1>a. raw_putchar(a, Blank, FALSE) = t /\ (OnItsWay(t, v) <=> t.y \in v .. last /\ (t.x <= Cols \/ t.y = last))
  BY DEF OnItsWay
<1> HIDE DEF last, b
<1>4. Blank \in Marks
  BY DEF Marks
<1>5. t \in Screens
  BY <1>4, CharacterCells
<1> HIDE DEF t
<1>6. (a.y + 1) * Cols <= (last + 1) * Cols /\ (a.y + 1) * Cols = a.y * Cols + Cols /\ a.y * Cols \in Nat
  <2>1. a.y + 1 \in Nat /\ last + 1 \in Nat /\ a.y + 1 <= last + 1
    BY <1>1, <1>2
  <2>2. (a.y + 1) * Cols <= (last + 1) * Cols
    <3> HIDE DEF last
    <3> QED
      BY <1>1, <2>1, ProductIsMonotone
  <2> HIDE DEF last
  <2> QED
    BY <1>1, <1>2, <2>2
<1>7. CASE a.x < Cols
  <2>1. t.x = a.x + 1 /\ t.y = a.y /\ t.cells = Store(a, Blank, a.x, a.y).cells
    BY <1>4, <1>7, CharacterCells DEF t
  <2>2. a.y < Rows
    BY <1>1, <1>2
  <2>3. /\ CellAt(a.x, a.y) \in Cells
        /\ Store(a, Blank, a.x, a.y).cells = [a.cells EXCEPT ![CellAt(a.x, a.y)] = Blank]
    <3> DEFINE u == a.x
               w == a.y
    <3>1. u \in Nat /\ w \in Nat /\ u < Cols /\ w < Rows
      BY <1>2, <1>7, <2>2
    <3> HIDE DEF u, w
    <3>2. LET st == Store(a, Blank, u, w)
          IN  CellAt(u, w) \in Cells /\ st.cells = [a.cells EXCEPT ![CellAt(u, w)] = Blank]
      BY <1>4, <3>1, StoreCells
    <3> QED
      BY <3>2 DEF u, w
  <2>4. CellAt(a.x, a.y) = Position(a) /\ Position(t) = Position(a) + 1 /\ Position(a) < (last + 1) * Cols
    <3>1. a.y * Cols + a.x < (last + 1) * Cols
      <4> DEFINE p == a.y * Cols
                 q == (last + 1) * Cols
      <4>1. p \in Nat /\ q \in Nat /\ p + Cols <= q
        BY <1>1, <1>6
      <4> HIDE DEF p, q
      <4>2. p + a.x < q
        BY <1>1, <1>2, <1>7, <4>1
      <4> QED
        BY <4>2 DEF p, q
    <3>2. t.y * Cols + t.x = a.y * Cols + a.x + 1
      <4> QED
        BY <1>1, <1>2, <1>6, <2>1
    <3> QED
      BY <3>1, <3>2 DEF CellAt, Position
  <2>5. ASSUME NEW i \in Cells
        PROVE  t.cells[i] = IF i = Position(a) /\ i < (last + 1) * Cols THEN Blank ELSE a.cells[i]
    <3> QED
      BY <1>2, <2>1, <2>3, <2>4
  <2>6. OnItsWay(t, v)
    BY <1>1, <1>2, <1>7, <1>a, <2>1
  <2> QED
    BY <1>5, <2>4, <2>5, <2>6 DEF t, last
<1>8. CASE a.x >= Cols /\ a.y < b - 1
  <2>1. a.x = Cols /\ a.y + 1 \in v .. last /\ a.y + 1 # b /\ a.y + 1 < Rows
    BY <1>1, <1>2, <1>3, <1>8
  <2>2. NextLine(a) = [a EXCEPT !.x = 0, !.y = a.y + 1]
    <3>1. Least(a.y + 1, Cols - 1) = a.y + 1
      BY <1>1, <2>1 DEF Least
    <3>2. NextLine(a) = [[a EXCEPT !.y = a.y + 1] EXCEPT !.x = 0, !.y = Least(a.y + 1, Cols - 1)]
      <4>1. a.y + 1 # scroll_bottom_margin
        BY <2>1 DEF b
      <4>2. (IF a.y + 1 = scroll_bottom_margin THEN scroll(a) ELSE [a EXCEPT !.y = @ + 1]) = [a EXCEPT !.y = a.y + 1]
        BY <4>1
      <4>3. [a EXCEPT !.y = a.y + 1].y = a.y + 1
        BY DEF Screens
      <4> QED
        BY <4>2, <4>3 DEF NextLine
    <3> QED
      BY <3>1, <3>2 DEF Screens
  <2> DEFINE l == NextLine(a)
  <2>3. l \in Screens /\ l.x = 0 /\ l.y = a.y + 1 /\ l.cells = a.cells
    <3>1. NextLine(a) = [cells |-> a.cells, x |-> 0, y |-> a.y + 1]
      BY <2>2 DEF Screens
    <3>2. a.y + 1 \in Nat /\ 0 \in Nat
      BY <1>2
    <3> QED
      BY <1>2, <3>1, <3>2 DEF Screens
  <2>4. t = [Store(l, Blank, l.x, l.y) EXCEPT !.x = l.x + 1]
    BY <1>8 DEF raw_putchar, t, b
  <2> HIDE DEF l
  <2>5. /\ Store(l, Blank, 0, a.y + 1) \in Screens
        /\ Store(l, Blank, 0, a.y + 1).y = a.y + 1
        /\ CellAt(0, a.y + 1) \in Cells
        /\ Store(l, Blank, 0, a.y + 1).cells = [a.cells EXCEPT ![CellAt(0, a.y + 1)] = Blank]
    <3> DEFINE w == a.y + 1
    <3>1. 0 \in Nat /\ w \in Nat /\ 0 < Cols /\ w < Rows
      BY <1>1, <1>2, <2>1
    <3>2. l.y = w /\ l.cells = a.cells
      BY <2>3
    <3> HIDE DEF w
    <3>3. LET st == Store(l, Blank, 0, w)
          IN  /\ st \in Screens /\ st.x = l.x /\ st.y = l.y /\ CellAt(0, w) \in Cells
              /\ st.cells = [l.cells EXCEPT ![CellAt(0, w)] = Blank]
      BY <1>4, <2>3, <3>1, StoreCells
    <3>4. /\ Store(l, Blank, 0, w) \in Screens /\ Store(l, Blank, 0, w).y = w /\ CellAt(0, w) \in Cells
          /\ Store(l, Blank, 0, w).cells = [a.cells EXCEPT ![CellAt(0, w)] = Blank]
      BY <3>2, <3>3
    <3> QED
      BY <3>4 DEF w
  <2>6. t.x = 1 /\ t.y = a.y + 1 /\ t.cells = [a.cells EXCEPT ![CellAt(0, a.y + 1)] = Blank]
    <3> DEFINE w == Store(l, Blank, 0, a.y + 1)
    <3>1. w \in Screens /\ w.y = a.y + 1 /\ w.cells = [a.cells EXCEPT ![CellAt(0, a.y + 1)] = Blank]
      BY <2>5
    <3>2. t = [w EXCEPT !.x = 0 + 1]
      BY <2>3, <2>4
    <3> HIDE DEF w
    <3>3. t = [cells |-> w.cells, x |-> 1, y |-> w.y]
      BY <3>1, <3>2 DEF Screens
    <3> QED
      BY <3>1, <3>3
  <2>7. CellAt(0, a.y + 1) = Position(a) /\ Position(t) = Position(a) + 1 /\ Position(a) < (last + 1) * Cols
    <3>1. (a.y + 1) * Cols + 0 = a.y * Cols + a.x /\ t.y * Cols + t.x = a.y * Cols + a.x + 1
      <4> QED
        BY <1>1, <1>6, <2>1, <2>6
    <3>2. a.y + 2 \in Nat /\ last + 1 \in Nat /\ a.y + 2 <= last + 1
      BY <1>1, <1>2, <2>1
    <3>3. (a.y + 2) * Cols <= (last + 1) * Cols
      <4> HIDE DEF last
      <4> QED
        BY <1>1, <3>2, ProductIsMonotone
    <3>4. (a.y + 2) * Cols = a.y * Cols + Cols + Cols
      BY <1>1, <1>2
    <3>5. a.y * Cols + Cols < (last + 1) * Cols
      <4> DEFINE p == a.y * Cols
                 q == (last + 1) * Cols
      <4>1. p \in Nat /\ q \in Nat /\ p + Cols + Cols <= q
        BY <1>1, <1>6, <3>3, <3>4
      <4> HIDE DEF p, q
      <4>2. p + Cols < q
        BY <1>1, <4>1
      <4> QED
        BY <4>2 DEF p, q
    <3> QED
      BY <2>1, <3>1, <3>5 DEF CellAt, Position
  <2>8. ASSUME NEW i \in Cells
        PROVE  t.cells[i] = IF i = Position(a) /\ i < (last + 1) * Cols THEN Blank ELSE a.cells[i]
    <3> QED
      BY <1>2, <2>5, <2>6, <2>7
  <2>9. OnItsWay(t, v)
    BY <1>1, <1>2, <1>a, <2>1, <2>6
  <2> QED
    BY <1>5, <2>7, <2>8, <2>9 DEF t, last
<1>9. CASE a.x >= Cols /\ ~(a.y < b - 1)
  <2>1. a.y = last
    BY <1>1, <1>2, <1>3, <1>9
  <2>2. t = [a EXCEPT !.x = a.x + 1]
    BY <1>1, <1>2, <1>9 DEF raw_putchar, Store, t, b
  <2>3. t.x = a.x + 1 /\ t.y = a.y /\ t.cells = a.cells
    BY <2>2 DEF Screens
  <2>4. Position(t) = Position(a) + 1 /\ ~(Position(a) < (last + 1) * Cols)
    <3>1. t.y * Cols + t.x = a.y * Cols + a.x + 1
      <4> QED
        BY <1>1, <1>2, <1>6, <2>3
    <3>2. ~(a.y * Cols + a.x < (last + 1) * Cols)
      <4> DEFINE p == a.y * Cols
      <4>1. p \in Nat /\ (last + 1) * Cols = p + Cols
        BY <1>6, <2>1
      <4> HIDE DEF p
      <4>2. ~(p + a.x < p + Cols)
        BY <1>1, <1>2, <1>9, <4>1
      <4> QED
        BY <4>1, <4>2 DEF p
    <3> QED
      BY <3>1, <3>2 DEF Position
  <2>5. OnItsWay(t, v)
    BY <1>1, <1>2, <1>a, <2>1, <2>3
  <2>6. ASSUME NEW i \in Cells
        PROVE  t.cells[i] = IF i = Position(a) /\ i < (last + 1) * Cols THEN Blank ELSE a.cells[i]
    BY <2>3, <2>4
  <2> QED
    BY <1>5, <2>4, <2>5, <2>6 DEF t, last
<1>b. (a.x < Cols) \/ (a.x >= Cols /\ a.y < b - 1) \/ (a.x >= Cols /\ ~(a.y < b - 1))
  BY <1>1, <1>2
<1> QED
  BY <1>b, <1>7, <1>8, <1>9 DEF t, last

\* What a run of m blanks from the cursor of s leaves: a written t.
Blanked(t, s, m) ==
    /\ t \in Screens /\ OnItsWay(t, s.y) /\ Position(t) = Position(s) + m
    /\ \A i \in Cells : t.cells[i] =
          IF i \in Position(s) .. Position(s) + m - 1 /\ i < (LastLine(s.y) + 1) * Cols
          THEN Blank ELSE s.cells[i]

LEMMA BlanksCells ==
    ASSUME NEW s \in Screens, NEW m \in Nat, s.x < Cols, s.y < Rows, RegionInv
    PROVE  Blanked(Blanks(s, m), s, m)
<1>1. PICK h : BlankRun(h, s, m)
  BY BlanksRun
<1>2. /\ s.y \in 0 .. Rows - 1 /\ s.x \in Nat /\ Cols \in Nat /\ Position(s) \in Nat
      /\ h[0] = s /\ h[m] = Blanks(s, m)
  <2>1. s.x \in Nat /\ s.y \in Nat
    BY DEF Screens
  <2>2. s.y * Cols + s.x \in Nat
    BY <2>1, Sizes
  <2> QED
    BY <1>1, <2>1, <2>2, Sizes DEF BlankRun, Position
<1> DEFINE P == {k \in 0 .. m : Blanked(h[k], s, k)}
<1>3. 0 \in P
  <2>1. OnItsWay(s, s.y)
    BY <1>2, LastLineOnScreen, Sizes DEF OnItsWay
  <2>2. Blanked(s, s, 0)
    BY <1>2, <2>1 DEF Blanked
  <2> QED
    BY <1>2, <2>2
<1>4. ASSUME NEW k \in 0 .. m - 1, k \in P PROVE k + 1 \in P
  <2> DEFINE a == h[k]
             c == h[k + 1]
  <2>1. Blanked(a, s, k) /\ k \in Nat
    BY <1>4
  <2>2. c = raw_putchar(a, Blank, FALSE)
    <3>1. k + 1 \in 1 .. m /\ (k + 1) - 1 = k
      BY <1>4
    <3> QED
      BY <1>1, <3>1 DEF BlankRun
  <2> HIDE DEF a, c
  <2>3. a \in Screens /\ OnItsWay(a, s.y)
    BY <2>1 DEF Blanked
  <2>4. /\ c \in Screens /\ OnItsWay(c, s.y) /\ Position(c) = Position(a) + 1
        /\ \A i \in Cells : c.cells[i] = IF i = Position(a) /\ i < (LastLine(s.y) + 1) * Cols
                                         THEN Blank ELSE a.cells[i]
    BY <1>2, <2>2, <2>3, OneBlank
  <2>5. /\ Position(a) = Position(s) + k
        /\ \A i \in Cells : a.cells[i] =
             IF i \in Position(s) .. Position(s) + k - 1 /\ i < (LastLine(s.y) + 1) * Cols
             THEN Blank ELSE s.cells[i]
    BY <2>1 DEF Blanked
  <2>6. \A i \in Cells : i \in Int
    BY CellHasPlace
  <2>7. ASSUME NEW i \in Cells
        PROVE  c.cells[i] = IF i \in Position(s) .. Position(s) + (k + 1) - 1 /\ i < (LastLine(s.y) + 1) * Cols
                            THEN Blank ELSE s.cells[i]
    <3>1. i \in Position(s) .. Position(s) + (k + 1) - 1
             <=> i \in Position(s) .. Position(s) + k - 1 \/ i = Position(a)
      BY <1>2, <2>1, <2>5, <2>6
    <3> QED
      BY <2>4, <2>5, <3>1
  <2>8. Position(c) = Position(s) + (k + 1)
    BY <1>2, <2>1, <2>4, <2>5
  <2>9. Blanked(c, s, k + 1)
    BY <2>4, <2>7, <2>8 DEF Blanked
  <2>10. k + 1 \in 0 .. m
    BY <1>4
  <2> QED
    BY <2>9, <2>10 DEF c
<1>5. m \in 0 .. m
  OBVIOUS
<1>6. m \in P
  <2> HIDE DEF P
  <2> QED
    BY <1>3, <1>4, <1>5, UpTo
<1> QED
  BY <1>2, <1>6

\* Not more blanks than the line has room for stay on the line.
LEMMA BlanksOnLine ==
    ASSUME NEW s \in Screens, NEW m \in Nat, s.x < Cols, s.y < Rows, s.x + m <= Cols, RegionInv
    PROVE  LET t == Blanks(s, m)
           IN  /\ t \in Screens /\ t.x <= Cols
               /\ s.x + m < Cols => t.x = s.x + m /\ t.y = s.y
               /\ \A i \in Cells : t.cells[i] = IF i \in CellAt(s.x, s.y) .. CellAt(s.x, s.y) + m - 1
                                                THEN Blank ELSE s.cells[i]
<1> DEFINE t == Blanks(s, m)
           last == LastLine(s.y)
<1>1. /\ t \in Screens /\ OnItsWay(t, s.y) /\ Position(t) = Position(s) + m
      /\ \A i \in Cells : t.cells[i] =
           IF i \in Position(s) .. Position(s) + m - 1 /\ i < (last + 1) * Cols
           THEN Blank ELSE s.cells[i]
  BY BlanksCells DEF Blanked
<1> HIDE DEF t
<1>2. /\ Cols \in Nat /\ Cols >= 2 /\ s.x \in Nat /\ s.y \in Nat /\ t.x \in Nat /\ t.y \in Nat
      /\ s.y \in 0 .. Rows - 1 /\ last \in Nat /\ last >= s.y
  BY <1>1, Sizes, LastLineOnScreen DEF Screens
<1>3. t.y >= s.y /\ t.y * Cols + t.x = s.y * Cols + s.x + m
  <2>1. t.y >= s.y
    BY <1>1, <1>2 DEF OnItsWay
  <2>2. t.y * Cols + t.x = (s.y * Cols + s.x) + m
    BY <1>1 DEF Position
  <2> QED
    BY <1>2, <2>1, <2>2
<1>4. /\ s.y * Cols \in Nat /\ (s.y + 1) * Cols = s.y * Cols + Cols
      /\ (s.y + 1) * Cols <= (last + 1) * Cols /\ (last + 1) * Cols \in Nat /\ t.y * Cols \in Nat
  <2>1. s.y + 1 \in Nat /\ last + 1 \in Nat /\ s.y + 1 <= last + 1
    BY <1>2
  <2> HIDE DEF last
  <2>2. (s.y + 1) * Cols <= (last + 1) * Cols
    BY <1>2, <2>1, ProductIsMonotone
  <2> QED
    BY <1>2, <2>1, <2>2
<1>5. t.y # s.y => t.y * Cols >= s.y * Cols + Cols
  <2> SUFFICES ASSUME t.y # s.y PROVE (s.y + 1) * Cols <= t.y * Cols
    BY <1>4
  <2>1. s.y + 1 \in Nat /\ s.y + 1 <= t.y
    BY <1>2, <1>3
  <2> QED
    BY <1>2, <2>1, ProductIsMonotone
<1> DEFINE p == s.y * Cols
           q == (last + 1) * Cols
           r == t.y * Cols
<1>6. p \in Nat /\ q \in Nat /\ r \in Nat /\ p + Cols <= q /\ r + t.x = p + s.x + m /\ (t.y = s.y => r = p)
      /\ (t.y # s.y => r >= p + Cols)
  BY <1>3, <1>4, <1>5
<1>7. Position(s) = p + s.x /\ CellAt(s.x, s.y) = p + s.x
  BY DEF Position, CellAt
<1> HIDE DEF p, q, r
<1>8. t.x <= Cols /\ (s.x + m < Cols => t.x = s.x + m /\ t.y = s.y)
  BY <1>2, <1>6
<1>9. \A i \in Cells : i \in Position(s) .. Position(s) + m - 1 => i < q
  BY <1>2, <1>6, <1>7
<1> QED
  BY <1>1, <1>7, <1>8, <1>9 DEF q, t

----
\* The cursor is on the screen or behind the last column.

OnScreen(s) == s \in Screens /\ s.x <= Cols
After(x) == IF x = Cols THEN 1 ELSE x + 1

LEMMA CursorOnScreen ==
    ASSUME NEW s \in Screens, NEW u \in Int, NEW v \in Int
    PROVE  OnScreen(set_cursor_pos(s, u, v))
<1>1. /\ set_cursor_pos(s, u, v) \in Screens
      /\ set_cursor_pos(s, u, v).x \in 0 .. Cols - 1
  BY CursorIsSet
<1>2. set_cursor_pos(s, u, v).x <= Cols
  BY <1>1, Sizes
<1> QED
  BY <1>1, <1>2 DEF OnScreen

LEMMA CharacterOnScreen ==
    ASSUME NEW s, OnScreen(s), NEW g \in Marks, RegionInv
    PROVE  OnScreen(raw_putchar(s, g, TRUE)) /\ raw_putchar(s, g, TRUE).x = After(s.x)
<1>1. s \in Screens /\ s.x \in Nat /\ s.x <= Cols /\ Cols \in Nat /\ Cols >= 2
  BY Sizes DEF OnScreen, Screens
<1> DEFINE t == raw_putchar(s, g, TRUE)
<1>2. t \in Screens /\ (s.x < Cols => t.x = s.x + 1) /\ (s.x >= Cols => t.x = 1)
  BY <1>1, CharacterCells
<1> HIDE DEF t
<1>3. t.x = After(s.x) /\ t.x <= Cols
  BY <1>1, <1>2 DEF After
<1> QED
  BY <1>2, <1>3 DEF OnScreen, t

LEMMA BoxesOnScreen ==
    ASSUME NEW s, OnScreen(s), NEW m \in {0, 1, 2}, RegionInv
    PROVE  /\ OnScreen(Boxes(s, m))
           /\ Boxes(s, m).x = IF m = 0 THEN s.x ELSE IF m = 1 THEN After(s.x) ELSE After(After(s.x))
<1>1. s \in Screens /\ m \in Nat
  BY DEF OnScreen
<1>2. PICK h : GlyphRun(h, s, m)
  BY <1>1, GlyphsRun
<1>3. h[0] = s /\ h[m] = Boxes(s, m)
      /\ \A k \in 1 .. m : h[k] = raw_putchar(h[k - 1], IF k = 1 THEN Letter ELSE Blank, TRUE)
  BY <1>2 DEF GlyphRun
<1>4. Letter \in Marks /\ Blank \in Marks
  BY DEF Marks
<1>5. m # 0 => OnScreen(h[1]) /\ h[1].x = After(s.x)
  <2> SUFFICES ASSUME m # 0 PROVE OnScreen(h[1]) /\ h[1].x = After(s.x)
    OBVIOUS
  <2>1. 1 \in 1 .. m /\ 1 - 1 = 0
    BY <1>1
  <2>2. h[1] = raw_putchar(h[0], Letter, TRUE)
    BY <1>3, <2>1
  <2> QED
    BY <1>3, <1>4, <2>2, CharacterOnScreen
<1>6. m = 2 => OnScreen(h[2]) /\ h[2].x = After(After(s.x))
  <2> SUFFICES ASSUME m = 2 PROVE OnScreen(h[2]) /\ h[2].x = After(After(s.x))
    OBVIOUS
  <2>1. 2 \in 1 .. m /\ 2 - 1 = 1 /\ 2 # 1
    OBVIOUS
  <2>2. h[2] = raw_putchar(h[1], Blank, TRUE)
    BY <1>3, <2>1
  <2> DEFINE a == h[1]
  <2>3. OnScreen(a) /\ a.x = After(s.x)
    BY <1>5
  <2>4. h[2] = raw_putchar(a, Blank, TRUE)
    BY <2>2
  <2> HIDE DEF a
  <2>5. OnScreen(raw_putchar(a, Blank, TRUE)) /\ raw_putchar(a, Blank, TRUE).x = After(a.x)
    BY <1>4, <2>3, CharacterOnScreen
  <2> QED
    BY <2>3, <2>4, <2>5
<1> QED
  BY <1>3, <1>5, <1>6

LEMMA WidthIsSmall ==
    ASSUME NEW ucs
    PROVE  mk_wcwidth(ucs) \in {0, 1, 2}
BY DEF mk_wcwidth

LEMMA GlyphOnScreen ==
    ASSUME NEW s, OnScreen(s), NEW ucs, RegionInv
    PROVE  OnScreen(unicode_to_cp437(s, ucs))
<1>1. Letter \in Marks
  BY DEF Marks
<1>2. CASE ucs \in Cp437
  BY <1>1, <1>2, CharacterOnScreen DEF unicode_to_cp437
<1>3. CASE ucs \notin Cp437
  <2>1. unicode_to_cp437(s, ucs) = Boxes(s, mk_wcwidth(ucs))
    BY <1>3 DEF unicode_to_cp437, Boxes
  <2> QED
    BY <2>1, WidthIsSmall, BoxesOnScreen
<1> QED
  BY <1>2, <1>3

----
\* The screen after each action.

LEMMA ValuesAreNumbers ==
    ASSUME ValuesInv, NEW k \in Nat \ {0}, NEW d \in Nat
    PROVE  Value(k, d) \in Nat
<1>1. esc_values \in Seq(0 .. Word - 1) /\ Word \in Nat
  BY Sizes DEF ValuesInv
<1>2. CASE k <= Len(esc_values)
  BY <1>1, <1>2 DEF Value
<1> QED
  BY <1>2 DEF Value

LEMMA CountIsNumber == ASSUME ValuesInv PROVE Count \in Nat
BY ValuesAreNumbers DEF Count

LEMMA FeedOnScreen ==
    ASSUME NEW s \in Screens, screen \in Screens, NEW u \in Int, RegionInv
    PROVE  OnScreen(LineFeed(s, u))
<1>1. Y \in Int /\ Y + 1 \in Int
  BY CursorCell, Sizes
<1>2. scroll(s) \in Screens
  BY ScrollCells
<1> QED
  BY <1>1, <1>2, CursorOnScreen DEF LineFeed

LEMMA CursorIsNumber ==
    ASSUME screen \in Screens
    PROVE  X \in Nat /\ Y \in Nat /\ X < Cols /\ Y < Rows
BY CursorCell, Sizes

LEMMA RoomOnScreen ==
    ASSUME OnScreen(screen)
    PROVE  OnScreen(MadeRoom)
<1>0. screen \in Screens
  BY DEF OnScreen
<1>1. CASE ~insert_mode
  BY <1>1 DEF MadeRoom
<1>2. CASE insert_mode
  <2>1. PICK h : RoomRun(h)
    BY <1>0, <1>2, RoomsRun
  <2> DEFINE n == Cols - X
             B == {s \in Screens : s.x = screen.x}
  <2>2. /\ n \in Nat /\ h \in [0 .. n -> Screens] /\ h[0] = screen /\ h[n] = MadeRoom
        /\ \A k \in 1 .. n : h[k] = move_character(h[k - 1], (Cols - k) + 1, Cols - k, Y)
    <3>1. n \in Nat
      BY <1>0, CursorIsNumber, Sizes
    <3> QED
      BY <2>1, <3>1 DEF RoomRun
  <2>3. ASSUME NEW k \in 1 .. n, h[k - 1] \in B PROVE h[k] \in B
    <3>1. (Cols - k) + 1 \in Nat /\ Cols - k \in 0 .. Cols - 1 /\ Y \in 0 .. Rows - 1
      BY <1>0, CursorIsNumber, Sizes
    <3>2. h[k] = move_character(h[k - 1], (Cols - k) + 1, Cols - k, Y)
      BY <2>2
    <3> DEFINE a == h[k - 1]
               j == Cols - k
    <3>3. a \in Screens /\ a.x = screen.x /\ h[k] = move_character(a, j + 1, j, Y)
      BY <2>3, <3>2
    <3>4. j + 1 \in Nat /\ j \in 0 .. Cols - 1
      BY <3>1
    <3> HIDE DEF a, j
    <3>5. move_character(a, j + 1, j, Y) \in Screens /\ move_character(a, j + 1, j, Y).x = a.x
      BY <3>1, <3>3, <3>4, MoveCells
    <3> QED
      BY <3>3, <3>5
  <2>4. h[0] \in B
    BY <1>0, <2>2
  <2>5. \A k \in 0 .. n : h[k] \in B
    <3> HIDE DEF n, B
    <3> QED
      BY <2>2, <2>3, <2>4, StaysIn
  <2>6. h[n] \in B
    BY <2>2, <2>5
  <2> QED
    BY <2>2, <2>6 DEF OnScreen
<1> QED
  BY <1>1, <1>2

LEMMA GroundOnScreen ==
    ASSUME OnScreen(screen), RegionInv, UnicodeContinues \/ Control \/ PrintCharacter
    PROVE  OnScreen(screen')
<1>0. screen \in Screens /\ X \in Nat /\ Y \in Nat /\ Cols \in Nat /\ TabSize \in Nat /\ TabSize > 0
  BY CursorIsNumber, Sizes DEF OnScreen
<1>1. CASE UnicodeContinues
  <2>1. PICK ucs : screen' = screen \/ screen' = unicode_to_cp437(screen, ucs)
    BY <1>1 DEF UnicodeContinues
  <2> QED
    BY <2>1, GlyphOnScreen
<1>2. CASE Control
  <2>1. OnScreen(Tabbed)
    <3> DEFINE stop == X \div TabSize + 1
               u == IF stop >= Cols THEN Cols - 1 ELSE stop * TabSize
    <3>1. stop \in Nat
      BY <1>0
    <3>2. u \in Int
      <4> HIDE DEF stop
      <4> QED
        BY <1>0, <3>1
    <3>3. Tabbed = set_cursor_pos(screen, u, Y)
      BY DEF Tabbed
    <3> HIDE DEF u
    <3> QED
      BY <1>0, <3>2, <3>3, CursorOnScreen
  <2>2. OnScreen(LineFeed(screen, 0))
    BY <1>0, FeedOnScreen
  <2>3. OnScreen(set_cursor_pos(screen, X - 1, Y)) /\ OnScreen(set_cursor_pos(screen, 0, Y))
    BY <1>0, CursorOnScreen
  <2>4. \/ screen' = Tabbed \/ screen' = LineFeed(screen, 0) \/ screen' = screen
        \/ screen' = set_cursor_pos(screen, X - 1, Y) \/ screen' = set_cursor_pos(screen, 0, Y)
    <3>1. PICK c \in {"NUL", "TAB", "LF", "BS", "CR", "SO", "SI"} :
             screen' = CASE c = "TAB" -> Tabbed
                         [] c = "LF" -> LineFeed(screen, 0)
                         [] c = "BS" -> set_cursor_pos(screen, X - 1, Y)
                         [] c = "CR" -> set_cursor_pos(screen, 0, Y)
                         [] OTHER -> screen
      BY <1>2 DEF Control
    <3> QED
      BY <3>1
  <2> QED
    BY <2>1, <2>2, <2>3, <2>4
<1>3. CASE PrintCharacter
  <2>1. screen' = MadeRoom \/ \E g \in {Drawing, Letter} : screen' = raw_putchar(MadeRoom, g, TRUE)
    BY <1>3 DEF PrintCharacter
  <2>2. Drawing \in Marks /\ Letter \in Marks
    BY DEF Marks
  <2>3. CASE screen' = MadeRoom
    BY <2>3, RoomOnScreen
  <2>4. ASSUME NEW g \in {Drawing, Letter}, screen' = raw_putchar(MadeRoom, g, TRUE)
        PROVE  OnScreen(screen')
    BY <2>2, <2>4, RoomOnScreen, CharacterOnScreen
  <2> QED
    BY <2>1, <2>3, <2>4
<1> QED
  BY <1>1, <1>2, <1>3

SavedInv ==
    /\ saved_cursor \in [x : Nat, y : Nat]
    /\ saved_state \in [x : 0 .. Cols, y : Nat, charset : {0, 1}]

LEMMA EscapeOnScreen ==
    ASSUME OnScreen(screen), RegionInv, SavedInv, EscapeRestores \/ EscapeResets \/ EscapeScrolls
    PROVE  OnScreen(screen')
<1>0. screen \in Screens /\ X \in Nat /\ Y \in Nat /\ Cols \in Nat
  BY CursorIsNumber, Sizes DEF OnScreen
<1>1. CASE EscapeRestores
  <2>1. /\ saved_state.x \in 0 .. Cols /\ saved_state.y \in Nat /\ screen.cells \in [Cells -> Marks]
    BY <1>0 DEF SavedInv, Screens
  <2>2. screen' = [cells |-> screen.cells, x |-> saved_state.x, y |-> saved_state.y]
    BY <1>0, <1>1 DEF EscapeRestores, Screens
  <2>3. saved_state.x \in Nat /\ saved_state.x <= Cols
    BY <1>0, <2>1
  <2> QED
    BY <2>1, <2>2, <2>3 DEF OnScreen, Screens
<1>2. CASE EscapeResets
  <2>1. screen' = [cells |-> [i \in Cells |-> Blank], x |-> 0, y |-> 0]
    BY <1>2 DEF EscapeResets
  <2>2. Blank \in Marks
    BY DEF Marks
  <2>3. [i \in Cells |-> Blank] \in [Cells -> Marks]
    BY <2>2
  <2> QED
    BY <1>0, <2>1, <2>3 DEF OnScreen, Screens
<1>3. CASE EscapeScrolls
  <2>1. \/ screen' = LineFeed(screen, X) \/ screen' = LineFeed(screen, 0)
        \/ screen' = set_cursor_pos(revscroll(screen, scroll_top_margin), 0, Y)
        \/ screen' = set_cursor_pos(screen, 0, Y - 1)
    BY <1>3 DEF EscapeScrolls
  <2>2. revscroll(screen, scroll_top_margin) \in Screens
    <3>1. scroll_top_margin \in 0 .. Rows - 1
      BY Sizes DEF RegionInv
    <3> QED
      BY <1>0, <3>1, RevscrollCells
  <2> QED
    BY <1>0, <2>1, <2>2, FeedOnScreen, CursorOnScreen
<1> QED
  BY <1>1, <1>2, <1>3

----
\* The commands.

Inside(v) == v \in scroll_top_margin .. scroll_bottom_margin - 1

LEMMA RowsMoveInside ==
    ASSUME screen \in Screens, RegionInv, ValuesInv, CursorUp \/ CursorDown
    PROVE  \E u \in Int, v \in 0 .. Rows - 1 :
              screen' = set_cursor_pos(screen, u, v) /\ (Inside(Y) => Inside(v))
<1>0. /\ X \in Nat /\ Y \in Nat /\ Y < Rows /\ Rows \in Nat /\ Count \in Nat
      /\ scroll_top_margin \in Nat /\ scroll_bottom_margin \in Nat
      /\ scroll_top_margin + 2 <= scroll_bottom_margin /\ scroll_bottom_margin <= Rows
  BY CursorIsNumber, CountIsNumber, Sizes DEF RegionInv
<1>1. CASE CursorUp
  <2> DEFINE row == Y - Least(Count, Y)
             v == IF MeetsMargin(row, Y) /\ row < scroll_top_margin THEN scroll_top_margin ELSE row
  <2>1. row \in 0 .. Y
    BY <1>0 DEF Least
  <2>2. \E u \in Int : screen' = set_cursor_pos(screen, u, v)
    BY <1>0, <1>1 DEF CursorUp
  <2> HIDE DEF row
  <2>3. v \in 0 .. Rows - 1
    BY <1>0, <2>1
  <2>4. Inside(Y) => Inside(v)
    BY <1>0, <2>1 DEF Inside, MeetsMargin
  <2> HIDE DEF v
  <2> QED
    BY <2>2, <2>3, <2>4
<1>2. CASE CursorDown
  <2> DEFINE row == Y + Least(Count, Rows - 1 - Y)
             v == IF MeetsMargin(Y, row) /\ row >= scroll_bottom_margin THEN scroll_bottom_margin - 1
                  ELSE row
  <2>1. row \in Y .. Rows - 1
    BY <1>0 DEF Least
  <2>2. \E u \in Int : screen' = set_cursor_pos(screen, u, v)
    BY <1>0, <1>2 DEF CursorDown
  <2> HIDE DEF row
  <2>3. v \in 0 .. Rows - 1
    BY <1>0, <2>1
  <2>4. Inside(Y) => Inside(v)
    BY <1>0, <2>1 DEF Inside, MeetsMargin
  <2> HIDE DEF v
  <2> QED
    BY <2>2, <2>3, <2>4
<1> QED
  BY <1>1, <1>2

LEMMA CursorCommandOnScreen ==
    ASSUME OnScreen(screen), RegionInv, ValuesInv, SavedInv,
           CursorUp \/ CursorDown \/ CursorAnywhere \/ SetMargins
    PROVE  OnScreen(screen')
<1>0. /\ screen \in Screens /\ X \in Nat /\ Y \in Nat /\ Cols \in Nat /\ Rows \in Nat /\ Count \in Nat
      /\ Value(2, 1) \in Nat /\ Word \in Nat /\ Word > 0
  BY CursorIsNumber, CountIsNumber, ValuesAreNumbers, Sizes DEF OnScreen
<1>a. \E u \in Int, v \in Int : screen' = set_cursor_pos(screen, u, v)
  <2>1. CASE CursorUp \/ CursorDown
    BY <1>0, <2>1, RowsMoveInside
  <2>2. CASE CursorAnywhere
    <3>1. Before(Count) \in Int /\ OneLess(Count) \in Int /\ OneLess(Value(2, 1)) \in Int
      BY <1>0 DEF Before, OneLess
    <3>2. /\ X + Least(Count, Cols - 1 - X) \in Int /\ X - Least(Count, X) \in Int
          /\ Least(Before(Count), Rows - 1) \in Int /\ Least(Before(Count), Cols - 1) \in Int
          /\ Least(OneLess(Value(2, 1)), Cols - 1) \in Int /\ Least(OneLess(Count), Rows - 1) \in Int
      BY <1>0, <3>1 DEF Least
    <3>3. saved_cursor.x \in Int /\ saved_cursor.y \in Int
      BY DEF SavedInv
    <3>4. \/ screen' = set_cursor_pos(screen, X + Least(Count, Cols - 1 - X), Y)
          \/ screen' = set_cursor_pos(screen, X - Least(Count, X), Y)
          \/ screen' = set_cursor_pos(screen, X, Least(Before(Count), Rows - 1))
          \/ screen' = set_cursor_pos(screen, Least(Before(Count), Cols - 1), Y)
          \/ screen' = set_cursor_pos(screen, saved_cursor.x, saved_cursor.y)
          \/ screen' = set_cursor_pos(screen, Least(OneLess(Value(2, 1)), Cols - 1),
                                      Least(OneLess(Count), Rows - 1))
      BY <2>2 DEF CursorAnywhere
    <3> QED
      BY <1>0, <3>2, <3>3, <3>4
  <2>3. CASE SetMargins
    BY <2>3 DEF SetMargins
  <2> QED
    BY <2>1, <2>2, <2>3
<1> QED
  BY <1>0, <1>a, CursorOnScreen

\* Lines that move: the cursor stays, and so does what is not on the moved rows.
LEMMA LinesMove ==
    ASSUME screen \in Screens, RegionInv, ValuesInv, DeleteLines \/ InsertLines
    PROVE  /\ screen' \in Screens /\ screen'.x = screen.x /\ screen'.y = screen.y
           /\ \A i \in Cells : ~Inside(RowOf(i)) /\ (InsertLines => RowOf(i) # Y /\ RowOf(i) \notin Y + 1 .. scroll_bottom_margin - 1)
                                 => screen'.cells[i] = screen.cells[i]
<1> DEFINE Away(i) == ~Inside(RowOf(i)) /\ (InsertLines => RowOf(i) # Y /\ RowOf(i) \notin Y + 1 .. scroll_bottom_margin - 1)
           B == {s \in Screens : /\ s.x = screen.x /\ s.y = screen.y
                                 /\ \A i \in Cells : Away(i) => s.cells[i] = screen.cells[i]}
           n == Count
<1>0. n \in Nat /\ n \in 0 .. n /\ Y \in 0 .. Rows - 1 /\ screen \in B
  BY CountIsNumber, CursorCell
<1>1. CASE DeleteLines
  <2>1. PICK h : ScrollRun(h, screen, n)
    BY <1>0, ScrollsRun
  <2>2. h[0] = screen /\ h[n] = screen' /\ \A k \in 1 .. n : h[k] = scroll(h[k - 1])
    BY <1>1, <2>1 DEF ScrollRun, DeleteLines
  <2>3. ASSUME NEW k \in 1 .. n, h[k - 1] \in B PROVE h[k] \in B
    <3> DEFINE a == h[k - 1]
    <3>1. a \in B /\ h[k] = scroll(a)
      BY <2>2, <2>3
    <3> HIDE DEF a
    <3>2. /\ scroll(a) \in Screens /\ scroll(a).x = a.x /\ scroll(a).y = a.y
          /\ \A i \in Cells : ~Inside(RowOf(i)) => scroll(a).cells[i] = a.cells[i]
      BY <3>1, ScrollCells DEF Inside
    <3> QED
      BY <3>1, <3>2
  <2>4. h[n] \in B
    <3> HIDE DEF n, B
    <3> QED
      BY <1>0, <2>2, <2>3, StaysIn
  <2> QED
    BY <2>2, <2>4
<1>2. CASE InsertLines
  <2>1. PICK h : RevscrollRun(h, screen, Y, n)
    BY <1>0, RevscrollsRun
  <2>2. h[0] = screen /\ h[n] = screen' /\ \A k \in 1 .. n : h[k] = revscroll(h[k - 1], Y)
    BY <1>2, <2>1 DEF RevscrollRun, InsertLines
  <2>3. ASSUME NEW k \in 1 .. n, h[k - 1] \in B PROVE h[k] \in B
    <3> DEFINE a == h[k - 1]
               t == revscroll(a, Y)
    <3>1. a \in B /\ h[k] = t
      BY <2>2, <2>3
    <3> HIDE DEF a
    <3>2. /\ t \in Screens /\ t.x = a.x /\ t.y = a.y
          /\ \A i \in Cells : RowOf(i) # Y /\ RowOf(i) \notin Y + 1 .. scroll_bottom_margin - 1
                                => t.cells[i] = a.cells[i]
      BY <1>0, <3>1, RevscrollCells
    <3> HIDE DEF t
    <3> QED
      BY <1>2, <3>1, <3>2
  <2>4. h[n] \in B
    <3> HIDE DEF n, B
    <3> QED
      BY <1>0, <2>2, <2>3, StaysIn
  <2> QED
    BY <2>2, <2>4
<1> QED
  BY <1>1, <1>2

LEMMA EraseOnScreen ==
    ASSUME OnScreen(screen), RegionInv, ValuesInv, EraseDisplay \/ EraseLine
    PROVE  OnScreen(screen')
<1>0. /\ screen \in Screens /\ X \in Nat /\ Y \in Nat /\ X < Cols /\ Y < Rows /\ Cols \in Nat
      /\ Rows \in Nat
  BY CursorIsNumber, Sizes DEF OnScreen
<1>1. ASSUME NEW s \in Screens, NEW m \in Nat PROVE OnScreen(set_cursor_pos(Blanks(s, m), X, Y))
  <2>1. PICK h : BlankRun(h, s, m)
    BY BlanksRun
  <2>2. Blanks(s, m) \in Screens
    <3>1. m \in 0 .. m
      OBVIOUS
    <3> QED
      BY <2>1, <3>1 DEF BlankRun
  <2> QED
    BY <1>0, <2>2, CursorOnScreen
<1>2. set_cursor_pos(screen, 0, 0) \in Screens /\ set_cursor_pos(screen, 0, Y) \in Screens
  BY <1>0, CursorIsSet
<1>3. /\ (Rows - (Y + 1)) * Cols + (Cols - (X + 1)) + 1 \in Nat /\ Y * Cols + X + 1 \in Nat
      /\ Cols - X \in Nat
  <2>1. Rows - (Y + 1) \in Nat /\ Cols - (X + 1) \in Nat
    BY <1>0
  <2>2. (Rows - (Y + 1)) * Cols \in Nat /\ Y * Cols \in Nat
    BY <1>0, <2>1
  <2> QED
    BY <1>0, <2>1, <2>2
<1>4. OnScreen([screen EXCEPT !.cells = [i \in Cells |-> Blank]])
  <2> DEFINE c == [i \in Cells |-> Blank]
  <2>1. c \in [Cells -> Marks]
    BY DEF Marks
  <2> HIDE DEF c
  <2>2. [screen EXCEPT !.cells = c] = [cells |-> c, x |-> screen.x, y |-> screen.y]
    BY <1>0 DEF Screens
  <2>3. OnScreen([cells |-> c, x |-> screen.x, y |-> screen.y])
    BY <1>0, <2>1 DEF OnScreen, Screens
  <2> QED
    BY <2>2, <2>3 DEF c
<1>5. OnScreen(Blanks(set_cursor_pos(screen, 0, Y), X))
  <2> DEFINE s == set_cursor_pos(screen, 0, Y)
  <2>1. s \in Screens /\ s.x = 0 /\ s.y = Y
    BY <1>0, CursorIsSet
  <2> HIDE DEF s
  <2>2. Blanks(s, X) \in Screens /\ Blanks(s, X).x <= Cols
    BY <1>0, <2>1, BlanksOnLine
  <2> QED
    BY <2>2 DEF OnScreen, s
<1>6. CASE EraseDisplay
  <2>1. \/ screen' = set_cursor_pos(Blanks(screen, (Rows - (Y + 1)) * Cols + (Cols - (X + 1)) + 1), X, Y)
        \/ screen' = set_cursor_pos(Blanks(set_cursor_pos(screen, 0, 0), Y * Cols + X + 1), X, Y)
        \/ screen' = [screen EXCEPT !.cells = [i \in Cells |-> Blank]]
        \/ screen' = screen
    BY <1>6 DEF EraseDisplay
  <2> QED
    BY <1>0, <1>1, <1>2, <1>3, <1>4, <2>1
<1>7. CASE EraseLine
  <2>1. \/ screen' = set_cursor_pos(Blanks(screen, Cols - X), X, Y)
        \/ screen' = Blanks(set_cursor_pos(screen, 0, Y), X)
        \/ screen' = set_cursor_pos(Blanks(set_cursor_pos(screen, 0, Y), Cols), X, Y)
        \/ screen' = screen
    BY <1>7 DEF EraseLine
  <2> QED
    BY <1>0, <1>1, <1>2, <1>3, <1>5, <2>1
<1> QED
  BY <1>6, <1>7

LEMMA CharsOnScreen ==
    ASSUME OnScreen(screen), RegionInv, ValuesInv, InsertChars \/ DeleteOrEraseChars
    PROVE  OnScreen(screen')
<1>0. /\ screen \in Screens /\ X \in Nat /\ Y \in Nat /\ X < Cols /\ Y < Rows /\ Cols \in Nat
      /\ Rows \in Nat /\ Count \in Nat
  BY CursorIsNumber, CountIsNumber, Sizes DEF OnScreen
<1>1. CASE InsertChars
  <2> DEFINE t == FoldLeft(LAMBDA a, i : Inserted(a, i, Count), screen, Downwards(Cols - 1, X))
  <2>1. screen' = set_cursor_pos(t, X, Y)
    BY <1>1 DEF InsertChars, Inserted
  <2>2. t \in Screens
    <3>1. PICK h : InsertRun(h, Count)
      BY <1>0, InsertsRun
    <3>2. Cols - X \in 0 .. (Cols - X)
      BY <1>0
    <3> QED
      BY <3>1, <3>2 DEF InsertRun
  <2> HIDE DEF t
  <2> QED
    BY <1>0, <2>1, <2>2, CursorOnScreen
<1>2. CASE DeleteOrEraseChars
  <2> DEFINE t == FoldLeft(LAMBDA a, i : move_character(a, i - Count, i, Y), screen, Upwards(X + Count, Cols - 1))
  <2>1. \/ screen' = set_cursor_pos(Blanks(set_cursor_pos(t, Cols - Count, Y), Count), X, Y)
        \/ screen' = set_cursor_pos(Blanks(screen, Count), X, Y)
    BY <1>2 DEF DeleteOrEraseChars
  <2>2. t \in Screens
    <3> DEFINE m == IF Count <= Cols - X THEN Cols - X - Count ELSE 0
    <3>1. m \in Nat /\ m \in 0 .. m
      BY <1>0
    <3>2. PICK h : DeleteRun(h, Count, m)
      BY <1>0, <3>1, DeletesRun
    <3> HIDE DEF m
    <3> QED
      BY <3>1, <3>2 DEF DeleteRun
  <2> HIDE DEF t
  <2>3. set_cursor_pos(t, Cols - Count, Y) \in Screens
    BY <1>0, <2>2, CursorIsSet
  <2>4. ASSUME NEW s \in Screens PROVE OnScreen(set_cursor_pos(Blanks(s, Count), X, Y))
    <3>1. PICK h : BlankRun(h, s, Count)
      BY <1>0, BlanksRun
    <3>2. Blanks(s, Count) \in Screens
      <4>1. Count \in 0 .. Count
        BY <1>0
      <4> QED
        BY <3>1, <4>1 DEF BlankRun
    <3> QED
      BY <1>0, <3>2, CursorOnScreen
  <2> QED
    BY <1>0, <2>1, <2>3, <2>4
<1> QED
  BY <1>1, <1>2

----
\* Types.

ScreenInv == OnScreen(screen)

ModeInv ==
    /\ cursor_enabled \in BOOLEAN /\ insert_mode \in BOOLEAN
    /\ charsets \in [{0, 1} -> {"default", "special"}]
    /\ current_charset \in {0, 1} /\ g_select \in 0 .. 2

FlagInv ==
    /\ escape \in BOOLEAN /\ csi \in BOOLEAN /\ control_sequence \in BOOLEAN
    /\ osc \in BOOLEAN /\ osc_escape \in BOOLEAN /\ dec_private \in BOOLEAN
    /\ discard_next \in BOOLEAN /\ rrr \in BOOLEAN

NumberInv ==
    /\ escape_offset \in 0 .. 3 /\ unicode_remaining \in 0 .. 3 /\ code_point \in Nat
    /\ items \in 0 .. MaxItems

TypeInv == ParserInv /\ RegionInv /\ ScreenInv /\ SavedInv /\ ModeInv /\ FlagInv /\ NumberInv

LEMMA ScreenKeeps ==
    ASSUME ScreenInv, RegionInv, SavedInv, ValuesInv, [Next]_vars
    PROVE  ScreenInv'
<1> USE DEF ScreenInv
<1>1. CASE UNCHANGED screen
  BY <1>1
<1>2. CASE UnicodeContinues \/ Control \/ PrintCharacter
  BY <1>2, GroundOnScreen
<1>3. CASE EscapeRestores \/ EscapeResets \/ EscapeScrolls
  BY <1>3, EscapeOnScreen
<1>4. CASE CursorUp \/ CursorDown \/ CursorAnywhere \/ SetMargins
  BY <1>4, CursorCommandOnScreen
<1>5. CASE DeleteLines \/ InsertLines
  BY <1>5, LinesMove DEF OnScreen
<1>6. CASE EraseDisplay \/ EraseLine
  BY <1>6, EraseOnScreen
<1>7. CASE InsertChars \/ DeleteOrEraseChars
  BY <1>7, CharsOnScreen
<1>8. CASE \/ Cancel \/ UnicodeLead \/ StartSequence \/ Designate
           \/ EscapeOpens \/ EscapeSaves \/ EscapeOthers \/ OscByte
           \/ Number \/ Separator \/ PrivateMark \/ FunctionKey \/ Private
           \/ SaveCursor \/ ModeToggle \/ NoEffect
  <2>1. UNCHANGED screen
    BY <1>8 DEF Cancel, UnicodeLead, StartSequence, Designate, EscapeOpens, EscapeSaves,
                EscapeOthers, OscByte, GoesOn, Number, Separator, PrivateMark, FunctionKey,
                Private, SaveCursor, ModeToggle, NoEffect
  <2> QED
    BY <1>1, <2>1
<1>9. CASE UNCHANGED vars
  BY <1>1, <1>9 DEF vars
<1> QED
  BY <1>2, <1>3, <1>4, <1>5, <1>6, <1>7, <1>8, <1>9 DEF Next

LEMMA OthersLeaveSaved ==
    ASSUME Next, ~EscapeSaves, ~EscapeResets, ~SaveCursor
    PROVE  UNCHANGED savedVars
BY DEF Next, Cancel, UnicodeLead, UnicodeContinues, StartSequence, Designate, Control,
       PrintCharacter, AtGround, savedVars,
       EscapeOpens, EscapeRestores, EscapeScrolls, EscapeOthers, OscByte, GoesOn,
       Number, Separator, PrivateMark, FunctionKey, Private, CursorUp, CursorDown,
       CursorAnywhere, DeleteLines, InsertLines, EraseDisplay, EraseLine,
       InsertChars, DeleteOrEraseChars, SetMargins, ModeToggle, NoEffect, ScreenCommand

LEMMA SavedKeeps ==
    ASSUME ScreenInv, SavedInv, ModeInv, [Next]_vars
    PROVE  SavedInv'
<1>0. /\ screen \in Screens /\ screen.x \in 0 .. Cols /\ screen.y \in Nat /\ X \in Nat /\ Y \in Nat
  BY CursorIsNumber, Sizes DEF ScreenInv, OnScreen, Screens
<1>1. CASE EscapeSaves
  <2>1. saved_state' = [x |-> screen.x, y |-> screen.y, charset |-> current_charset]
        /\ UNCHANGED saved_cursor
    BY <1>1 DEF EscapeSaves
  <2>2. [x |-> screen.x, y |-> screen.y, charset |-> current_charset]
          \in [x : 0 .. Cols, y : Nat, charset : {0, 1}]
    BY <1>0 DEF ModeInv
  <2> QED
    BY <2>1, <2>2 DEF SavedInv
<1>2. CASE EscapeResets
  BY <1>2 DEF EscapeResets, SavedInv
<1>3. CASE SaveCursor
  BY <1>0, <1>3 DEF SaveCursor, SavedInv
<1>4. CASE UNCHANGED savedVars
  BY <1>4 DEF savedVars, SavedInv
<1> QED
  BY <1>1, <1>2, <1>3, <1>4, OthersLeaveSaved DEF vars, savedVars

LEMMA ModeKeeps ==
    ASSUME ModeInv, SavedInv, [Next]_vars
    PROVE  ModeInv'
<1>1. CASE UNCHANGED <<modeVars, charsetVars>>
  BY <1>1 DEF modeVars, charsetVars, ModeInv
<1>2. CASE Cancel
  BY <1>2 DEF Cancel, modeVars, ModeInv
<1>3. CASE Designate
  <2>1. UNCHANGED <<cursor_enabled, insert_mode, current_charset>> /\ g_select' = 0
    BY <1>3 DEF Designate, AtGround
  <2>2. charsets' \in {charsets, [charsets EXCEPT ![g_select - 1] = "default"],
                       [charsets EXCEPT ![g_select - 1] = "special"]}
    BY <1>3 DEF Designate
  <2>3. charsets' \in [{0, 1} -> {"default", "special"}]
    BY <2>2 DEF ModeInv
  <2> QED
    BY <2>1, <2>3 DEF ModeInv
<1>4. CASE Control \/ PrintCharacter
  <2>1. UNCHANGED <<cursor_enabled, insert_mode, charsets, g_select>>
    BY <1>4 DEF Control, PrintCharacter, AtGround, charsetVars
  <2>2. current_charset' \in {0, 1, current_charset}
    BY <1>4 DEF Control, PrintCharacter, charsetVars
  <2> QED
    BY <2>1, <2>2 DEF ModeInv
<1>5. CASE EscapeRestores
  <2>1. UNCHANGED <<cursor_enabled, insert_mode, charsets, g_select>>
        /\ current_charset' = saved_state.charset
    BY <1>5 DEF EscapeRestores, modeVars
  <2>2. saved_state.charset \in {0, 1}
    BY DEF SavedInv
  <2> QED
    BY <2>1, <2>2 DEF ModeInv
<1>6. CASE EscapeResets
  <2>1. /\ cursor_enabled' = TRUE /\ insert_mode' = FALSE /\ current_charset' = 0 /\ g_select' = 0
        /\ charsets' = [k \in {0, 1} |-> IF k = 0 THEN "default" ELSE "special"]
    BY <1>6 DEF EscapeResets
  <2>2. [k \in {0, 1} |-> IF k = 0 THEN "default" ELSE "special"] \in [{0, 1} -> {"default", "special"}]
    OBVIOUS
  <2>3. charsets' \in [{0, 1} -> {"default", "special"}]
    BY <2>1, <2>2
  <2>4. cursor_enabled' \in BOOLEAN /\ insert_mode' \in BOOLEAN
    BY <2>1
  <2>5. current_charset' \in {0, 1} /\ g_select' \in 0 .. 2
    BY <2>1
  <2> QED
    BY <2>3, <2>4, <2>5 DEF ModeInv
<1>7. CASE EscapeOthers
  <2>1. UNCHANGED <<cursor_enabled, insert_mode, charsets, current_charset>>
        /\ g_select' \in {1, 2, g_select}
    BY <1>7 DEF EscapeOthers, modeVars
  <2> QED
    BY <2>1 DEF ModeInv
<1>8. CASE Private
  <2>1. UNCHANGED <<insert_mode, charsetVars>> /\ cursor_enabled' \in {TRUE, FALSE, cursor_enabled}
    BY <1>8 DEF Private, Finishes
  <2> QED
    BY <2>1 DEF ModeInv, charsetVars
<1>9. CASE ModeToggle
  <2>1. UNCHANGED <<cursor_enabled, charsetVars>> /\ insert_mode' \in {TRUE, FALSE, insert_mode}
    BY <1>9 DEF ModeToggle, Command, Finishes
  <2> QED
    BY <2>1 DEF ModeInv, charsetVars
<1>10. CASE \/ CursorUp \/ CursorDown \/ CursorAnywhere \/ SaveCursor
            \/ DeleteLines \/ InsertLines \/ EraseDisplay \/ EraseLine
            \/ InsertChars \/ DeleteOrEraseChars \/ SetMargins \/ NoEffect
  <2>1. Command /\ UNCHANGED insert_mode
    BY <1>10 DEF CursorUp, CursorDown, CursorAnywhere, SaveCursor, DeleteLines, InsertLines,
         EraseDisplay, EraseLine, InsertChars, DeleteOrEraseChars, SetMargins, NoEffect,
         ScreenCommand
  <2> QED
    BY <1>1, <2>1 DEF Command, Finishes, modeVars
<1>11. CASE \/ UnicodeLead \/ UnicodeContinues \/ StartSequence \/ EscapeOpens \/ EscapeSaves
            \/ EscapeScrolls \/ OscByte \/ Number \/ Separator \/ PrivateMark \/ FunctionKey
            \/ UNCHANGED vars
  BY <1>1, <1>11 DEF UnicodeLead, UnicodeContinues, StartSequence, EscapeOpens, EscapeSaves,
       EscapeScrolls, OscByte, GoesOn, Number, Separator, PrivateMark, FunctionKey, vars
<1> QED
  BY <1>2, <1>3, <1>4, <1>5, <1>6, <1>7, <1>8, <1>9, <1>10, <1>11 DEF Next

LEMMA FlagsKeep ==
    ASSUME FlagInv, [Next]_vars
    PROVE  FlagInv'
<1> DEFINE Flags == <<escape, csi, control_sequence, osc, osc_escape, dec_private, discard_next, rrr>>
<1>1. CASE UNCHANGED Flags
  BY <1>1 DEF FlagInv
<1>2. CASE UnicodeLead \/ UnicodeContinues \/ Designate \/ Control \/ PrintCharacter \/ UNCHANGED vars
  <2>1. UNCHANGED Flags
    BY <1>2 DEF UnicodeLead, UnicodeContinues, Designate, Control, PrintCharacter, AtGround,
                valueVars, flagVars, vars
  <2> QED
    BY <1>1, <2>1
<1>3. CASE Cancel
  BY <1>3 DEF Cancel, Forgotten, FlagInv
<1>4. CASE StartSequence
  <2>1. escape' = TRUE /\ UNCHANGED <<control_sequence, osc, osc_escape, discard_next, rrr, dec_private>>
    BY <1>4 DEF StartSequence, valueVars
  <2>2. PICK c \in {"ESC", "CSI"} : csi' = (c = "CSI" \/ csi)
    BY <1>4 DEF StartSequence
  <2>3. csi' \in BOOLEAN
    BY <2>2
  <2> QED
    BY <2>1, <2>3 DEF FlagInv
<1>5. CASE EscapeOpens
  <2>1. /\ escape' = TRUE /\ UNCHANGED <<dec_private, discard_next>>
        /\ csi' \in {FALSE, csi} /\ control_sequence' \in {TRUE, control_sequence}
        /\ osc' \in {TRUE, osc} /\ osc_escape' \in {FALSE, osc_escape} /\ rrr' \in {FALSE, rrr}
    BY <1>5 DEF EscapeOpens, GoesOn
  <2> QED
    BY <2>1 DEF FlagInv
<1>6. CASE OscByte
  <2>1. /\ escape' \in BOOLEAN /\ osc' \in BOOLEAN /\ osc_escape' \in BOOLEAN /\ rrr' \in {FALSE, rrr}
        /\ UNCHANGED <<csi, control_sequence, discard_next, dec_private>>
    BY <1>6 DEF OscByte, Ends, Forgotten, GoesOn
  <2> QED
    BY <2>1 DEF FlagInv
<1>7. CASE EscapeSaves \/ EscapeRestores \/ EscapeResets \/ EscapeScrolls \/ EscapeOthers
  <2>1. /\ escape' = FALSE /\ rrr' = FALSE /\ dec_private' \in {FALSE, dec_private} /\ UNCHANGED flagVars
    BY <1>7 DEF EscapeSaves, EscapeRestores, EscapeResets, EscapeScrolls, EscapeOthers, Ends, Forgotten
  <2> QED
    BY <2>1 DEF FlagInv, flagVars
<1>8. CASE Number \/ Separator \/ PrivateMark
  <2>1. /\ escape' = TRUE /\ rrr' \in {TRUE, FALSE, rrr} /\ dec_private' \in {TRUE, dec_private}
        /\ UNCHANGED flagVars
    BY <1>8 DEF Number, Separator, PrivateMark, GoesOn
  <2> QED
    BY <2>1 DEF FlagInv, flagVars
<1>9. CASE FunctionKey
  <2>1. /\ escape' = FALSE /\ rrr' = FALSE /\ discard_next' = TRUE /\ control_sequence' = FALSE
        /\ UNCHANGED <<dec_private, csi, osc, osc_escape>>
    BY <1>9 DEF FunctionKey, Ends, Forgotten
  <2> QED
    BY <2>1 DEF FlagInv
<1>10. CASE \/ Private \/ CursorUp \/ CursorDown \/ CursorAnywhere \/ SaveCursor
            \/ DeleteLines \/ InsertLines \/ EraseDisplay \/ EraseLine
            \/ InsertChars \/ DeleteOrEraseChars \/ SetMargins \/ ModeToggle \/ NoEffect
  <2>1. Finishes
    BY <1>10, CommandsFinish
  <2>2. dec_private' \in {FALSE, dec_private}
    BY <1>10 DEF Private, CursorUp, CursorDown, CursorAnywhere, SaveCursor, DeleteLines, InsertLines,
         EraseDisplay, EraseLine, InsertChars, DeleteOrEraseChars, SetMargins, ModeToggle, NoEffect,
         ScreenCommand, Command
  <2>3. escape' = FALSE /\ rrr' = FALSE /\ control_sequence' = FALSE
        /\ UNCHANGED <<csi, osc, osc_escape, discard_next>>
    BY <2>1 DEF Finishes, Ends, Forgotten
  <2> QED
    BY <2>2, <2>3 DEF FlagInv
<1> QED
  BY <1>2, <1>3, <1>4, <1>5, <1>6, <1>7, <1>8, <1>9, <1>10 DEF Next

LEMMA ShiftedIsNumber ==
    ASSUME NEW bits \in Nat, NEW k \in 0 .. 3
    PROVE  Shifted(bits, k) \in Nat
<1>1. Base \in Nat
  BY TerminalAssumption DEF TerminalAssumption
<1>2. Base * Base \in Nat
  BY <1>1
<1>3. Base * Base * Base \in Nat
  BY <1>1, <1>2
<1> DEFINE f == <<1, Base, Base * Base, Base * Base * Base>>[k + 1]
<1>4. f \in Nat
  BY <1>1, <1>2, <1>3
<1> HIDE DEF f
<1>5. bits * f \in Nat
  BY <1>4
<1> QED
  BY <1>5 DEF f, Shifted

LEMMA NumbersKeep ==
    ASSUME NumberInv, [Next]_vars
    PROVE  NumberInv'
<1> DEFINE Character == unicode_remaining' \in 0 .. 3 /\ code_point' \in Nat
<1>0. MaxItems \in Nat
  BY TerminalAssumption DEF TerminalAssumption
<1>a. UNCHANGED <<unicode_remaining, code_point>> \/ (unicode_remaining' = 0 /\ code_point' = 0) => Character
  BY DEF NumberInv
<1>b. items' = items \/ (items < MaxItems /\ items' = items + 1) => items' \in 0 .. MaxItems
  BY <1>0 DEF NumberInv
<1>c. NextOffset \in 0 .. 3
  BY DEF NextOffset, NumberInv
<1>1. CASE UNCHANGED vars
  BY <1>1 DEF vars, NumberInv
<1>2. CASE Cancel
  BY <1>2, <1>a, <1>b DEF Cancel, Forgotten, NumberInv
<1>3. CASE UnicodeLead
  <2>1. PICK k \in 1 .. 3 : \E bits \in 0 .. LeadValues[k] - 1 :
          unicode_remaining' = k /\ code_point' = Shifted(bits, k)
    BY <1>3 DEF UnicodeLead
  <2>2. PICK bits \in 0 .. LeadValues[k] - 1 : unicode_remaining' = k /\ code_point' = Shifted(bits, k)
    BY <2>1
  <2>3. LeadValues[k] \in Nat
    BY TerminalAssumption DEF TerminalAssumption
  <2>4. bits \in Nat /\ k \in 0 .. 3
    BY <2>3
  <2>5. Character
    BY <2>2, <2>4, ShiftedIsNumber
  <2> QED
    BY <1>3, <1>b, <2>5 DEF UnicodeLead, NumberInv
<1>4. CASE UnicodeContinues
  <2>1. unicode_remaining # 0 /\ unicode_remaining' = unicode_remaining - 1
        /\ UNCHANGED <<escape_offset, items>>
    BY <1>4 DEF UnicodeContinues
  <2>2. unicode_remaining' \in 0 .. 3
    BY <2>1 DEF NumberInv
  <2>3. PICK bits \in 0 .. Base - 1 :
          code_point' = 0 \/ code_point' = code_point + Shifted(bits, unicode_remaining')
    BY <1>4 DEF UnicodeContinues
  <2>4. Base \in Nat
    BY TerminalAssumption DEF TerminalAssumption
  <2>5. bits \in Nat
    BY <2>4
  <2>6. Shifted(bits, unicode_remaining') \in Nat
    BY <2>2, <2>5, ShiftedIsNumber
  <2>7. code_point' \in Nat
    BY <2>3, <2>6 DEF NumberInv
  <2> QED
    BY <2>1, <2>2, <2>7 DEF NumberInv
<1>5. CASE StartSequence \/ Designate \/ Control \/ PrintCharacter
  <2>1. Arrives /\ items < MaxItems /\ items' = items + 1 /\ escape_offset' \in {0, escape_offset}
    BY <1>5 DEF StartSequence, Designate, Control, PrintCharacter, AtGround
  <2> QED
    BY <1>a, <1>b, <2>1 DEF Arrives, NumberInv
<1>6. CASE \/ EscapeOpens \/ EscapeSaves \/ EscapeRestores \/ EscapeResets \/ EscapeScrolls
           \/ EscapeOthers \/ OscByte
  <2>1. InSequence /\ escape_offset' \in {0, NextOffset}
    BY <1>6 DEF EscapeOpens, EscapeSaves, EscapeRestores, EscapeResets, EscapeScrolls, EscapeOthers,
         OscByte, InEscape, Ends, Forgotten, GoesOn
  <2> QED
    BY <1>a, <1>b, <1>c, <2>1 DEF InSequence, Arrives, NumberInv
<1>7. CASE Number \/ Separator \/ PrivateMark \/ FunctionKey
  <2>1. InSequence /\ escape_offset' \in {0, NextOffset}
    BY <1>7 DEF Number, Separator, PrivateMark, FunctionKey, InControl, Ends, Forgotten, GoesOn
  <2> QED
    BY <1>a, <1>b, <1>c, <2>1 DEF InSequence, Arrives, NumberInv
<1>8. CASE \/ Private \/ CursorUp \/ CursorDown \/ CursorAnywhere \/ SaveCursor
           \/ DeleteLines \/ InsertLines \/ EraseDisplay \/ EraseLine
           \/ InsertChars \/ DeleteOrEraseChars \/ SetMargins \/ ModeToggle \/ NoEffect
  <2>1. InSequence /\ escape_offset' = 0
    BY <1>8, CommandsFinish DEF Finishes, InControl, Ends, Forgotten
  <2> QED
    BY <1>a, <1>b, <2>1 DEF InSequence, Arrives, NumberInv
<1> QED
  BY <1>1, <1>2, <1>3, <1>4, <1>5, <1>6, <1>7, <1>8 DEF Next

LEMMA InitTypes == Init => TypeInv
<1> SUFFICES ASSUME Init PROVE TypeInv
  OBVIOUS
<1>1. PICK s \in Starts :
         /\ screen = [cells |-> [i \in Cells |-> i], x |-> s.x, y |-> s.y]
         /\ scroll_top_margin = s.top /\ scroll_bottom_margin = s.bottom
  BY DEF Init
<1>2. /\ s.x \in 0 .. Cols /\ s.y \in 0 .. Rows - 1 /\ s.top \in 0 .. Rows - 2
      /\ s.bottom \in 2 .. Rows /\ s.top + 2 <= s.bottom
  BY TerminalAssumption DEF TerminalAssumption
<1>3. ParserInv
  BY InitParser
<1>4. RegionInv
  BY <1>1, <1>2, Sizes DEF RegionInv
<1>5. ScreenInv
  <2>1. [i \in Cells |-> i] \in [Cells -> Marks]
    BY DEF Marks
  <2>2. s.x \in Nat /\ s.x <= Cols /\ s.y \in Nat
    BY <1>2, Sizes
  <2> QED
    BY <1>1, <2>1, <2>2 DEF ScreenInv, OnScreen, Screens
<1>6. SavedInv
  BY Sizes DEF Init, SavedInv
<1>7. ModeInv
  <2>1. [k \in {0, 1} |-> IF k = 0 THEN "default" ELSE "special"] \in [{0, 1} -> {"default", "special"}]
    OBVIOUS
  <2>2. charsets = [k \in {0, 1} |-> IF k = 0 THEN "default" ELSE "special"]
    BY DEF Init
  <2>3. charsets \in [{0, 1} -> {"default", "special"}]
    BY <2>1, <2>2
  <2>4. cursor_enabled = TRUE /\ insert_mode = FALSE /\ current_charset = 0 /\ g_select = 0
    BY DEF Init
  <2>5. cursor_enabled \in BOOLEAN /\ insert_mode \in BOOLEAN
    BY <2>4
  <2>6. current_charset \in {0, 1} /\ g_select \in 0 .. 2
    BY <2>4
  <2> QED
    BY <2>3, <2>5, <2>6 DEF ModeInv
<1>8. FlagInv
  BY DEF Init, FlagInv
<1>9. NumberInv
  <2>1. MaxItems \in Nat
    BY TerminalAssumption DEF TerminalAssumption
  <2> QED
    BY <2>1 DEF Init, NumberInv
<1> QED
  BY <1>3, <1>4, <1>5, <1>6, <1>7, <1>8, <1>9 DEF TypeInv

LEMMA TypeKeeps == TypeInv /\ [Next]_vars => TypeInv'
<1> SUFFICES ASSUME TypeInv, [Next]_vars PROVE TypeInv'
  OBVIOUS
<1>1. ParserInv'
  BY ParserKeeps DEF TypeInv
<1>2. RegionInv'
  BY RegionKeeps DEF TypeInv
<1>3. ScreenInv' /\ SavedInv' /\ ModeInv' /\ FlagInv' /\ NumberInv'
  BY ScreenKeeps, SavedKeeps, ModeKeeps, FlagsKeep, NumbersKeep DEF TypeInv, ParserInv
<1> QED
  BY <1>1, <1>2, <1>3 DEF TypeInv

LEMMA TypeHolds == Spec => []TypeInv
BY InitTypes, TypeKeeps, PTL DEF Spec

(* On any screen, from any cursor and with any numbers, each variable keeps its type: the        *)
(* cursor stays on a column or behind the last one, the cells hold what was written, and the     *)
(* saved cursors are places that ESC 8 and CSI u can go back to (flanterm.c: set_cursor_pos,     *)
(* raw_putchar and each case of control_sequence_parse).                                         *)
THEOREM TypeCorrect == Spec => []TypeOK
<1>1. TypeInv => TypeOK
  <2> SUFFICES ASSUME TypeInv PROVE TypeOK
    OBVIOUS
  <2>1. /\ screen.cells \in [Cells -> Cells \cup {Blank, Letter, Drawing}]
        /\ screen.x \in 0 .. Cols /\ screen.y \in Nat
    BY Sizes DEF TypeInv, ScreenInv, OnScreen, Screens, Marks
  <2>2. saved_cursor \in [x : Nat, y : Nat] /\ saved_state \in [x : Nat, y : Nat, charset : {0, 1}]
    BY Sizes DEF TypeInv, SavedInv
  <2>3. esc_values \in Seq(0 .. Word - 1) /\ Len(esc_values) <= MaxValues
    BY DEF TypeInv, ParserInv, ValuesInv
  <2>4. scroll_top_margin \in 0 .. Rows - 2 /\ scroll_bottom_margin \in scroll_top_margin + 2 .. Rows
    BY DEF TypeInv, RegionInv
  <2>5. ModeInv /\ FlagInv /\ NumberInv
    BY DEF TypeInv
  <2> QED
    BY <2>1, <2>2, <2>3, <2>4, <2>5 DEF ModeInv, FlagInv, NumberInv, TypeOK
<1> QED
  BY <1>1, TypeHolds, PTL

----
\* The margins.

\* A step that holds the margins.
Held(t) ==
    /\ Inside(t.y)
    /\ \A i \in Cells : Inside(RowOf(i)) \/ t.cells[i] = screen.cells[i]

LEMMA CursorHolds ==
    ASSUME NEW s \in Screens, NEW u \in Int, NEW v \in 0 .. Rows - 1, Inside(v),
           \A i \in Cells : Inside(RowOf(i)) \/ s.cells[i] = screen.cells[i]
    PROVE  Held(set_cursor_pos(s, u, v))
<1> DEFINE t == set_cursor_pos(s, u, v)
<1>1. t.cells = s.cells /\ t.y = v
  BY CursorIsSet
<1> HIDE DEF t
<1>2. Held(t)
  BY <1>1 DEF Held
<1> QED
  BY <1>2 DEF t

LEMMA FeedHolds ==
    ASSUME screen \in Screens, RegionInv, Inside(Y), NEW u \in Int
    PROVE  Held(LineFeed(screen, u))
<1>1. /\ Y \in 0 .. Rows - 1 /\ Y \in Nat /\ Rows \in Nat /\ scroll_bottom_margin \in Nat
      /\ scroll_bottom_margin <= Rows /\ scroll_top_margin \in Nat
      /\ Y >= scroll_top_margin /\ Y < scroll_bottom_margin
  BY CursorIsNumber, Sizes DEF RegionInv, Inside
<1>2. CASE Y = scroll_bottom_margin - 1
  <2> DEFINE s == scroll(screen)
  <2>1. s \in Screens /\ \A i \in Cells : Inside(RowOf(i)) \/ s.cells[i] = screen.cells[i]
    BY ScrollCells DEF Inside
  <2>2. LineFeed(screen, u) = set_cursor_pos(s, u, Y)
    BY <1>2 DEF LineFeed
  <2> HIDE DEF s
  <2> QED
    BY <1>1, <2>1, <2>2, CursorHolds
<1>3. CASE Y # scroll_bottom_margin - 1
  <2> DEFINE v == Y + 1
  <2>1. LineFeed(screen, u) = set_cursor_pos(screen, u, v)
    BY <1>3 DEF LineFeed
  <2>2. v \in 0 .. Rows - 1 /\ Inside(v)
    BY <1>1, <1>3 DEF Inside
  <2> HIDE DEF v
  <2> QED
    BY <2>1, <2>2, CursorHolds
<1> QED
  BY <1>2, <1>3

LEMMA MovesHoldMargins ==
    ASSUME TypeInv, Inside(screen.y),
           CursorUp \/ CursorDown \/ Control \/ EscapeScrolls \/ DeleteLines \/ InsertLines
    PROVE  Held(screen')
<1>0. /\ screen \in Screens /\ RegionInv /\ ValuesInv
  BY DEF TypeInv, ScreenInv, OnScreen, ParserInv
<1>1. /\ Y \in 0 .. Rows - 1 /\ X \in Nat /\ Y \in Nat /\ Rows \in Nat /\ scroll_bottom_margin \in Nat
      /\ scroll_bottom_margin <= Rows /\ scroll_top_margin \in Nat
      /\ Y = screen.y /\ Y >= scroll_top_margin /\ Y < scroll_bottom_margin
  <2>1. /\ Rows \in Nat /\ scroll_bottom_margin \in Nat /\ scroll_bottom_margin <= Rows
        /\ scroll_top_margin \in Nat
    BY <1>0, Sizes DEF RegionInv
  <2>2. screen.y \in scroll_top_margin .. scroll_bottom_margin - 1
    BY DEF Inside
  <2>3. Y = screen.y
    BY <1>0, <2>1, <2>2, CursorCell
  <2> QED
    BY <1>0, <2>1, <2>2, <2>3, CursorIsNumber
<1>a. Inside(Y) /\ \A i \in Cells : Inside(RowOf(i)) \/ screen.cells[i] = screen.cells[i]
  BY <1>1
<1>b. Held(screen)
  BY <1>1, <1>a DEF Held
<1>2. CASE CursorUp \/ CursorDown
  <2>1. PICK u \in Int, v \in 0 .. Rows - 1 : screen' = set_cursor_pos(screen, u, v) /\ Inside(v)
    BY <1>0, <1>2, <1>a, RowsMoveInside
  <2> QED
    BY <1>0, <2>1, CursorHolds
<1>3. CASE Control
  <2>1. PICK c \in {"NUL", "TAB", "LF", "BS", "CR", "SO", "SI"} :
           screen' = CASE c = "TAB" -> Tabbed
                       [] c = "LF" -> LineFeed(screen, 0)
                       [] c = "BS" -> set_cursor_pos(screen, X - 1, Y)
                       [] c = "CR" -> set_cursor_pos(screen, 0, Y)
                       [] OTHER -> screen
    BY <1>3 DEF Control
  <2>2. \E u \in Int : Tabbed = set_cursor_pos(screen, u, Y)
    <3> DEFINE stop == X \div TabSize + 1
               u == IF stop >= Cols THEN Cols - 1 ELSE stop * TabSize
    <3>1. stop \in Nat /\ Cols \in Nat /\ TabSize \in Nat
      BY <1>1, Sizes
    <3>2. u \in Int
      <4> HIDE DEF stop
      <4> QED
        BY <3>1
    <3>3. Tabbed = set_cursor_pos(screen, u, Y)
      BY DEF Tabbed
    <3> QED
      BY <3>2, <3>3
  <2>3. \/ screen' = LineFeed(screen, 0) \/ screen' = screen
        \/ \E u \in Int : screen' = set_cursor_pos(screen, u, Y)
    <3>1. X - 1 \in Int /\ 0 \in Int
      BY <1>1
    <3> QED
      BY <2>1, <2>2, <3>1
  <2>4. ASSUME NEW u \in Int, screen' = set_cursor_pos(screen, u, Y) PROVE Held(screen')
    BY <1>0, <1>1, <1>a, <2>4, CursorHolds
  <2>5. Held(LineFeed(screen, 0))
    BY <1>0, <1>a, FeedHolds
  <2> QED
    BY <1>b, <2>3, <2>4, <2>5
<1>4. CASE EscapeScrolls
  <2>1. \/ screen' = LineFeed(screen, X) \/ screen' = LineFeed(screen, 0)
        \/ Y = scroll_top_margin /\ screen' = set_cursor_pos(revscroll(screen, scroll_top_margin), 0, Y)
        \/ Y # scroll_top_margin /\ screen' = set_cursor_pos(screen, 0, Y - 1)
    BY <1>4 DEF EscapeScrolls
  <2>2. Held(LineFeed(screen, X)) /\ Held(LineFeed(screen, 0))
    BY <1>0, <1>1, <1>a, FeedHolds
  <2>3. Held(set_cursor_pos(revscroll(screen, scroll_top_margin), 0, Y))
    <3> DEFINE s == revscroll(screen, scroll_top_margin)
    <3>1. scroll_top_margin \in 0 .. Rows - 1
      BY <1>1
    <3>2. /\ s \in Screens
          /\ \A i \in Cells : RowOf(i) # scroll_top_margin
                              /\ RowOf(i) \notin scroll_top_margin + 1 .. scroll_bottom_margin - 1
                                => s.cells[i] = screen.cells[i]
      BY <1>0, <3>1, RevscrollCells
    <3> HIDE DEF s
    <3>3. ASSUME NEW i \in Cells PROVE Inside(RowOf(i)) \/ s.cells[i] = screen.cells[i]
      <4>1. RowOf(i) \in Nat
        BY CellHasPlace, Sizes
      <4> QED
        BY <1>1, <3>2, <4>1 DEF Inside
    <3>4. Held(set_cursor_pos(s, 0, Y))
      BY <1>1, <1>a, <3>2, <3>3, CursorHolds
    <3> QED
      BY <3>4 DEF s
  <2>4. ASSUME Y # scroll_top_margin PROVE Held(set_cursor_pos(screen, 0, Y - 1))
    <3> DEFINE v == Y - 1
    <3>1. v \in 0 .. Rows - 1 /\ Inside(v)
      BY <1>1, <2>4 DEF Inside
    <3> HIDE DEF v
    <3>2. Held(set_cursor_pos(screen, 0, v))
      BY <1>0, <3>1, CursorHolds
    <3> QED
      BY <3>2 DEF v
  <2> QED
    BY <2>1, <2>2, <2>3, <2>4
<1>5. CASE DeleteLines \/ InsertLines
  <2>1. /\ screen'.y = screen.y
        /\ \A i \in Cells : ~Inside(RowOf(i))
               /\ (InsertLines => RowOf(i) # Y /\ RowOf(i) \notin Y + 1 .. scroll_bottom_margin - 1)
                   => screen'.cells[i] = screen.cells[i]
    BY <1>0, <1>5, LinesMove
  <2>2. ASSUME NEW i \in Cells PROVE Inside(RowOf(i)) \/ screen'.cells[i] = screen.cells[i]
    <3>1. RowOf(i) \in Nat
      BY CellHasPlace, Sizes
    <3>2. ~Inside(RowOf(i)) => RowOf(i) # Y /\ RowOf(i) \notin Y + 1 .. scroll_bottom_margin - 1
      BY <1>1, <3>1 DEF Inside
    <3> QED
      BY <2>1, <3>2
  <2>3. Inside(screen'.y)
    BY <1>1, <1>a, <2>1
  <2> QED
    BY <2>2, <2>3 DEF Held
<1> QED
  BY <1>2, <1>3, <1>4, <1>5

(* Whatever the margins and the numbers, no line outside of the scroll region changes when lines *)
(* move, and a cursor inside of it does not leave it upwards or downwards.                       *)
THEOREM MarginsAreHeld == Spec => MarginsHold
<1>1. TypeInv /\ [Next]_vars
        => [ LET inside(y) == y \in scroll_top_margin .. scroll_bottom_margin - 1
             IN  inside(screen.y) /\ (CursorUp \/ CursorDown \/ Control \/ EscapeScrolls
                                      \/ DeleteLines \/ InsertLines)
                 => /\ inside(screen'.y)
                    /\ \A i \in Cells : inside(RowOf(i)) \/ screen'.cells[i] = screen.cells[i] ]_vars
  BY MovesHoldMargins DEF Inside, Held
<1> QED
  BY <1>1, TypeHolds, PTL DEF Spec, MarginsHold

----
\* The cells of the cursor's line, and the cells up to a row.

Row0 == Y * Cols

LEMMA LineStart ==
    ASSUME screen \in Screens
    PROVE  Row0 \in Nat /\ Row0 + Cols <= Rows * Cols
<1>1. Y \in Nat /\ Y + 1 <= Rows /\ Cols \in Nat /\ Rows \in Nat
  BY CursorIsNumber, Sizes
<1>2. (Y + 1) * Cols <= Rows * Cols
  BY <1>1, ProductIsMonotone
<1>3. (Y + 1) * Cols = Y * Cols + Cols /\ Y * Cols \in Nat
  BY <1>1
<1> QED
  BY <1>2, <1>3 DEF Row0

LEMMA LineCell ==
    ASSUME screen \in Screens, NEW u \in Int
    PROVE  CellAt(u, Y) = Row0 + u /\ (u \in 0 .. Cols - 1 => Row0 + u \in Cells)
<1>1. Y \in 0 .. Rows - 1
  BY CursorCell
<1>2. CellAt(u, Y) = Row0 + u
  BY DEF CellAt, Row0
<1> QED
  BY <1>1, <1>2, CellNumber

LEMMA LineCells ==
    ASSUME screen \in Screens, NEW u \in Int, NEW v \in Int
    PROVE  Line(u, v) = Row0 + u .. Row0 + v
<1>0. Row0 \in Nat
  BY LineStart
<1>1. ASSUME NEW i \in Row0 + u .. Row0 + v PROVE i \in Line(u, v)
  <2>1. i - Row0 \in u .. v /\ i = Row0 + (i - Row0) /\ i - Row0 \in Int
    BY <1>0
  <2> DEFINE w == i - Row0
  <2>2. w \in u .. v /\ w \in Int /\ i = Row0 + w
    BY <2>1
  <2> HIDE DEF w
  <2>3. i = CellAt(w, Y)
    BY <2>2, LineCell
  <2> QED
    BY <2>2, <2>3 DEF Line
<1>2. ASSUME NEW i \in Line(u, v) PROVE i \in Row0 + u .. Row0 + v
  <2>1. PICK x \in u .. v : i = CellAt(x, Y)
    BY DEF Line
  <2>2. x \in Int /\ i = Row0 + x
    BY <2>1, LineCell
  <2> QED
    BY <1>0, <2>1, <2>2
<1> QED
  BY <1>1, <1>2

LEMMA RowsUpTo ==
    ASSUME NEW i \in Cells, NEW r \in Nat
    PROVE  i < (r + 1) * Cols <=> RowOf(i) <= r
<1> DEFINE q == RowOf(i)
           u == i - q * Cols
<1>1. q \in Nat /\ u \in 0 .. Cols - 1 /\ i \in Nat /\ Cols \in Nat
  BY CellHasPlace, Sizes
<1>2. q * Cols \in Nat /\ (r + 1) * Cols \in Nat /\ (q + 1) * Cols = q * Cols + Cols
      /\ (r + 1) * Cols = r * Cols + Cols /\ r * Cols \in Nat
  BY <1>1
<1>3. q <= r => (q + 1) * Cols <= (r + 1) * Cols
  <2> SUFFICES ASSUME q <= r PROVE (q + 1) * Cols <= (r + 1) * Cols
    OBVIOUS
  <2>1. q + 1 \in Nat /\ r + 1 \in Nat /\ q + 1 <= r + 1
    BY <1>1
  <2> HIDE DEF q
  <2> QED
    BY <1>1, <2>1, ProductIsMonotone
<1>4. q > r => (r + 1) * Cols <= q * Cols
  <2> SUFFICES ASSUME q > r PROVE (r + 1) * Cols <= q * Cols
    OBVIOUS
  <2>1. r + 1 \in Nat /\ r + 1 <= q
    BY <1>1
  <2> HIDE DEF q
  <2> QED
    BY <1>1, <2>1, ProductIsMonotone
<1> DEFINE c == q * Cols
           d == (r + 1) * Cols
<1>5. c \in Nat /\ d \in Nat /\ i - c \in 0 .. Cols - 1 /\ (q <= r => c + Cols <= d) /\ (q > r => d <= c)
  BY <1>1, <1>2, <1>3, <1>4
<1> HIDE DEF q, c, d
<1>6. i < d <=> q <= r
  BY <1>1, <1>5
<1> QED
  BY <1>6 DEF q, d

----
\* What commands do to the cells.

\* A screen with other cells.
LEMMA Becomes ==
    ASSUME screen \in Screens, NEW t \in Screens, t.x = screen.x, t.y = screen.y,
           NEW c, c = [i \in Cells |-> c[i]], \A i \in Cells : t.cells[i] = c[i]
    PROVE  t = [screen EXCEPT !.cells = c]
<1>1. t.cells \in [Cells -> Marks]
  BY DEF Screens
<1>2. t.cells = c
  BY <1>1
<1>3. t = [cells |-> t.cells, x |-> t.x, y |-> t.y]
  BY DEF Screens
<1>4. [screen EXCEPT !.cells = c] = [cells |-> c, x |-> screen.x, y |-> screen.y]
  BY DEF Screens
<1> QED
  BY <1>2, <1>3, <1>4

BlankedOn(S) == [i \in Cells |-> IF i \in S THEN Blank ELSE screen.cells[i]]

LEMMA BecomesBlanked ==
    ASSUME screen \in Screens, NEW t \in Screens, t.x = screen.x, t.y = screen.y, NEW S,
           \A i \in Cells : t.cells[i] = IF i \in S THEN Blank ELSE screen.cells[i]
    PROVE  t = [screen EXCEPT !.cells = BlankedOn(S)]
<1> DEFINE c == BlankedOn(S)
<1>1. \A i \in Cells : c[i] = IF i \in S THEN Blank ELSE screen.cells[i]
  BY DEF BlankedOn
<1>2. c = [i \in Cells |-> c[i]]
  BY DEF BlankedOn
<1> HIDE DEF c
<1>3. t = [screen EXCEPT !.cells = c]
  BY <1>1, <1>2, Becomes
<1> QED
  BY <1>3 DEF c

\* Blanks, and the cursor back in its place.
LEMMA BackInPlace ==
    ASSUME screen \in Screens, OnCell, NEW s \in Screens
    PROVE  LET t == set_cursor_pos(s, X, Y)
           IN  t \in Screens /\ t.x = screen.x /\ t.y = screen.y /\ t.cells = s.cells
<1>1. X \in 0 .. Cols - 1 /\ Y \in 0 .. Rows - 1 /\ X = screen.x /\ Y = screen.y /\ X \in Int /\ Y \in Int
  BY CursorCell, CursorIsNumber DEF OnCell
<1> QED
  BY <1>1, CursorIsSet

LEMMA DisplayIsErased ==
    ASSUME screen \in Screens, OnCell, RegionInv, ValuesInv, EraseDisplay
    PROVE  screen' = [screen EXCEPT !.cells = BlankedOn(DisplayPart)]
<1>1. /\ X \in 0 .. Cols - 1 /\ Y \in 0 .. Rows - 1 /\ X = screen.x /\ Y = screen.y /\ X \in Nat /\ Y \in Nat
      /\ Cols \in Nat /\ Rows \in Nat /\ X < Cols /\ Y < Rows
  BY CursorCell, CursorIsNumber, Sizes DEF OnCell
<1>2. /\ Row0 \in Nat /\ Row0 + Cols <= Rows * Cols /\ Here = Row0 + X /\ Position(screen) = Here
      /\ Rows * Cols \in Nat
  <2>1. Row0 \in Nat /\ Row0 + Cols <= Rows * Cols
    BY LineStart
  <2>2. Here = Row0 + X
    BY <1>1, LineCell DEF Here
  <2>3. Position(screen) = Here
    BY <1>1 DEF Here, Position, CellAt
  <2>4. Rows * Cols \in Nat
    BY <1>1
  <2> QED
    BY <2>1, <2>2, <2>3, <2>4
<1>3. Value(1, 0) \in Nat
  BY ValuesAreNumbers
<1>4. \A i \in Cells : i \in Nat /\ i < Rows * Cols /\ RowOf(i) \in Nat
  BY CellHasPlace, Sizes DEF Cells
<1>5. scroll_bottom_margin \in Nat /\ scroll_bottom_margin >= 2
  BY Sizes DEF RegionInv
<1>6. CASE Value(1, 0) = 0
  <2> DEFINE m == (Rows - (Y + 1)) * Cols + (Cols - (X + 1)) + 1
             s == Blanks(screen, m)
  <2>1. screen' = set_cursor_pos(s, X, Y)
    BY <1>6 DEF EraseDisplay
  <2>2. m \in Nat /\ Here + m = Rows * Cols
    <3>1. Rows - (Y + 1) \in Nat
      BY <1>1
    <3>2. (Rows - (Y + 1)) * Cols \in Nat
      BY <1>1, <3>1
    <3>3. (Rows - (Y + 1)) * Cols = Rows * Cols - Y * Cols - Cols
      BY <1>1
    <3> DEFINE w == (Rows - (Y + 1)) * Cols
               z == Rows * Cols
    <3>4. w \in Nat /\ z \in Nat /\ w = z - Row0 - Cols
      BY <1>2, <3>2, <3>3 DEF Row0
    <3> HIDE DEF w, z
    <3>5. w + (Cols - (X + 1)) + 1 \in Nat /\ Row0 + X + (w + (Cols - (X + 1)) + 1) = z
      BY <1>1, <1>2, <3>4
    <3> QED
      BY <1>2, <3>5 DEF w, z
  <2> HIDE DEF m
  <2>3. Blanked(s, screen, m)
    BY <1>1, <2>2, BlanksCells DEF OnCell
  <2> HIDE DEF s
  <2>4. s \in Screens
    BY <2>3 DEF Blanked
  <2>5. ASSUME NEW i \in Cells
        PROVE  s.cells[i] = IF i \in DisplayPart THEN Blank ELSE screen.cells[i]
    <3>1. s.cells[i] = IF i \in Here .. Here + m - 1 /\ i < (LastLine(Y) + 1) * Cols
                       THEN Blank ELSE screen.cells[i]
      BY <1>1, <1>2, <2>3 DEF Blanked
    <3>2. LastLine(Y) \in Nat
      BY <1>1, LastLineOnScreen
    <3>3. i < (LastLine(Y) + 1) * Cols <=> RowOf(i) <= LastLine(Y)
      BY <3>2, RowsUpTo
    <3>4. i \in Here .. Here + m - 1 <=> i >= Here
      BY <1>1, <1>2, <1>4, <2>2
    <3>5. i >= Here => RowOf(i) >= Y
      <4>1. Y > 0 => (i < (Y - 1 + 1) * Cols <=> RowOf(i) <= Y - 1)
        <5>1. Y > 0 => Y - 1 \in Nat
          BY <1>1
        <5> QED
          BY <5>1, RowsUpTo
      <4>2. Y > 0 => (i < Row0 <=> RowOf(i) <= Y - 1)
        <5>1. Y - 1 + 1 = Y
          BY <1>1
        <5> QED
          BY <4>1, <5>1 DEF Row0
      <4> QED
        BY <1>1, <1>2, <1>4, <4>2
    <3>6. i >= Here => (RowOf(i) <= LastLine(Y) <=> RowOf(i) < scroll_bottom_margin \/ RowOf(i) = Y)
      BY <1>1, <1>4, <1>5, <3>5 DEF LastLine
    <3>7. i \in DisplayPart <=> i >= Here /\ (RowOf(i) < scroll_bottom_margin \/ RowOf(i) = Y)
      BY <1>6 DEF DisplayPart
    <3> QED
      BY <3>1, <3>3, <3>4, <3>6, <3>7
  <2>6. screen' \in Screens /\ screen'.x = screen.x /\ screen'.y = screen.y /\ screen'.cells = s.cells
    BY <2>1, <2>4, BackInPlace
  <2> DEFINE new == screen'
  <2> HIDE DEF new
  <2>7. new = [screen EXCEPT !.cells = BlankedOn(DisplayPart)]
    BY <2>5, <2>6, BecomesBlanked DEF new
  <2> QED
    BY <2>7 DEF new
<1>7. CASE Value(1, 0) = 1
  <2> DEFINE a == set_cursor_pos(screen, 0, 0)
             m == Y * Cols + X + 1
             s == Blanks(a, m)
  <2>1. screen' = set_cursor_pos(s, X, Y)
    BY <1>7 DEF EraseDisplay
  <2>2. m \in Nat /\ m = Here + 1
    BY <1>1, <1>2 DEF Row0
  <2>3. a \in Screens /\ a.x = 0 /\ a.y = 0 /\ a.cells = screen.cells
    <3>1. 0 \in 0 .. Cols - 1 /\ 0 \in 0 .. Rows - 1
      BY <1>1
    <3> QED
      BY <3>1, CursorIsSet
  <2> HIDE DEF m, a
  <2>4. Blanked(s, a, m)
    BY <1>1, <2>2, <2>3, BlanksCells
  <2> HIDE DEF s
  <2>5. Position(a) = 0 /\ s \in Screens
    BY <1>1, <2>3, <2>4 DEF Position, Blanked
  <2>6. ASSUME NEW i \in Cells
        PROVE  s.cells[i] = IF i \in DisplayPart THEN Blank ELSE screen.cells[i]
    <3>1. s.cells[i] = IF i \in 0 .. 0 + m - 1 /\ i < (LastLine(0) + 1) * Cols
                       THEN Blank ELSE screen.cells[i]
      BY <2>3, <2>4, <2>5 DEF Blanked
    <3>2. LastLine(0) = scroll_bottom_margin - 1 /\ LastLine(0) \in Nat
      BY <1>5 DEF LastLine
    <3>3. i < (LastLine(0) + 1) * Cols <=> RowOf(i) < scroll_bottom_margin
      <4>1. i < (LastLine(0) + 1) * Cols <=> RowOf(i) <= LastLine(0)
        BY <3>2, RowsUpTo
      <4> QED
        BY <1>4, <1>5, <3>2, <4>1
    <3>4. i \in 0 .. 0 + m - 1 <=> i <= Here
      BY <1>1, <1>2, <1>4, <2>2
    <3>5. i \in DisplayPart <=> i <= Here /\ RowOf(i) < scroll_bottom_margin
      BY <1>7 DEF DisplayPart
    <3> QED
      BY <3>1, <3>3, <3>4, <3>5
  <2>7. screen' \in Screens /\ screen'.x = screen.x /\ screen'.y = screen.y /\ screen'.cells = s.cells
    BY <2>1, <2>5, BackInPlace
  <2> DEFINE new == screen'
  <2> HIDE DEF new
  <2>8. new = [screen EXCEPT !.cells = BlankedOn(DisplayPart)]
    BY <2>6, <2>7, BecomesBlanked DEF new
  <2> QED
    BY <2>8 DEF new
<1>8. CASE Value(1, 0) \in {2, 3}
  <2>1. screen' = [screen EXCEPT !.cells = [i \in Cells |-> Blank]]
    BY <1>8 DEF EraseDisplay
  <2>2. DisplayPart = Cells
    BY <1>8 DEF DisplayPart
  <2>3. BlankedOn(DisplayPart) = [i \in Cells |-> Blank]
    BY <2>2 DEF BlankedOn
  <2> QED
    BY <2>1, <2>3
<1>9. CASE Value(1, 0) > 3
  <2>1. screen' = screen
    BY <1>9 DEF EraseDisplay
  <2>2. DisplayPart = {}
    BY <1>3, <1>9 DEF DisplayPart
  <2>3. screen = [screen EXCEPT !.cells = BlankedOn(DisplayPart)]
    BY <2>2, BecomesBlanked
  <2> QED
    BY <2>1, <2>3
<1>10. Value(1, 0) = 0 \/ Value(1, 0) = 1 \/ Value(1, 0) \in {2, 3} \/ Value(1, 0) > 3
  BY <1>3
<1> QED
  BY <1>6, <1>7, <1>8, <1>9, <1>10

LEMMA LineIsErased ==
    ASSUME screen \in Screens, OnCell, RegionInv, ValuesInv, EraseLine
    PROVE  screen' = [screen EXCEPT !.cells = BlankedOn(LinePart)]
<1>1. /\ X \in 0 .. Cols - 1 /\ Y \in 0 .. Rows - 1 /\ X = screen.x /\ Y = screen.y /\ X \in Nat /\ Y \in Nat
      /\ Cols \in Nat /\ Rows \in Nat /\ X < Cols /\ Y < Rows
  BY CursorCell, CursorIsNumber, Sizes DEF OnCell
<1>2. Row0 \in Nat /\ CellAt(X, Y) = Row0 + X /\ CellAt(0, Y) = Row0 + 0
  <2>1. X \in Int /\ 0 \in Int
    BY <1>1
  <2> QED
    BY <2>1, LineStart, LineCell
<1>3. Value(1, 0) \in Nat
  BY ValuesAreNumbers
<1> DEFINE new == screen'
           a == set_cursor_pos(screen, 0, Y)
<1>4. a \in Screens /\ a.x = 0 /\ a.y = Y /\ a.cells = screen.cells
  <2>1. 0 \in 0 .. Cols - 1 /\ 0 \in Int /\ Y \in Int
    BY <1>1
  <2> QED
    BY <1>1, <2>1, CursorIsSet
<1>5. CASE Value(1, 0) = 0
  <2> DEFINE m == Cols - X
             s == Blanks(screen, m)
  <2>1. new = set_cursor_pos(s, X, Y)
    BY <1>5 DEF EraseLine
  <2>2. m \in Nat /\ screen.x + m <= Cols /\ X + m - 1 = Cols - 1 /\ m \in Int
    BY <1>1
  <2> HIDE DEF m
  <2>3. s \in Screens /\ \A i \in Cells : s.cells[i] =
           IF i \in CellAt(X, Y) .. CellAt(X, Y) + m - 1 THEN Blank ELSE screen.cells[i]
    BY <1>1, <2>2, BlanksOnLine DEF OnCell
  <2>4. LinePart = CellAt(X, Y) .. CellAt(X, Y) + m - 1
    <3>1. LinePart = Line(X, Cols - 1)
      BY <1>5 DEF LinePart
    <3>2. Line(X, Cols - 1) = Row0 + X .. Row0 + (Cols - 1)
      <4>1. X \in Int /\ Cols - 1 \in Int
        BY <1>1
      <4> QED
        BY <4>1, LineCells
    <3>3. Row0 + X + m - 1 = Row0 + (Cols - 1)
      BY <1>1, <1>2, <2>2
    <3> QED
      BY <1>2, <3>1, <3>2, <3>3
  <2> HIDE DEF s, new
  <2>5. new \in Screens /\ new.x = screen.x /\ new.y = screen.y /\ new.cells = s.cells
    BY <2>1, <2>3, BackInPlace
  <2>6. new = [screen EXCEPT !.cells = BlankedOn(LinePart)]
    <3>1. \A i \in Cells : new.cells[i] = IF i \in LinePart THEN Blank ELSE screen.cells[i]
      BY <2>3, <2>4, <2>5
    <3> QED
      BY <2>5, <3>1, BecomesBlanked
  <2> QED
    BY <2>6 DEF new
<1>6. CASE Value(1, 0) = 1
  <2> DEFINE s == Blanks(a, X)
  <2>1. new = s
    BY <1>6 DEF EraseLine
  <2>2. LinePart = CellAt(0, Y) .. CellAt(0, Y) + X - 1
    <3>1. LinePart = Line(0, X - 1)
      BY <1>6 DEF LinePart
    <3>2. Line(0, X - 1) = Row0 + 0 .. Row0 + (X - 1)
      <4>1. 0 \in Int /\ X - 1 \in Int
        BY <1>1
      <4> QED
        BY <4>1, LineCells
    <3>3. Row0 + 0 + X - 1 = Row0 + (X - 1)
      BY <1>1, <1>2
    <3> QED
      BY <1>2, <3>1, <3>2, <3>3
  <2> HIDE DEF a, new
  <2>3. a.x + X < Cols /\ a.x + X <= Cols /\ a.x < Cols /\ a.y < Rows /\ a.x + X = X
    BY <1>1, <1>4
  <2>4. /\ s \in Screens /\ s.x = screen.x /\ s.y = screen.y
        /\ \A i \in Cells : s.cells[i] =
             IF i \in CellAt(0, Y) .. CellAt(0, Y) + X - 1 THEN Blank ELSE screen.cells[i]
    BY <1>1, <1>4, <2>3, BlanksOnLine
  <2> HIDE DEF s
  <2>5. new = [screen EXCEPT !.cells = BlankedOn(LinePart)]
    BY <2>1, <2>2, <2>4, BecomesBlanked
  <2> QED
    BY <2>5 DEF new
<1>7. CASE Value(1, 0) = 2
  <2> DEFINE s == Blanks(a, Cols)
  <2>1. new = set_cursor_pos(s, X, Y)
    BY <1>7 DEF EraseLine
  <2>2. LinePart = CellAt(0, Y) .. CellAt(0, Y) + Cols - 1
    <3>1. LinePart = Line(0, Cols - 1)
      BY <1>7 DEF LinePart
    <3>2. Line(0, Cols - 1) = Row0 + 0 .. Row0 + (Cols - 1)
      <4>1. 0 \in Int /\ Cols - 1 \in Int
        BY <1>1
      <4> QED
        BY <4>1, LineCells
    <3>3. Row0 + 0 + Cols - 1 = Row0 + (Cols - 1)
      BY <1>1, <1>2
    <3> QED
      BY <1>2, <3>1, <3>2, <3>3
  <2> HIDE DEF a, new
  <2>3. a.x + Cols <= Cols /\ a.x < Cols /\ a.y < Rows
    BY <1>1, <1>4
  <2>4. /\ s \in Screens
        /\ \A i \in Cells : s.cells[i] =
             IF i \in CellAt(0, Y) .. CellAt(0, Y) + Cols - 1 THEN Blank ELSE screen.cells[i]
    BY <1>1, <1>4, <2>3, BlanksOnLine
  <2> HIDE DEF s
  <2>5. new \in Screens /\ new.x = screen.x /\ new.y = screen.y /\ new.cells = s.cells
    BY <2>1, <2>4, BackInPlace
  <2>6. new = [screen EXCEPT !.cells = BlankedOn(LinePart)]
    <3>1. \A i \in Cells : new.cells[i] = IF i \in LinePart THEN Blank ELSE screen.cells[i]
      BY <2>2, <2>4, <2>5
    <3> QED
      BY <2>5, <3>1, BecomesBlanked
  <2> QED
    BY <2>6 DEF new
<1>8. CASE Value(1, 0) > 2
  <2>1. screen' = screen
    BY <1>8 DEF EraseLine
  <2>2. LinePart = {}
    BY <1>3, <1>8 DEF LinePart
  <2>3. screen = [screen EXCEPT !.cells = BlankedOn(LinePart)]
    BY <2>2, BecomesBlanked
  <2> QED
    BY <2>1, <2>3
<1>9. Value(1, 0) = 0 \/ Value(1, 0) = 1 \/ Value(1, 0) = 2 \/ Value(1, 0) > 2
  BY <1>3
<1> QED
  BY <1>5, <1>6, <1>7, <1>8, <1>9

\* The line after the cells from column j on have moved by c and left blanks.
Shifted_From(a, j, c) ==
    /\ a \in Screens
    /\ \A i \in Cells : a.cells[i] =
          IF i \in Row0 + j + c .. Row0 + Cols - 1 THEN screen.cells[i - c]
          ELSE IF i \in Row0 + j .. Row0 + Cols - 1 THEN Blank ELSE screen.cells[i]

\* One more cell, at column j.
LEMMA OneInserted ==
    ASSUME screen \in Screens, RegionInv, NEW c \in Nat \ {0}, NEW j \in 0 .. Cols - 1, NEW a,
           Shifted_From(a, j + 1, c)
    PROVE  Shifted_From(Inserted(a, j, c), j, c)
<1>1. /\ Cols \in Nat /\ j \in Nat /\ j < Cols /\ j \in Int /\ j + c \in Nat /\ j + c \in Int
      /\ c \in Nat /\ c # 0 /\ Y \in Int /\ Y \in 0 .. Rows - 1 /\ Row0 \in Nat
  BY CursorIsNumber, CursorCell, LineStart, Sizes
<1>2. a \in Screens
  BY DEF Shifted_From
<1> DEFINE m == move_character(a, j + c, j, Y)
           s == set_cursor_pos(m, j, Y)
           t == raw_putchar(s, Blank, FALSE)
<1>3. /\ CellAt(j, Y) = Row0 + j /\ CellAt(j + c, Y) = Row0 + (j + c) /\ Row0 + j \in Cells
  BY <1>1, LineCell
<1>4. /\ m \in Screens
      /\ m.cells = IF j + c < Cols THEN [a.cells EXCEPT ![Row0 + (j + c)] = a.cells[Row0 + j]] ELSE a.cells
  <2>1. LET w == move_character(a, j + c, j, Y)
        IN  /\ w \in Screens
            /\ w.cells = IF j + c < Cols THEN [a.cells EXCEPT ![CellAt(j + c, Y)] = a.cells[CellAt(j, Y)]]
                         ELSE a.cells
    <3> DEFINE w == j + c
    <3>1. w \in Nat /\ Y \in 0 .. Rows - 1
      BY <1>1
    <3> HIDE DEF w
    <3>2. LET b == move_character(a, w, j, Y)
          IN  /\ b \in Screens
              /\ b.cells = IF w < Cols THEN [a.cells EXCEPT ![CellAt(w, Y)] = a.cells[CellAt(j, Y)]] ELSE a.cells
      BY <1>2, <3>1, MoveCells
    <3> QED
      BY <3>2 DEF w
  <2> QED
    BY <1>3, <2>1
<1> HIDE DEF m
<1>5. s \in Screens /\ s.x = j /\ s.y = Y /\ s.cells = m.cells
  BY <1>1, <1>4, CursorIsSet
<1> HIDE DEF s
<1>6. t \in Screens /\ t.cells = [m.cells EXCEPT ![Row0 + j] = Blank]
  <2>1. Blank \in Marks
    BY DEF Marks
  <2>2. t \in Screens /\ t.cells = Store(s, Blank, j, Y).cells
    BY <1>1, <1>5, <2>1, CharacterCells
  <2>3. Y \in Nat /\ Y < Rows
    BY CursorIsNumber
  <2>4. Store(s, Blank, j, Y).cells = [s.cells EXCEPT ![CellAt(j, Y)] = Blank]
    BY <1>1, <1>5, <2>1, <2>3, StoreCells
  <2> QED
    BY <1>3, <1>5, <2>2, <2>4
<1>7. Inserted(a, j, c) = t
  BY DEF Inserted, t, s, m
<1> HIDE DEF t
<1>8. a.cells \in [Cells -> Marks] /\ m.cells \in [Cells -> Marks]
  BY <1>2, <1>4 DEF Screens
<1>9. a.cells[Row0 + j] = screen.cells[Row0 + j]
  <2>1. Row0 + j \notin Row0 + (j + 1) .. Row0 + Cols - 1 /\ Row0 + j \notin Row0 + (j + 1) + c .. Row0 + Cols - 1
    BY <1>1
  <2> QED
    BY <1>3, <2>1 DEF Shifted_From
<1>10. ASSUME NEW i \in Cells
       PROVE  t.cells[i] = IF i \in Row0 + j + c .. Row0 + Cols - 1 THEN screen.cells[i - c]
                           ELSE IF i \in Row0 + j .. Row0 + Cols - 1 THEN Blank ELSE screen.cells[i]
  <2>0. i \in Nat
    BY CellHasPlace
  <2>1. a.cells[i] = IF i \in Row0 + (j + 1) + c .. Row0 + Cols - 1 THEN screen.cells[i - c]
                     ELSE IF i \in Row0 + (j + 1) .. Row0 + Cols - 1 THEN Blank ELSE screen.cells[i]
    BY DEF Shifted_From
  <2>2. CASE i = Row0 + j
    <3>1. t.cells[i] = Blank
      BY <1>6, <1>8, <2>2
    <3>2. i \notin Row0 + j + c .. Row0 + Cols - 1 /\ i \in Row0 + j .. Row0 + Cols - 1
      BY <1>1, <2>2
    <3> QED
      BY <3>1, <3>2
  <2>3. CASE i # Row0 + j /\ j + c < Cols /\ i = Row0 + (j + c)
    <3>1. t.cells[i] = a.cells[Row0 + j]
      BY <1>4, <1>6, <1>8, <2>3
    <3>2. i \in Row0 + j + c .. Row0 + Cols - 1 /\ i - c = Row0 + j
      BY <1>1, <2>3
    <3> QED
      BY <1>9, <3>1, <3>2
  <2>4. CASE i # Row0 + j /\ ~(j + c < Cols /\ i = Row0 + (j + c))
    <3>1. t.cells[i] = a.cells[i]
      BY <1>4, <1>6, <1>8, <2>4
    <3>2. /\ i \in Row0 + j + c .. Row0 + Cols - 1 <=> i \in Row0 + (j + 1) + c .. Row0 + Cols - 1
          /\ i \in Row0 + j .. Row0 + Cols - 1 <=> i \in Row0 + (j + 1) .. Row0 + Cols - 1
      BY <1>1, <2>0, <2>4
    <3> QED
      BY <2>1, <3>1, <3>2
  <2> QED
    BY <2>2, <2>3, <2>4
<1> QED
  BY <1>6, <1>7, <1>10 DEF Shifted_From

LEMMA CharsAreInserted ==
    ASSUME screen \in Screens, OnCell, RegionInv, ValuesInv, InsertChars, Count > 0
    PROVE  screen' = [screen EXCEPT !.cells =
                        [i \in Cells |-> IF i \in Line(X + Count, Cols - 1) THEN screen.cells[i - Count]
                                         ELSE IF i \in Line(X + 0, Cols - 1) THEN Blank ELSE screen.cells[i]]]
<1> DEFINE c == Count
           n == Cols - X
           f == FoldLeft(LAMBDA a, i : Inserted(a, i, c), screen, Downwards(Cols - 1, X))
<1>1. /\ X \in Nat /\ X < Cols /\ Cols \in Nat /\ c \in Nat \ {0} /\ Row0 \in Nat
  BY CursorIsNumber, CountIsNumber, LineStart, Sizes
<1>2. screen' = set_cursor_pos(f, X, Y)
  BY DEF InsertChars, Inserted
<1> HIDE DEF c
<1>3. PICK h : InsertRun(h, c)
  BY <1>1, InsertsRun
<1>4. /\ n \in Nat /\ h[0] = screen /\ h[n] = f
      /\ \A k \in 1 .. n : h[k] = Inserted(h[k - 1], Cols - k, c)
  <2>1. n \in Nat
    BY <1>1
  <2>2. h[0] = screen /\ h[n] = f /\ \A k \in 1 .. n : h[k] = Inserted(h[k - 1], Cols - k, c)
    BY <1>3 DEF InsertRun
  <2> QED
    BY <2>1, <2>2
<1> HIDE DEF f
<1> DEFINE P == {k \in 0 .. n : Shifted_From(h[k], Cols - k, c)}
<1>5. 0 \in P
  <2>1. ASSUME NEW i \in Cells
        PROVE  screen.cells[i] =
                 IF i \in Row0 + (Cols - 0) + c .. Row0 + Cols - 1 THEN screen.cells[i - c]
                 ELSE IF i \in Row0 + (Cols - 0) .. Row0 + Cols - 1 THEN Blank ELSE screen.cells[i]
    <3>1. Row0 + (Cols - 0) + c .. Row0 + Cols - 1 = {} /\ Row0 + (Cols - 0) .. Row0 + Cols - 1 = {}
      BY <1>1
    <3> QED
      BY <3>1
  <2>2. Shifted_From(screen, Cols - 0, c)
    BY <2>1 DEF Shifted_From
  <2>3. 0 \in 0 .. n
    BY <1>4
  <2> QED
    BY <1>4, <2>2, <2>3
<1>6. ASSUME NEW k \in 0 .. n - 1, k \in P PROVE k + 1 \in P
  <2> DEFINE a == h[k]
             j == Cols - (k + 1)
  <2>1. Shifted_From(a, Cols - k, c)
    BY <1>6
  <2>2. k + 1 \in 1 .. n /\ k + 1 \in 0 .. n /\ (k + 1) - 1 = k /\ k \in Nat
    BY <1>1
  <2>3. h[k + 1] = Inserted(a, j, c)
    BY <1>4, <2>2
  <2>4. j \in 0 .. Cols - 1 /\ j + 1 = Cols - k
    BY <1>1, <2>2
  <2> HIDE DEF a, j
  <2>5. Shifted_From(Inserted(a, j, c), j, c)
    BY <1>1, <2>1, <2>4, OneInserted
  <2> QED
    BY <2>2, <2>3, <2>5 DEF j
<1>7. n \in P
  <2>1. n \in 0 .. n
    BY <1>4
  <2> HIDE DEF P, n
  <2> QED
    BY <1>4, <1>5, <1>6, <2>1, UpTo
<1>8. Shifted_From(f, X, c)
  <2>1. Shifted_From(h[n], Cols - n, c)
    BY <1>7
  <2>2. Cols - n = X
    BY <1>1
  <2> QED
    BY <1>4, <2>1, <2>2
<1>9. f \in Screens
  BY <1>8 DEF Shifted_From
<1> DEFINE new == screen'
           d == [i \in Cells |-> IF i \in Line(X + c, Cols - 1) THEN screen.cells[i - c]
                                 ELSE IF i \in Line(X + 0, Cols - 1) THEN Blank ELSE screen.cells[i]]
<1> HIDE DEF new
<1>10. new \in Screens /\ new.x = screen.x /\ new.y = screen.y /\ new.cells = f.cells
  BY <1>2, <1>9, BackInPlace DEF new
<1>11. Line(X + c, Cols - 1) = Row0 + X + c .. Row0 + Cols - 1
       /\ Line(X + 0, Cols - 1) = Row0 + X .. Row0 + Cols - 1
  <2>1. X + c \in Int /\ X + 0 \in Int /\ Cols - 1 \in Int
    BY <1>1
  <2>2. Line(X + c, Cols - 1) = Row0 + (X + c) .. Row0 + (Cols - 1)
        /\ Line(X + 0, Cols - 1) = Row0 + (X + 0) .. Row0 + (Cols - 1)
    BY <2>1, LineCells
  <2>3. Row0 + (X + c) = Row0 + X + c /\ Row0 + (X + 0) = Row0 + X /\ Row0 + (Cols - 1) = Row0 + Cols - 1
    BY <1>1
  <2> QED
    BY <2>2, <2>3
<1>12. ASSUME NEW i \in Cells PROVE new.cells[i] = d[i]
  BY <1>8, <1>10, <1>11 DEF Shifted_From
<1>13. d = [i \in Cells |-> d[i]]
  OBVIOUS
<1>14. new = [screen EXCEPT !.cells = d]
  <2> HIDE DEF d
  <2> QED
    BY <1>10, <1>12, <1>13, Becomes
<1> QED
  BY <1>14 DEF new, d, c

\* The line after the k cells from the cursor on have been replaced by those c further on.
Closed_Up(a, k, c) ==
    /\ a \in Screens
    /\ \A i \in Cells : a.cells[i] =
          IF i \in Row0 + X .. Row0 + X + k - 1 THEN screen.cells[i + c] ELSE screen.cells[i]

LEMMA OneDeleted ==
    ASSUME screen \in Screens, NEW c \in Nat, NEW k \in Nat, X + c + k < Cols, NEW a, Closed_Up(a, k, c)
    PROVE  Closed_Up(move_character(a, X + k, X + c + k, Y), k + 1, c)
<1>1. /\ Cols \in Nat /\ X \in Nat /\ X + k \in Nat /\ X + k \in Int /\ X + c + k \in 0 .. Cols - 1
      /\ X + c + k \in Int /\ X + k < Cols /\ Y \in 0 .. Rows - 1 /\ Row0 \in Nat
  BY CursorIsNumber, CursorCell, LineStart, Sizes
<1>2. a \in Screens
  BY DEF Closed_Up
<1> DEFINE new == X + k
           old == X + c + k
           t == move_character(a, new, old, Y)
<1>3. new \in Nat /\ old \in 0 .. Cols - 1 /\ new < Cols /\ new \in Int /\ old \in Int
  BY <1>1
<1>a. old = new + c /\ new >= X
  BY <1>1
<1>4. CellAt(new, Y) = Row0 + new /\ CellAt(old, Y) = Row0 + old
  BY <1>3, LineCell
<1>5. Row0 + old \in Cells
  <2> HIDE DEF old
  <2> QED
    BY <1>3, LineCell
<1>6. new = X + k /\ Closed_Up(t, k + 1, c) = Closed_Up(move_character(a, X + k, X + c + k, Y), k + 1, c)
  OBVIOUS
<1>7. t \in Screens /\ t.cells = [a.cells EXCEPT ![Row0 + new] = a.cells[Row0 + old]]
  <2> HIDE DEF new, old
  <2>1. /\ t \in Screens
        /\ t.cells = IF new < Cols THEN [a.cells EXCEPT ![CellAt(new, Y)] = a.cells[CellAt(old, Y)]]
                     ELSE a.cells
    <3>1. Y \in 0 .. Rows - 1
      BY <1>1
    <3>2. LET b == move_character(a, new, old, Y)
          IN  /\ b \in Screens
              /\ b.cells = IF new < Cols THEN [a.cells EXCEPT ![CellAt(new, Y)] = a.cells[CellAt(old, Y)]]
                           ELSE a.cells
      BY <1>2, <1>3, <3>1, MoveCells
    <3> QED
      BY <3>2
  <2> QED
    BY <1>3, <1>4, <2>1
<1> HIDE DEF t
<1>8. a.cells \in [Cells -> Marks]
  BY <1>2 DEF Screens
<1>9. a.cells[Row0 + old] = screen.cells[Row0 + old]
  <2>1. Row0 + old \notin Row0 + X .. Row0 + X + k - 1
    BY <1>1
  <2> HIDE DEF old
  <2> QED
    BY <1>5, <2>1 DEF Closed_Up
<1>10. ASSUME NEW i \in Cells
       PROVE  t.cells[i] = IF i \in Row0 + X .. Row0 + X + (k + 1) - 1 THEN screen.cells[i + c]
                           ELSE screen.cells[i]
  <2>0. i \in Nat
    BY CellHasPlace
  <2>1. a.cells[i] = IF i \in Row0 + X .. Row0 + X + k - 1 THEN screen.cells[i + c] ELSE screen.cells[i]
    BY DEF Closed_Up
  <2>2. CASE i = Row0 + new
    <3>1. i \in Row0 + X .. Row0 + X + (k + 1) - 1 /\ i + c = Row0 + old
      BY <1>1, <2>2
    <3>2. t.cells[i] = a.cells[Row0 + old]
      <4> HIDE DEF new, old
      <4> QED
        BY <1>7, <1>8, <2>2
    <3> QED
      BY <1>9, <3>1, <3>2
  <2>3. CASE i # Row0 + new
    <3>1. i \in Row0 + X .. Row0 + X + (k + 1) - 1 <=> i \in Row0 + X .. Row0 + X + k - 1
      BY <1>1, <2>0, <2>3
    <3>2. t.cells[i] = a.cells[i]
      <4> HIDE DEF new, old
      <4> QED
        BY <1>7, <1>8, <2>3
    <3> QED
      BY <2>1, <3>1, <3>2
  <2> QED
    BY <2>2, <2>3
<1>11. Closed_Up(t, k + 1, c)
  BY <1>7, <1>10 DEF Closed_Up
<1> QED
  BY <1>11 DEF t

LEMMA LineIsClosedUp ==
    ASSUME screen \in Screens, NEW c \in Nat, c <= Cols - X
    PROVE  Closed_Up(FoldLeft(LAMBDA a, i : move_character(a, i - c, i, Y), screen,
                              Upwards(X + c, Cols - 1)), Cols - X - c, c)
<1> DEFINE m == Cols - X - c
           t == FoldLeft(LAMBDA a, i : move_character(a, i - c, i, Y), screen, Upwards(X + c, Cols - 1))
<1>1. X \in Nat /\ X < Cols /\ Cols \in Nat /\ m \in Nat /\ Row0 \in Nat /\ m \in 0 .. m
  <2>1. X \in Nat /\ X < Cols /\ Cols \in Nat /\ Row0 \in Nat
    BY CursorIsNumber, LineStart, Sizes
  <2>2. m \in Nat
    BY <2>1
  <2> HIDE DEF m
  <2>3. m \in 0 .. m
    BY <2>2
  <2> QED
    BY <2>1, <2>2, <2>3
<1>2. PICK h : DeleteRun(h, c, m)
  <2>1. m \in Nat /\ m = (IF c <= Cols - X THEN Cols - X - c ELSE 0)
    BY <1>1
  <2> HIDE DEF m
  <2> QED
    BY <2>1, DeletesRun
<1>3. /\ h[0] = screen /\ h[m] = t
      /\ \A k \in 1 .. m : h[k] = move_character(h[k - 1], X + k - 1, X + c + k - 1, Y)
  BY <1>2 DEF DeleteRun
<1> HIDE DEF t
<1> DEFINE P == {k \in 0 .. m : Closed_Up(h[k], k, c)}
<1>4. 0 \in P
  <2>1. Row0 + X .. Row0 + X + 0 - 1 = {}
    BY <1>1
  <2>2. Closed_Up(screen, 0, c)
    BY <2>1 DEF Closed_Up
  <2>3. 0 \in 0 .. m
    BY <1>1
  <2> QED
    BY <1>3, <2>2, <2>3
<1>5. ASSUME NEW k \in 0 .. m - 1, k \in P PROVE k + 1 \in P
  <2> DEFINE a == h[k]
  <2>1. Closed_Up(a, k, c)
    BY <1>5
  <2>2. /\ k + 1 \in 1 .. m /\ k + 1 \in 0 .. m /\ (k + 1) - 1 = k /\ k \in Nat
        /\ X + (k + 1) - 1 = X + k /\ X + c + (k + 1) - 1 = X + c + k /\ X + c + k < Cols
    <3>1. m \in Nat /\ k \in Nat /\ k < m /\ m = Cols - X - c /\ X \in Nat /\ Cols \in Nat
      BY <1>1
    <3>2. X + (k + 1) - 1 = X + k /\ X + c + (k + 1) - 1 = X + c + k /\ X + c + k < Cols
      BY <3>1
    <3> HIDE DEF m
    <3>3. k + 1 \in 1 .. m /\ k + 1 \in 0 .. m /\ (k + 1) - 1 = k
      BY <3>1
    <3> QED
      BY <3>1, <3>2, <3>3
  <2>3. h[k + 1] = move_character(a, X + k, X + c + k, Y)
    BY <1>3, <2>2
  <2> HIDE DEF a
  <2>4. Closed_Up(move_character(a, X + k, X + c + k, Y), k + 1, c)
    BY <2>1, <2>2, OneDeleted
  <2> QED
    BY <2>2, <2>3, <2>4
<1>6. m \in P
  <2> HIDE DEF P, m
  <2> QED
    BY <1>1, <1>4, <1>5, UpTo
<1> QED
  BY <1>3, <1>6 DEF t

ErasedAt(n) == BlankedOn(Line(X, X + n - 1))
DeletedAt(n) == [i \in Cells |-> IF i \in Line(X, Cols - 1 - n) THEN screen.cells[i + n]
                                 ELSE IF i \in Line(X + 0, Cols - 1) THEN Blank ELSE screen.cells[i]]

LEMMA CharsAreDeleted ==
    ASSUME screen \in Screens, OnCell, RegionInv, ValuesInv, DeleteOrEraseChars, Count <= Cols - X
    PROVE  \/ screen' = [screen EXCEPT !.cells = DeletedAt(Count)]
           \/ screen' = [screen EXCEPT !.cells = ErasedAt(Count)]
<1> DEFINE c == Count
           new == screen'
           f == FoldLeft(LAMBDA a, i : move_character(a, i - c, i, Y), screen, Upwards(X + c, Cols - 1))
<1>1. /\ X \in Nat /\ X < Cols /\ Cols \in Nat /\ c \in Nat /\ Row0 \in Nat /\ c <= Cols - X
      /\ X = screen.x /\ Y = screen.y /\ Y < Rows /\ Y \in Int /\ Y \in 0 .. Rows - 1
  BY CursorIsNumber, CursorCell, CountIsNumber, LineStart, Sizes DEF OnCell
<1>2. \/ new = set_cursor_pos(Blanks(set_cursor_pos(f, Cols - c, Y), c), X, Y)
      \/ new = set_cursor_pos(Blanks(screen, c), X, Y)
  BY DEF DeleteOrEraseChars
<1> HIDE DEF c
<1>3. Closed_Up(f, Cols - X - c, c)
  BY <1>1, LineIsClosedUp
<1> HIDE DEF f, new
<1>4. CASE new = set_cursor_pos(Blanks(set_cursor_pos(f, Cols - c, Y), c), X, Y)
  <2> DEFINE s == set_cursor_pos(f, Cols - c, Y)
             b == Blanks(s, c)
             d == [i \in Cells |-> IF i \in Line(X, Cols - 1 - c) THEN screen.cells[i + c]
                                   ELSE IF i \in Line(X + 0, Cols - 1) THEN Blank ELSE screen.cells[i]]
  <2>0. new = set_cursor_pos(b, X, Y)
    BY <1>4
  <2>1. f \in Screens /\ Cols - c \in Int
    BY <1>1, <1>3 DEF Closed_Up
  <2>2. /\ s \in Screens /\ s.cells = f.cells /\ s.x \in 0 .. Cols - 1 /\ s.y = Y
        /\ c # 0 => s.x = Cols - c
    <3>1. c # 0 => Cols - c \in 0 .. Cols - 1
      BY <1>1
    <3> QED
      BY <1>1, <2>1, <3>1, CursorIsSet
  <2> HIDE DEF s
  <2>3. s.x < Cols /\ s.y < Rows /\ s.x + c <= Cols /\ s.x \in Int
    BY <1>1, <2>2
  <2>4. b \in Screens /\ \A i \in Cells : b.cells[i] =
           IF i \in CellAt(s.x, s.y) .. CellAt(s.x, s.y) + c - 1 THEN Blank ELSE s.cells[i]
    BY <1>1, <2>2, <2>3, BlanksOnLine
  <2> HIDE DEF b
  <2>5. CellAt(s.x, s.y) .. CellAt(s.x, s.y) + c - 1 = Row0 + Cols - c .. Row0 + Cols - 1
    <3>1. CellAt(s.x, s.y) = Row0 + s.x
      BY <2>2, <2>3, LineCell
    <3>2. c = 0 \/ s.x = Cols - c
      BY <2>2
    <3> DEFINE u == s.x
               p == CellAt(s.x, s.y)
    <3>3. p = Row0 + u /\ u \in Int /\ (c = 0 \/ u = Cols - c)
      BY <2>3, <3>1, <3>2
    <3> HIDE DEF u, p
    <3>4. p .. p + c - 1 = Row0 + Cols - c .. Row0 + Cols - 1
      <4>1. CASE c = 0
        <5>1. p .. p + c - 1 = {} /\ Row0 + Cols - c .. Row0 + Cols - 1 = {}
          BY <1>1, <3>3, <4>1
        <5> QED
          BY <5>1
      <4>2. CASE u = Cols - c
        <5>1. p = Row0 + Cols - c /\ p + c - 1 = Row0 + Cols - 1
          BY <1>1, <3>3, <4>2
        <5> QED
          BY <5>1
      <4> QED
        BY <3>3, <4>1, <4>2
    <3> QED
      BY <3>4 DEF p
  <2>6. /\ Line(X, Cols - 1 - c) = Row0 + X .. Row0 + Cols - 1 - c
        /\ Line(X + 0, Cols - 1) = Row0 + X .. Row0 + Cols - 1
    <3>1. X \in Int /\ X + 0 \in Int /\ Cols - 1 \in Int /\ Cols - 1 - c \in Int
      BY <1>1
    <3>2. /\ Line(X, Cols - 1 - c) = Row0 + X .. Row0 + (Cols - 1 - c)
          /\ Line(X + 0, Cols - 1) = Row0 + (X + 0) .. Row0 + (Cols - 1)
      BY <3>1, LineCells
    <3>3. /\ Row0 + (X + 0) = Row0 + X /\ Row0 + (Cols - 1) = Row0 + Cols - 1
          /\ Row0 + (Cols - 1 - c) = Row0 + Cols - 1 - c
      BY <1>1
    <3> QED
      BY <3>2, <3>3
  <2>7. new \in Screens /\ new.x = screen.x /\ new.y = screen.y /\ new.cells = b.cells
    BY <2>0, <2>4, BackInPlace
  <2>8. ASSUME NEW i \in Cells PROVE new.cells[i] = d[i]
    <3>0. i \in Nat
      BY CellHasPlace
    <3>1. new.cells[i] = IF i \in Row0 + Cols - c .. Row0 + Cols - 1 THEN Blank ELSE f.cells[i]
      BY <2>2, <2>4, <2>5, <2>7
    <3>2. f.cells[i] = IF i \in Row0 + X .. Row0 + X + (Cols - X - c) - 1 THEN screen.cells[i + c]
                       ELSE screen.cells[i]
      BY <1>3 DEF Closed_Up
    <3>3. /\ i \in Row0 + X .. Row0 + X + (Cols - X - c) - 1 <=> i \in Row0 + X .. Row0 + Cols - 1 - c
          /\ i \in Row0 + X .. Row0 + Cols - 1
               <=> i \in Row0 + X .. Row0 + Cols - 1 - c \/ i \in Row0 + Cols - c .. Row0 + Cols - 1
          /\ ~(i \in Row0 + X .. Row0 + Cols - 1 - c /\ i \in Row0 + Cols - c .. Row0 + Cols - 1)
      BY <1>1, <3>0
    <3>4. d[i] = IF i \in Row0 + X .. Row0 + Cols - 1 - c THEN screen.cells[i + c]
                 ELSE IF i \in Row0 + X .. Row0 + Cols - 1 THEN Blank ELSE screen.cells[i]
      BY <2>6
    <3> HIDE DEF d
    <3> QED
      BY <3>1, <3>2, <3>3, <3>4
  <2>9. d = [i \in Cells |-> d[i]]
    OBVIOUS
  <2>10. d = DeletedAt(Count)
    BY DEF DeletedAt, c
  <2> HIDE DEF d
  <2>11. new = [screen EXCEPT !.cells = d]
    BY <2>7, <2>8, <2>9, Becomes
  <2> QED
    BY <2>10, <2>11 DEF new
<1>5. CASE new = set_cursor_pos(Blanks(screen, c), X, Y)
  <2> DEFINE b == Blanks(screen, c)
  <2>0. new = set_cursor_pos(b, X, Y)
    BY <1>5
  <2>1. screen.x + c <= Cols
    BY <1>1
  <2>2. b \in Screens /\ \A i \in Cells : b.cells[i] =
           IF i \in CellAt(X, Y) .. CellAt(X, Y) + c - 1 THEN Blank ELSE screen.cells[i]
    BY <1>1, <2>1, BlanksOnLine DEF OnCell
  <2> HIDE DEF b
  <2>3. Line(X, X + c - 1) = CellAt(X, Y) .. CellAt(X, Y) + c - 1
    <3>1. X \in Int /\ X + c - 1 \in Int
      BY <1>1
    <3>2. Line(X, X + c - 1) = Row0 + X .. Row0 + (X + c - 1) /\ CellAt(X, Y) = Row0 + X
      BY <3>1, LineCells, LineCell
    <3>3. Row0 + (X + c - 1) = Row0 + X + c - 1
      BY <1>1
    <3> QED
      BY <3>2, <3>3
  <2>4. new \in Screens /\ new.x = screen.x /\ new.y = screen.y /\ new.cells = b.cells
    BY <2>0, <2>2, BackInPlace
  <2>5. \A i \in Cells : new.cells[i] = IF i \in Line(X, X + c - 1) THEN Blank ELSE screen.cells[i]
    BY <2>2, <2>3, <2>4
  <2>6. new = [screen EXCEPT !.cells = BlankedOn(Line(X, X + c - 1))]
    BY <2>4, <2>5, BecomesBlanked
  <2> QED
    BY <2>6 DEF ErasedAt, new, c
<1> QED
  BY <1>2, <1>4, <1>5

----
\* Insert mode.

\* The line after the cells from column j on have moved by one.
Room_From(a, j) ==
    /\ a \in Screens /\ a.x = screen.x /\ a.y = screen.y
    /\ \A i \in Cells : a.cells[i] = IF i \in Row0 + j + 1 .. Row0 + Cols - 1 THEN screen.cells[i - 1]
                                     ELSE screen.cells[i]

LEMMA OneMoved ==
    ASSUME screen \in Screens, NEW j \in 0 .. Cols - 1, NEW a, Room_From(a, j + 1)
    PROVE  Room_From(move_character(a, j + 1, j, Y), j)
<1> DEFINE w == j + 1
           t == move_character(a, w, j, Y)
<1>1. /\ Cols \in Nat /\ j \in Nat /\ j < Cols /\ j \in Int /\ w \in Nat /\ w \in Int
      /\ Y \in 0 .. Rows - 1 /\ Row0 \in Nat
  BY CursorIsNumber, CursorCell, LineStart, Sizes
<1>2. a \in Screens /\ a.x = screen.x /\ a.y = screen.y
  BY DEF Room_From
<1>3. CellAt(j, Y) = Row0 + j /\ CellAt(w, Y) = Row0 + w /\ Row0 + j \in Cells
  BY <1>1, LineCell
<1>4. /\ t \in Screens /\ t.x = a.x /\ t.y = a.y
      /\ t.cells = IF w < Cols THEN [a.cells EXCEPT ![Row0 + w] = a.cells[Row0 + j]] ELSE a.cells
  <2> HIDE DEF w
  <2>1. Y \in 0 .. Rows - 1 /\ w \in Nat
    BY <1>1
  <2>2. LET b == move_character(a, w, j, Y)
        IN  /\ b \in Screens /\ b.x = a.x /\ b.y = a.y
            /\ b.cells = IF w < Cols THEN [a.cells EXCEPT ![CellAt(w, Y)] = a.cells[CellAt(j, Y)]] ELSE a.cells
    BY <1>2, <2>1, MoveCells
  <2> QED
    BY <1>3, <2>2
<1> HIDE DEF t
<1>5. a.cells \in [Cells -> Marks]
  BY <1>2 DEF Screens
<1>6. a.cells[Row0 + j] = screen.cells[Row0 + j]
  <2>1. Row0 + j \notin Row0 + (j + 1) + 1 .. Row0 + Cols - 1
    BY <1>1
  <2> QED
    BY <1>3, <2>1 DEF Room_From
<1>7. ASSUME NEW i \in Cells
      PROVE  t.cells[i] = IF i \in Row0 + j + 1 .. Row0 + Cols - 1 THEN screen.cells[i - 1] ELSE screen.cells[i]
  <2>0. i \in Nat
    BY CellHasPlace
  <2>1. a.cells[i] = IF i \in Row0 + (j + 1) + 1 .. Row0 + Cols - 1 THEN screen.cells[i - 1]
                     ELSE screen.cells[i]
    BY DEF Room_From
  <2>2. CASE w < Cols /\ i = Row0 + w
    <3>1. t.cells[i] = a.cells[Row0 + j]
      <4> HIDE DEF w
      <4> QED
        BY <1>4, <1>5, <2>2
    <3>2. i \in Row0 + j + 1 .. Row0 + Cols - 1 /\ i - 1 = Row0 + j
      BY <1>1, <2>2
    <3> QED
      BY <1>6, <3>1, <3>2
  <2>3. CASE ~(w < Cols /\ i = Row0 + w)
    <3>1. t.cells[i] = a.cells[i]
      <4> HIDE DEF w
      <4> QED
        BY <1>4, <1>5, <2>3
    <3>2. i \in Row0 + j + 1 .. Row0 + Cols - 1 <=> i \in Row0 + (j + 1) + 1 .. Row0 + Cols - 1
      BY <1>1, <2>0, <2>3
    <3> QED
      BY <2>1, <3>1, <3>2
  <2> QED
    BY <2>2, <2>3
<1>8. Room_From(t, j)
  BY <1>2, <1>4, <1>7 DEF Room_From
<1> QED
  BY <1>8 DEF t

LEMMA RoomIsMade ==
    ASSUME screen \in Screens, insert_mode
    PROVE  Room_From(MadeRoom, X)
<1> DEFINE n == Cols - X
<1>1. X \in Nat /\ X < Cols /\ Cols \in Nat /\ Row0 \in Nat /\ n \in Nat
  BY CursorIsNumber, LineStart, Sizes
<1>2. PICK h : RoomRun(h)
  BY RoomsRun
<1>3. /\ h[0] = screen /\ h[n] = MadeRoom
      /\ \A k \in 1 .. n : h[k] = move_character(h[k - 1], (Cols - k) + 1, Cols - k, Y)
  BY <1>2 DEF RoomRun
<1> DEFINE P == {k \in 0 .. n : Room_From(h[k], Cols - k)}
<1>4. 0 \in P
  <2>1. Row0 + (Cols - 0) + 1 .. Row0 + Cols - 1 = {}
    BY <1>1
  <2>2. Room_From(screen, Cols - 0)
    BY <2>1 DEF Room_From
  <2>3. 0 \in 0 .. n
    BY <1>1
  <2> QED
    BY <1>3, <2>2, <2>3
<1>5. ASSUME NEW k \in 0 .. n - 1, k \in P PROVE k + 1 \in P
  <2> DEFINE a == h[k]
             j == Cols - (k + 1)
  <2>1. Room_From(a, Cols - k)
    BY <1>5
  <2>2. k + 1 \in 1 .. n /\ k + 1 \in 0 .. n /\ (k + 1) - 1 = k /\ k \in Nat
    BY <1>1
  <2>3. h[k + 1] = move_character(a, j + 1, j, Y)
    BY <1>3, <2>2
  <2>4. j \in 0 .. Cols - 1 /\ j + 1 = Cols - k
    BY <1>1, <2>2
  <2> HIDE DEF a, j
  <2>5. Room_From(move_character(a, j + 1, j, Y), j)
    BY <2>1, <2>4, OneMoved
  <2> QED
    BY <2>2, <2>3, <2>5 DEF j
<1>6. n \in P
  <2>1. n \in 0 .. n
    BY <1>1
  <2> HIDE DEF P, n
  <2> QED
    BY <1>1, <1>4, <1>5, <2>1, UpTo
<1>7. Cols - n = X
  BY <1>1
<1> QED
  BY <1>3, <1>6, <1>7

LEMMA LineMakesRoom ==
    ASSUME screen \in Screens, OnCell, RegionInv, PrintCharacter, insert_mode,
           NEW i \in Cells \ {Here}
    PROVE  screen'.cells[i] = IF i \in Line(X + 1, Cols - 1) THEN screen.cells[i - 1] ELSE screen.cells[i]
<1>1. /\ X \in Nat /\ X < Cols /\ Cols \in Nat /\ Row0 \in Nat /\ X \in Int /\ Y \in Nat /\ Y < Rows
      /\ X = screen.x /\ Y = screen.y
  BY CursorIsNumber, CursorCell, LineStart, Sizes DEF OnCell
<1> DEFINE m == MadeRoom
           new == screen'
<1>2. Room_From(m, X)
  BY RoomIsMade
<1>3. new = m \/ \E g \in {Drawing, Letter} : new = raw_putchar(m, g, TRUE)
  BY DEF PrintCharacter
<1>4. Line(X + 1, Cols - 1) = Row0 + X + 1 .. Row0 + Cols - 1
  <2>1. X + 1 \in Int /\ Cols - 1 \in Int
    BY <1>1
  <2>2. Line(X + 1, Cols - 1) = Row0 + (X + 1) .. Row0 + (Cols - 1)
    BY <2>1, LineCells
  <2>3. Row0 + (X + 1) = Row0 + X + 1 /\ Row0 + (Cols - 1) = Row0 + Cols - 1
    BY <1>1
  <2> QED
    BY <2>2, <2>3
<1>5. m.cells[i] = IF i \in Line(X + 1, Cols - 1) THEN screen.cells[i - 1] ELSE screen.cells[i]
  BY <1>2, <1>4 DEF Room_From
<1>6. m \in Screens /\ m.x = X /\ m.y = Y
  BY <1>1, <1>2 DEF Room_From
<1> HIDE DEF m, new
<1>7. ASSUME NEW g \in {Drawing, Letter}, new = raw_putchar(m, g, TRUE) PROVE new.cells[i] = m.cells[i]
  <2>1. g \in Marks
    BY DEF Marks
  <2>2. new.cells = Store(m, g, X, Y).cells
    BY <1>1, <1>6, <1>7, <2>1, CharacterCells
  <2>3. Store(m, g, X, Y).cells = [m.cells EXCEPT ![CellAt(X, Y)] = g]
    BY <1>1, <1>6, <2>1, StoreCells
  <2>4. m.cells \in [Cells -> Marks]
    BY <1>6 DEF Screens
  <2> QED
    BY <2>2, <2>3, <2>4 DEF Here
<1>8. new.cells[i] = m.cells[i]
  BY <1>3, <1>7
<1> QED
  BY <1>5, <1>8 DEF new

(* On every screen, with every count and every margins, the commands change the cells they name  *)
(* and no other.                                                                                 *)
THEOREM CommandsChangeTheirCells == Spec => CommandsAreExact
<1> DEFINE A ==
      LET blanked(S) == [i \in Cells |-> IF i \in S THEN Blank ELSE screen.cells[i]]
          rest(n) == Line(X + n, Cols - 1)
          inserted(n) == [i \in Cells |-> IF i \in rest(n) THEN screen.cells[i - n]
                                         ELSE IF i \in rest(0) THEN Blank ELSE screen.cells[i]]
          deleted(n) == [i \in Cells |-> IF i \in Line(X, Cols - 1 - n) THEN screen.cells[i + n]
                                        ELSE IF i \in rest(0) THEN Blank ELSE screen.cells[i]]
          becomes(c) == screen' = [screen EXCEPT !.cells = c]
      IN  OnCell =>
          /\ EraseDisplay => becomes(blanked(DisplayPart))
          /\ EraseLine => becomes(blanked(LinePart))
          /\ InsertChars /\ Count > 0 => becomes(inserted(Count))
          /\ DeleteOrEraseChars /\ Count <= Cols - X =>
               becomes(deleted(Count)) \/ becomes(blanked(Line(X, X + Count - 1)))
          /\ PrintCharacter /\ insert_mode =>
               \A i \in Cells \ {Here} :
                  screen'.cells[i] = IF i \in rest(1) THEN screen.cells[i - 1] ELSE screen.cells[i]
<1>1. ASSUME TypeInv PROVE A
  <2> SUFFICES ASSUME OnCell PROVE A
    OBVIOUS
  <2>0. screen \in Screens /\ RegionInv /\ ValuesInv
    BY <1>1 DEF TypeInv, ScreenInv, OnScreen, ParserInv
  <2>1. EraseDisplay => screen' = [screen EXCEPT !.cells = BlankedOn(DisplayPart)]
    BY <2>0, DisplayIsErased
  <2>2. EraseLine => screen' = [screen EXCEPT !.cells = BlankedOn(LinePart)]
    BY <2>0, LineIsErased
  <2>3. InsertChars /\ Count > 0 =>
          screen' = [screen EXCEPT !.cells =
                        [i \in Cells |-> IF i \in Line(X + Count, Cols - 1) THEN screen.cells[i - Count]
                                         ELSE IF i \in Line(X + 0, Cols - 1) THEN Blank ELSE screen.cells[i]]]
    BY <2>0, CharsAreInserted
  <2>4. DeleteOrEraseChars /\ Count <= Cols - X =>
           \/ screen' = [screen EXCEPT !.cells = DeletedAt(Count)]
           \/ screen' = [screen EXCEPT !.cells = ErasedAt(Count)]
    BY <2>0, CharsAreDeleted
  <2>5. PrintCharacter /\ insert_mode =>
           \A i \in Cells \ {Here} :
              screen'.cells[i] = IF i \in Line(X + 1, Cols - 1) THEN screen.cells[i - 1] ELSE screen.cells[i]
    BY <2>0, LineMakesRoom
  <2> QED
    BY <2>1, <2>2, <2>3, <2>4, <2>5, Zenon DEF BlankedOn, DeletedAt, ErasedAt
<1>2. TypeInv /\ [Next]_vars => [A]_vars
  BY <1>1
<1> QED
  BY <1>2, TypeHolds, PTL DEF Spec, CommandsAreExact

----
\* bisearch finds a code point in a sorted table exactly if an interval holds it.

Tables ==
    {t \in Seq([first : Nat, last : Nat]) :
       /\ t # <<>>
       /\ \A i \in 1 .. Len(t) : t[i].first <= t[i].last
       /\ \A i \in 1 .. Len(t) - 1 : t[i].last < t[i + 1].first}

LEMMA TableEntries ==
    ASSUME NEW t \in Tables
    PROVE  /\ Len(t) \in Nat /\ Len(t) # 0
           /\ \A i \in 1 .. Len(t) : t[i].first \in Nat /\ t[i].last \in Nat /\ t[i].first <= t[i].last
<1>1. t \in Seq([first : Nat, last : Nat]) /\ t # <<>> /\ \A i \in 1 .. Len(t) : t[i].first <= t[i].last
  BY DEF Tables
<1>2. Len(t) \in Nat /\ Len(t) # 0
  BY <1>1
<1>3. ASSUME NEW i \in 1 .. Len(t) PROVE t[i].first \in Nat /\ t[i].last \in Nat
  <2> DEFINE S == [first : Nat, last : Nat]
  <2>1. t \in Seq(S)
    BY <1>1
  <2> HIDE DEF S
  <2>2. t[i] \in S
    BY <2>1
  <2> QED
    BY <2>2 DEF S
<1> QED
  BY <1>1, <1>2, <1>3

LEMMA TableIsSorted ==
    ASSUME NEW t \in Tables, NEW i \in 1 .. Len(t), NEW j \in 1 .. Len(t), i < j
    PROVE  t[i].last < t[j].first
<1> DEFINE n == Len(t)
<1>1. /\ n \in Nat
      /\ \A k \in 1 .. n : t[k].first \in Nat /\ t[k].last \in Nat /\ t[k].first <= t[k].last
  BY TableEntries
<1>2. \A k \in 1 .. n - 1 : t[k].last < t[k + 1].first
  BY DEF Tables
<1> HIDE DEF n
<1> DEFINE P == {k \in 0 .. n - i - 1 : t[i].last < t[i + (k + 1)].first}
<1>0. i \in 1 .. n /\ j \in 1 .. n /\ i \in Nat /\ j \in Nat /\ n - i - 1 \in Nat /\ j - i - 1 \in 0 .. n - i - 1
  BY <1>1 DEF n
<1>3. 0 \in P
  <2>1. i \in 1 .. n - 1 /\ i + (0 + 1) = i + 1
    BY <1>0, <1>1
  <2>2. t[i].last < t[i + 1].first
    BY <1>2, <2>1
  <2>3. 0 \in 0 .. n - i - 1
    BY <1>0
  <2> QED
    BY <2>1, <2>2, <2>3
<1>4. ASSUME NEW k \in 0 .. n - i - 1 - 1, k \in P PROVE k + 1 \in P
  <2> DEFINE a == i + (k + 1)
  <2>1. a \in 1 .. n - 1 /\ a \in 1 .. n /\ a + 1 \in 1 .. n /\ i + ((k + 1) + 1) = a + 1 /\ k + 1 \in 0 .. n - i - 1
    BY <1>0, <1>1
  <2>2. t[i].last < t[a].first
    BY <1>4
  <2>3. t[a].last < t[a + 1].first
    BY <1>2, <2>1
  <2> HIDE DEF a
  <2>4. /\ t[i].last \in Nat /\ t[a].first \in Nat /\ t[a].last \in Nat /\ t[a + 1].first \in Nat
        /\ t[a].first <= t[a].last
    BY <1>0, <1>1, <2>1
  <2>5. t[i].last < t[a + 1].first
    BY <2>2, <2>3, <2>4
  <2> QED
    BY <2>1, <2>5
<1>5. j - i - 1 \in P
  <2> HIDE DEF P
  <2> QED
    BY <1>0, <1>3, <1>4, UpTo
<1>6. i + ((j - i - 1) + 1) = j
  BY <1>0
<1> QED
  BY <1>5, <1>6

\* Whether one of the entries lo .. hi holds the code point.
Holds(ucs, t, lo, hi) == \E i \in lo .. hi : t[i].first <= ucs /\ ucs <= t[i].last
Bounds(t) == (1 .. Len(t) + 1) \X (0 .. Len(t))
Middle(b) == (b[1] + b[2]) \div 2

\* One step of the search, given the answers s for the halves.
Step(ucs, t, s, b) ==
    /\ b[1] <= b[2]
    /\ IF ucs > t[Middle(b)].last THEN s[<<Middle(b) + 1, b[2]>>]
       ELSE IF ucs < t[Middle(b)].first THEN s[<<b[1], Middle(b) - 1>>]
       ELSE TRUE

LEMMA MiddleIsInside ==
    ASSUME NEW t \in Tables, NEW b \in Bounds(t), b[1] <= b[2]
    PROVE  /\ Middle(b) \in b[1] .. b[2] /\ Middle(b) \in 1 .. Len(t)
           /\ <<Middle(b) + 1, b[2]>> \in Bounds(t) /\ <<b[1], Middle(b) - 1>> \in Bounds(t)
<1> DEFINE n == Len(t)
           lo == b[1]
           hi == b[2]
           m == (lo + hi) \div 2
<1>1. n \in Nat /\ lo \in 1 .. n + 1 /\ hi \in 0 .. n /\ lo <= hi
  BY TableEntries DEF Bounds
<1> HIDE DEF n, lo, hi
<1>2. m \in lo .. hi /\ m \in 1 .. n /\ m + 1 \in 1 .. n + 1 /\ m - 1 \in 0 .. n
  BY <1>1
<1>3. Middle(b) = m
  BY DEF Middle, lo, hi
<1> HIDE DEF m
<1> QED
  BY <1>1, <1>2, <1>3 DEF Bounds, n, lo, hi

LEMMA StepFinds ==
    ASSUME NEW t \in Tables, NEW ucs \in Nat, NEW b \in Bounds(t), NEW s,
           b[1] <= b[2] =>
             /\ s[<<Middle(b) + 1, b[2]>>] <=> Holds(ucs, t, Middle(b) + 1, b[2])
             /\ s[<<b[1], Middle(b) - 1>>] <=> Holds(ucs, t, b[1], Middle(b) - 1)
    PROVE  Step(ucs, t, s, b) <=> Holds(ucs, t, b[1], b[2])
<1> DEFINE n == Len(t)
           lo == b[1]
           hi == b[2]
           m == Middle(b)
<1>1. /\ n \in Nat /\ lo \in 1 .. n + 1 /\ hi \in 0 .. n
      /\ \A i \in 1 .. n : t[i].first \in Nat /\ t[i].last \in Nat /\ t[i].first <= t[i].last
  BY TableEntries DEF Bounds
<1>2. \A i \in 1 .. n, j \in 1 .. n : i < j => t[i].last < t[j].first
  BY TableIsSorted
<1>3. CASE ~(lo <= hi)
  <2>1. ~Step(ucs, t, s, b)
    BY <1>3 DEF Step
  <2>2. lo .. hi = {}
    <3> HIDE DEF lo, hi, n
    <3> QED
      BY <1>1, <1>3
  <2>3. ~Holds(ucs, t, lo, hi)
    BY <2>2 DEF Holds
  <2> QED
    BY <2>1, <2>3
<1>4. CASE lo <= hi
  <2>1. m \in lo .. hi /\ m \in 1 .. n
    BY <1>4, MiddleIsInside
  <2>2. /\ s[<<m + 1, hi>>] <=> Holds(ucs, t, m + 1, hi)
        /\ s[<<lo, m - 1>>] <=> Holds(ucs, t, lo, m - 1)
    BY <1>4
  <2>3. Step(ucs, t, s, b) <=> IF ucs > t[m].last THEN s[<<m + 1, hi>>]
                               ELSE IF ucs < t[m].first THEN s[<<lo, m - 1>>] ELSE TRUE
    BY <1>4 DEF Step
  <2> HIDE DEF n, lo, hi, m
  <2>4. \A i \in lo .. hi : i \in 1 .. n
    BY <1>1
  <2>5. CASE ucs > t[m].last
    <3>1. ASSUME NEW i \in lo .. hi, t[i].first <= ucs, ucs <= t[i].last PROVE i \in m + 1 .. hi
      <4>1. i # m
        BY <1>1, <2>1, <2>5, <3>1
      <4>2. ~(i < m)
        <5> SUFFICES ASSUME i < m PROVE FALSE
          OBVIOUS
        <5>1. i \in 1 .. n /\ t[i].last < t[m].first
          BY <1>2, <2>1, <2>4
        <5>2. /\ t[i].last \in Nat /\ t[m].first \in Nat /\ t[m].last \in Nat /\ t[m].first <= t[m].last
          BY <1>1, <2>1, <5>1
        <5> QED
          BY <2>5, <3>1, <5>1, <5>2
      <4> QED
        BY <1>1, <2>1, <4>1, <4>2
    <3>2. \A i \in m + 1 .. hi : i \in lo .. hi
      BY <1>1, <2>1
    <3>3. Holds(ucs, t, lo, hi) <=> Holds(ucs, t, m + 1, hi)
      BY <3>1, <3>2 DEF Holds
    <3> QED
      BY <2>2, <2>3, <2>5, <3>3 DEF lo, hi
  <2>6. CASE ~(ucs > t[m].last) /\ ucs < t[m].first
    <3>1. ASSUME NEW i \in lo .. hi, t[i].first <= ucs, ucs <= t[i].last PROVE i \in lo .. m - 1
      <4>1. i # m
        BY <1>1, <2>1, <2>6, <3>1
      <4>2. ~(m < i)
        <5> SUFFICES ASSUME m < i PROVE FALSE
          OBVIOUS
        <5>1. i \in 1 .. n /\ t[m].last < t[i].first
          BY <1>2, <2>1, <2>4
        <5>2. /\ t[i].first \in Nat /\ t[m].first \in Nat /\ t[m].last \in Nat /\ t[m].first <= t[m].last
          BY <1>1, <2>1, <5>1
        <5> QED
          BY <2>6, <3>1, <5>1, <5>2
      <4> QED
        BY <1>1, <2>1, <4>1, <4>2
    <3>2. \A i \in lo .. m - 1 : i \in lo .. hi
      BY <1>1, <2>1
    <3>3. Holds(ucs, t, lo, hi) <=> Holds(ucs, t, lo, m - 1)
      BY <3>1, <3>2 DEF Holds
    <3> QED
      BY <2>2, <2>3, <2>6, <3>3 DEF lo, hi
  <2>7. CASE ~(ucs > t[m].last) /\ ~(ucs < t[m].first)
    <3>1. t[m].first \in Nat /\ t[m].last \in Nat
      BY <1>1, <2>1
    <3>2. t[m].first <= ucs /\ ucs <= t[m].last
      BY <2>7, <3>1
    <3>3. Holds(ucs, t, lo, hi)
      BY <2>1, <3>2 DEF Holds
    <3> QED
      BY <2>3, <2>7, <3>3 DEF lo, hi
  <2> QED
    BY <2>5, <2>6, <2>7
<1> QED
  BY <1>3, <1>4

IsSearch(s, ucs, t) == s = [b \in Bounds(t) |-> Step(ucs, t, s, b)]

LEMMA SearchExists ==
    ASSUME NEW t \in Tables, NEW ucs \in Nat
    PROVE  \E s : IsSearch(s, ucs, t)
<1> DEFINE s == [b \in Bounds(t) |-> Holds(ucs, t, b[1], b[2])]
<1>1. ASSUME NEW b \in Bounds(t) PROVE Step(ucs, t, s, b) <=> Holds(ucs, t, b[1], b[2])
  <2>1. b[1] <= b[2] =>
             /\ s[<<Middle(b) + 1, b[2]>>] <=> Holds(ucs, t, Middle(b) + 1, b[2])
             /\ s[<<b[1], Middle(b) - 1>>] <=> Holds(ucs, t, b[1], Middle(b) - 1)
    <3> SUFFICES ASSUME b[1] <= b[2]
                 PROVE  /\ s[<<Middle(b) + 1, b[2]>>] <=> Holds(ucs, t, Middle(b) + 1, b[2])
                        /\ s[<<b[1], Middle(b) - 1>>] <=> Holds(ucs, t, b[1], Middle(b) - 1)
      OBVIOUS
    <3>1. <<Middle(b) + 1, b[2]>> \in Bounds(t) /\ <<b[1], Middle(b) - 1>> \in Bounds(t)
      BY MiddleIsInside
    <3> QED
      BY <3>1
  <2> HIDE DEF s
  <2> QED
    BY <2>1, StepFinds
<1>2. ASSUME NEW b \in Bounds(t) PROVE Step(ucs, t, s, b) = Holds(ucs, t, b[1], b[2])
  <2>1. Step(ucs, t, s, b) \in BOOLEAN
    BY <1>1 DEF Step, Holds
  <2>2. Holds(ucs, t, b[1], b[2]) \in BOOLEAN
    BY DEF Holds
  <2> QED
    BY <1>1, <2>1, <2>2
<1>3. s = [b \in Bounds(t) |-> Step(ucs, t, s, b)]
  BY <1>2
<1> QED
  BY <1>3 DEF IsSearch

LEMMA SearchFinds ==
    ASSUME NEW t \in Tables, NEW ucs \in Nat, NEW s, IsSearch(s, ucs, t)
    PROVE  \A b \in Bounds(t) : s[b] <=> Holds(ucs, t, b[1], b[2])
<1> DEFINE n == Len(t)
           P == {k \in 0 .. n : \A b \in Bounds(t) : b[2] - b[1] < k => (s[b] <=> Holds(ucs, t, b[1], b[2]))}
<1>1. n \in Nat /\ \A b \in Bounds(t) : b[1] \in 1 .. n + 1 /\ b[2] \in 0 .. n
  BY TableEntries DEF Bounds
<1>2. \A b \in Bounds(t) : s[b] = Step(ucs, t, s, b)
  BY DEF IsSearch
<1>3. ASSUME NEW k \in 0 .. n, NEW b \in Bounds(t), b[2] - b[1] < k + 1,
             \A d \in Bounds(t) : d[2] - d[1] < k => (s[d] <=> Holds(ucs, t, d[1], d[2]))
      PROVE  s[b] <=> Holds(ucs, t, b[1], b[2])
  <2>1. ASSUME b[1] <= b[2]
        PROVE  /\ s[<<Middle(b) + 1, b[2]>>] <=> Holds(ucs, t, Middle(b) + 1, b[2])
               /\ s[<<b[1], Middle(b) - 1>>] <=> Holds(ucs, t, b[1], Middle(b) - 1)
    <3> DEFINE m == Middle(b)
               d1 == <<m + 1, b[2]>>
               d2 == <<b[1], m - 1>>
    <3>1. m \in b[1] .. b[2] /\ d1 \in Bounds(t) /\ d2 \in Bounds(t)
      BY <2>1, MiddleIsInside
    <3> HIDE DEF m, n
    <3>2. d1[1] = m + 1 /\ d1[2] = b[2] /\ d2[1] = b[1] /\ d2[2] = m - 1
      OBVIOUS
    <3>3. b[2] - (m + 1) < k /\ (m - 1) - b[1] < k
      BY <1>1, <1>3, <3>1
    <3>4. d1[2] - d1[1] < k /\ d2[2] - d2[1] < k
      BY <3>2, <3>3
    <3> HIDE DEF d1, d2
    <3>5. /\ s[d1] <=> Holds(ucs, t, d1[1], d1[2])
          /\ s[d2] <=> Holds(ucs, t, d2[1], d2[2])
      BY <1>3, <3>1, <3>4
    <3>6. /\ s[d1] <=> Holds(ucs, t, m + 1, b[2])
          /\ s[d2] <=> Holds(ucs, t, b[1], m - 1)
      BY <3>2, <3>5
    <3> QED
      BY <3>6 DEF d1, d2, m
  <2>2. Step(ucs, t, s, b) <=> Holds(ucs, t, b[1], b[2])
    BY <2>1, StepFinds
  <2> QED
    BY <1>2, <2>2
<1>4. 0 \in P
  <2>1. ASSUME NEW b \in Bounds(t), b[2] - b[1] < 0 PROVE s[b] <=> Holds(ucs, t, b[1], b[2])
    <3>1. ~(b[1] <= b[2])
      BY <1>1, <2>1
    <3>2. Step(ucs, t, s, b) <=> Holds(ucs, t, b[1], b[2])
      BY <3>1, StepFinds
    <3> QED
      BY <1>2, <3>2
  <2>2. 0 \in 0 .. n
    BY <1>1
  <2> HIDE DEF n
  <2> QED
    BY <2>1, <2>2
<1>5. ASSUME NEW k \in 0 .. n - 1, k \in P PROVE k + 1 \in P
  <2>1. k \in 0 .. n /\ k + 1 \in 0 .. n
    BY <1>1
  <2>2. \A d \in Bounds(t) : d[2] - d[1] < k => (s[d] <=> Holds(ucs, t, d[1], d[2]))
    BY <1>5
  <2>3. \A b \in Bounds(t) : b[2] - b[1] < k + 1 => (s[b] <=> Holds(ucs, t, b[1], b[2]))
    BY <1>3, <2>1, <2>2
  <2> QED
    BY <2>1, <2>3
<1>6. n \in P
  <2>1. n \in 0 .. n
    BY <1>1
  <2> HIDE DEF P, n
  <2> QED
    BY <1>1, <1>4, <1>5, <2>1, UpTo
<1>7. \A b \in Bounds(t) : b[2] - b[1] < n
  BY <1>1
<1> QED
  BY <1>6, <1>7

LEMMA BisearchFinds ==
    ASSUME NEW t \in Tables, NEW ucs \in Nat
    PROVE  bisearch(ucs, t) <=> Holds(ucs, t, 1, Len(t))
<1> DEFINE s == CHOOSE f : IsSearch(f, ucs, t)
           n == Len(t)
<1>1. IsSearch(s, ucs, t)
  BY SearchExists
<1>2. bisearch(ucs, t) <=> t[1].first <= ucs /\ ucs <= t[n].last /\ s[<<1, n>>]
  BY DEF bisearch, IsSearch, Bounds, Step, Middle
<1> HIDE DEF s
<1>3. /\ n \in Nat /\ n # 0
      /\ \A i \in 1 .. n : t[i].first \in Nat /\ t[i].last \in Nat /\ t[i].first <= t[i].last
  BY TableEntries
<1>4. \A i \in 1 .. n, j \in 1 .. n : i < j => t[i].last < t[j].first
  BY TableIsSorted
<1>5. <<1, n>> \in Bounds(t)
  BY <1>3 DEF Bounds
<1>6. s[<<1, n>>] <=> Holds(ucs, t, 1, n)
  <2> DEFINE b == <<1, n>>
  <2>1. b \in Bounds(t) /\ b[1] = 1 /\ b[2] = n
    BY <1>5
  <2> HIDE DEF b, n
  <2>2. s[b] <=> Holds(ucs, t, b[1], b[2])
    BY <1>1, <2>1, SearchFinds
  <2>3. s[b] <=> Holds(ucs, t, 1, n)
    BY <2>1, <2>2
  <2> QED
    BY <2>3 DEF b
<1>7. ASSUME NEW i \in 1 .. n, t[i].first <= ucs, ucs <= t[i].last
      PROVE  t[1].first <= ucs /\ ucs <= t[n].last
  <2> HIDE DEF n
  <2>1. 1 \in 1 .. n /\ n \in 1 .. n /\ i \in Nat
    BY <1>3
  <2>2. t[1].first <= ucs
    <3>1. CASE i = 1
      BY <1>7, <3>1
    <3>2. CASE 1 < i
      <4>1. t[1].last < t[i].first
        BY <1>4, <2>1, <3>2
      <4>2. /\ t[1].first \in Nat /\ t[1].last \in Nat /\ t[1].first <= t[1].last /\ t[i].first \in Nat
        BY <1>3, <2>1
      <4> QED
        BY <1>7, <4>1, <4>2
    <3> QED
      BY <2>1, <3>1, <3>2
  <2>3. ucs <= t[n].last
    <3>1. CASE i = n
      BY <1>7, <3>1
    <3>2. CASE i < n
      <4>1. t[i].last < t[n].first
        BY <1>4, <2>1, <3>2
      <4>2. /\ t[n].first \in Nat /\ t[n].last \in Nat /\ t[n].first <= t[n].last /\ t[i].last \in Nat
        BY <1>3, <2>1
      <4> QED
        BY <1>7, <4>1, <4>2
    <3> QED
      BY <1>3, <2>1, <3>1, <3>2
  <2> QED
    BY <2>2, <2>3
<1>8. Holds(ucs, t, 1, n) => t[1].first <= ucs /\ ucs <= t[n].last
  BY <1>7 DEF Holds
<1> QED
  BY <1>2, <1>6, <1>8

----
\* Widths.

LEMMA CombiningIsTable == Combining \in Tables
BY TerminalAssumption DEF TerminalAssumption, Tables

Combines(ucs) ==
    \E i \in DOMAIN Combining : ucs \in Combining[i].first .. Combining[i].last

LEMMA CombiningIsFound ==
    ASSUME NEW ucs \in Nat
    PROVE  bisearch(ucs, Combining) <=> Combines(ucs)
<1> DEFINE n == Len(Combining)
<1>1. Combining \in Tables
  BY CombiningIsTable
<1>2. DOMAIN Combining = 1 .. n
  <2>1. Combining \in Seq([first : Nat, last : Nat])
    BY TerminalAssumption DEF TerminalAssumption
  <2> QED
    BY <2>1
<1>3. \A i \in 1 .. n : Combining[i].first \in Nat /\ Combining[i].last \in Nat
  BY <1>1, TableEntries
<1>4. bisearch(ucs, Combining) <=> Holds(ucs, Combining, 1, n)
  BY <1>1, BisearchFinds
<1> HIDE DEF n
<1>5. Holds(ucs, Combining, 1, n) <=> Combines(ucs)
  BY <1>2, <1>3 DEF Holds, Combines
<1> QED
  BY <1>4, <1>5

LEMMA WidthMoves ==
    ASSUME OnScreen(screen), RegionInv, NEW ucs \in Nat
    PROVE  unicode_to_cp437(screen, ucs).x =
             IF ucs \in Cp437 THEN After(screen.x)
             ELSE IF ucs = 0 THEN screen.x
             ELSE IF ucs \in NonPrinting THEN After(screen.x)
             ELSE IF Combines(ucs) THEN screen.x
             ELSE IF ucs \in Wide THEN After(After(screen.x))
             ELSE After(screen.x)
<1>1. CASE ucs \in Cp437
  <2>1. Letter \in Marks
    BY DEF Marks
  <2>2. unicode_to_cp437(screen, ucs) = raw_putchar(screen, Letter, TRUE)
    BY <1>1 DEF unicode_to_cp437
  <2> QED
    BY <1>1, <2>1, <2>2, CharacterOnScreen
<1>2. CASE ucs \notin Cp437
  <2> DEFINE m == mk_wcwidth(ucs)
  <2>1. unicode_to_cp437(screen, ucs) = Boxes(screen, m)
    BY <1>2 DEF unicode_to_cp437, Boxes
  <2>2. m = IF ucs = 0 THEN 0 ELSE IF ucs \in NonPrinting THEN 1
            ELSE IF Combines(ucs) THEN 0 ELSE IF ucs \in Wide THEN 2 ELSE 1
    BY CombiningIsFound DEF mk_wcwidth
  <2>3. m \in {0, 1, 2}
    BY WidthIsSmall
  <2> HIDE DEF m
  <2>4. Boxes(screen, m).x = IF m = 0 THEN screen.x ELSE IF m = 1 THEN After(screen.x)
                             ELSE After(After(screen.x))
    BY <2>3, BoxesOnScreen
  <2> QED
    BY <1>2, <2>1, <2>2, <2>4
<1> QED
  BY <1>1, <1>2

(* Whatever the table of combining characters, as long as it is sorted: the search finds the     *)
(* intervals and only them, and every code point moves the cursor by its width (flanterm.c:      *)
(* bisearch, mk_wcwidth and the end of a character in flanterm_putchar).                         *)
THEOREM WidthsAreTaken == Spec => CharacterTakesItsWidth
<1> DEFINE A ==
      \A bits \in 0 .. Base - 1 :
          LET ucs == code_point + bits
              combines == \E i \in DOMAIN Combining :
                            ucs \in Combining[i].first .. Combining[i].last
              next(x) == IF x = Cols THEN 1 ELSE x + 1
          IN  UnicodeContinues /\ unicode_remaining = 1
              /\ screen' = unicode_to_cp437(screen, ucs)
              => screen'.x = IF ucs \in Cp437 THEN next(screen.x)
                             ELSE IF ucs = 0 THEN screen.x
                             ELSE IF ucs \in NonPrinting THEN next(screen.x)
                             ELSE IF combines THEN screen.x
                             ELSE IF ucs \in Wide THEN next(next(screen.x))
                             ELSE next(screen.x)
<1>1. ASSUME TypeInv PROVE A
  <2>1. OnScreen(screen) /\ RegionInv /\ code_point \in Nat
    BY <1>1 DEF TypeInv, ScreenInv, NumberInv
  <2>2. ASSUME NEW bits \in 0 .. Base - 1 PROVE code_point + bits \in Nat
    <3>1. Base \in Nat
      BY TerminalAssumption DEF TerminalAssumption
    <3> QED
      BY <2>1, <3>1
  <2> QED
    BY <2>1, <2>2, WidthMoves DEF After, Combines
<1>2. TypeInv /\ [Next]_vars => [A]_vars
  BY <1>1
<1> QED
  BY <1>2, TypeHolds, PTL DEF Spec, CharacterTakesItsWidth

(* The flags of the parser describe one state, and nothing of a sequence outlives it, whichever  *)
(* of the ways of ending it is taken.                                                            *)
THEOREM OneState == Spec => []OneStateAtATime
<1>1. ParserInv => OneStateAtATime
  BY DEF ParserInv
<1> QED
  BY <1>1, ParserHolds, PTL

(* However many numbers a control sequence has, esc_values is not written beyond its end         *)
(* (flanterm.c: the tests of esc_values_i against FLANTERM_MAX_ESC_VALUES).                      *)
THEOREM ValuesFit == Spec => [](Len(esc_values) <= MaxValues)
<1>1. ParserInv => Len(esc_values) <= MaxValues
  BY DEF ParserInv, ValuesInv
<1> QED
  BY <1>1, ParserHolds, PTL

(* No sequence of commands leaves a scroll region of fewer than two rows or one that is not on   *)
(* the screen: scroll and revscroll rely on it.                                                  *)
THEOREM RegionIsOnScreen ==
    Spec => [](0 <= scroll_top_margin /\ scroll_top_margin + 2 <= scroll_bottom_margin
               /\ scroll_bottom_margin <= Rows)
<1>1. RegionInv => /\ 0 <= scroll_top_margin /\ scroll_top_margin + 2 <= scroll_bottom_margin
                   /\ scroll_bottom_margin <= Rows
  BY TerminalAssumption DEF RegionInv, TerminalAssumption
<1> QED
  BY <1>1, RegionHolds, PTL

----
(***************************************************************************)
(* Colours: for all attributes and all codes, first one code, then         *)
(* sequences of them.                                                      *)
(***************************************************************************)
Colour == {"ansi", "bright", "rgb", "default_fg", "default_bg", "default_fg_bright",
           "default_bg_bright"} \X Int
Attributes == [bold : BOOLEAN, bg_bold : BOOLEAN, reverse_video : BOOLEAN,
               current_primary : Nat \cup {None}, current_bg : Nat \cup {None},
               text_fg : Colour, text_bg : Colour]

OfInk == {1, 22, 39} \cup (30 .. 37) \cup (90 .. 97)
OfPaper == {5, 25, 49} \cup (40 .. 47) \cup (100 .. 107)
OfIntensity == {1, 5, 22, 25}

\* The codes one by one, and which setter each calls.

LEMMA Codes ==
    ASSUME NEW a, NEW v \in Nat
    PROVE  /\ v = 0 => Apply(a, v) = Plain
           /\ v \in {1, 22} => \E on \in BOOLEAN : Apply(a, v) = Intensity(a, TRUE, on)
           /\ v \in {5, 25} => \E on \in BOOLEAN : Apply(a, v) = Intensity(a, FALSE, on)
           /\ v \in 30 .. 37 => \E k \in Nat : Apply(a, v) = SetColour(a, TRUE, FALSE, k)
           /\ v \in 40 .. 47 => \E k \in Nat : Apply(a, v) = SetColour(a, FALSE, FALSE, k)
           /\ v \in 90 .. 97 => \E k \in Nat : Apply(a, v) = SetColour(a, TRUE, TRUE, k)
           /\ v \in 100 .. 107 => \E k \in Nat : Apply(a, v) = SetColour(a, FALSE, TRUE, k)
           /\ v \in {39, 49} => \E fg \in BOOLEAN : (fg <=> v = 39) /\ Apply(a, v) = SetDefault(a, fg)
           /\ v \in {7, 27} => \E on \in BOOLEAN : Apply(a, v) = Turned(a, on)
           /\ v \notin {0} \cup OfInk \cup OfPaper \cup {7, 27} => Apply(a, v) = a
<1>1. ASSUME v = 0 PROVE Apply(a, v) = Plain
  <2>1. /\ v \notin {1, 22} /\ v \notin {5, 25} /\ v \notin 30 .. 37 /\ v \notin 40 .. 47 /\ v \notin 90 .. 97
        /\ v \notin 100 .. 107 /\ v \notin {39, 49} /\ v \notin {7, 27}
    BY <1>1
  <2> QED
    BY <1>1, <2>1 DEF Apply, Reset
<1>2. ASSUME v \in {1, 22} PROVE \E on \in BOOLEAN : Apply(a, v) = Intensity(a, TRUE, on)
  <2>1. /\ v # 0 /\ v \notin {5, 25} /\ v \notin 30 .. 37 /\ v \notin 40 .. 47 /\ v \notin 90 .. 97
        /\ v \notin 100 .. 107 /\ v \notin {39, 49} /\ v \notin {7, 27}
    BY <1>2
  <2>2. Apply(a, v) = Intensity(a, TRUE, v = 1)
    BY <1>2, <2>1 DEF Apply
  <2> QED
    BY <2>2, Zenon
<1>3. ASSUME v \in {5, 25} PROVE \E on \in BOOLEAN : Apply(a, v) = Intensity(a, FALSE, on)
  <2>1. /\ v # 0 /\ v \notin {1, 22} /\ v \notin 30 .. 37 /\ v \notin 40 .. 47 /\ v \notin 90 .. 97
        /\ v \notin 100 .. 107 /\ v \notin {39, 49} /\ v \notin {7, 27}
    BY <1>3
  <2>2. Apply(a, v) = Intensity(a, FALSE, v = 5)
    BY <1>3, <2>1 DEF Apply
  <2> QED
    BY <2>2, Zenon
<1>4. ASSUME v \in 30 .. 37 PROVE \E k \in Nat : Apply(a, v) = SetColour(a, TRUE, FALSE, k)
  <2>1. /\ v # 0 /\ v \notin {1, 22} /\ v \notin {5, 25} /\ v \notin 40 .. 47 /\ v \notin 90 .. 97
        /\ v \notin 100 .. 107 /\ v \notin {39, 49} /\ v \notin {7, 27}
    BY <1>4
  <2>2. Apply(a, v) = SetColour(a, TRUE, FALSE, v - 30)
    BY <1>4, <2>1 DEF Apply
  <2>3. v - 30 \in Nat
    BY <1>4
  <2> QED
    BY <2>2, <2>3
<1>5. ASSUME v \in 40 .. 47 PROVE \E k \in Nat : Apply(a, v) = SetColour(a, FALSE, FALSE, k)
  <2>1. /\ v # 0 /\ v \notin {1, 22} /\ v \notin {5, 25} /\ v \notin 30 .. 37 /\ v \notin 90 .. 97
        /\ v \notin 100 .. 107 /\ v \notin {39, 49} /\ v \notin {7, 27}
    BY <1>5
  <2>2. Apply(a, v) = SetColour(a, FALSE, FALSE, v - 40)
    BY <1>5, <2>1 DEF Apply
  <2>3. v - 40 \in Nat
    BY <1>5
  <2> QED
    BY <2>2, <2>3
<1>6. ASSUME v \in 90 .. 97 PROVE \E k \in Nat : Apply(a, v) = SetColour(a, TRUE, TRUE, k)
  <2>1. /\ v # 0 /\ v \notin {1, 22} /\ v \notin {5, 25} /\ v \notin 30 .. 37 /\ v \notin 40 .. 47
        /\ v \notin 100 .. 107 /\ v \notin {39, 49} /\ v \notin {7, 27}
    BY <1>6
  <2>2. Apply(a, v) = SetColour(a, TRUE, TRUE, v - 90)
    BY <1>6, <2>1 DEF Apply
  <2>3. v - 90 \in Nat
    BY <1>6
  <2> QED
    BY <2>2, <2>3
<1>7. ASSUME v \in 100 .. 107 PROVE \E k \in Nat : Apply(a, v) = SetColour(a, FALSE, TRUE, k)
  <2>1. /\ v # 0 /\ v \notin {1, 22} /\ v \notin {5, 25} /\ v \notin 30 .. 37 /\ v \notin 40 .. 47
        /\ v \notin 90 .. 97 /\ v \notin {39, 49} /\ v \notin {7, 27}
    BY <1>7
  <2>2. Apply(a, v) = SetColour(a, FALSE, TRUE, v - 100)
    BY <1>7, <2>1 DEF Apply
  <2>3. v - 100 \in Nat
    BY <1>7
  <2> QED
    BY <2>2, <2>3
<1>8. ASSUME v \in {39, 49} PROVE \E fg \in BOOLEAN : (fg <=> v = 39) /\ Apply(a, v) = SetDefault(a, fg)
  <2>1. /\ v # 0 /\ v \notin {1, 22} /\ v \notin {5, 25} /\ v \notin 30 .. 37 /\ v \notin 40 .. 47
        /\ v \notin 90 .. 97 /\ v \notin 100 .. 107 /\ v \notin {7, 27}
    BY <1>8
  <2>2. Apply(a, v) = SetDefault(a, v = 39)
    BY <1>8, <2>1 DEF Apply
  <2> QED
    BY <2>2, Zenon
<1>9. ASSUME v \in {7, 27} PROVE \E on \in BOOLEAN : Apply(a, v) = Turned(a, on)
  <2>1. /\ v # 0 /\ v \notin {1, 22} /\ v \notin {5, 25} /\ v \notin 30 .. 37 /\ v \notin 40 .. 47
        /\ v \notin 90 .. 97 /\ v \notin 100 .. 107 /\ v \notin {39, 49}
    BY <1>9
  <2>2. Apply(a, v) = Turned(a, v = 7)
    BY <1>9, <2>1 DEF Apply
  <2> QED
    BY <2>2, Zenon
<1>10. ASSUME v \notin {0} \cup OfInk \cup OfPaper \cup {7, 27} PROVE Apply(a, v) = a
  <2>1. /\ v # 0 /\ v \notin {1, 22} /\ v \notin {5, 25} /\ v \notin 30 .. 37 /\ v \notin 40 .. 47
        /\ v \notin 90 .. 97 /\ v \notin 100 .. 107 /\ v \notin {39, 49} /\ v \notin {7, 27}
    BY <1>10 DEF OfInk, OfPaper
  <2> QED
    BY <2>1 DEF Apply
<1> QED
  BY <1>1, <1>2, <1>3, <1>4, <1>5, <1>6, <1>7, <1>8, <1>9, <1>10

LEMMA PlainAgrees == Agrees(Plain)
BY DEF Agrees, Ink, Paper, Inks, Papers, Plain

LEMMA IntensityKeeps ==
    ASSUME NEW a \in Attributes, NEW fg \in BOOLEAN, NEW on \in BOOLEAN
    PROVE  /\ fg => Paper(Intensity(a, fg, on)) = Paper(a)
           /\ ~fg => Ink(Intensity(a, fg, on)) = Ink(a)
           /\ ~a.reverse_video /\ Agrees(a) => Agrees(Intensity(a, fg, on))
<1>1. CASE fg = TRUE
  BY <1>1 DEF Intensity, Attributes, Paper, Ink, Agrees, Inks, Papers
<1>2. CASE fg = FALSE
  BY <1>2 DEF Intensity, Attributes, Paper, Ink, Agrees, Inks, Papers
<1> QED
  BY <1>1, <1>2

LEMMA SetColourKeeps ==
    ASSUME NEW a \in Attributes, NEW fg \in BOOLEAN, NEW bright \in BOOLEAN, NEW k \in Nat
    PROVE  /\ fg => Paper(SetColour(a, fg, bright, k)) = Paper(a)
           /\ ~fg => Ink(SetColour(a, fg, bright, k)) = Ink(a)
           /\ Agrees(a) => Agrees(SetColour(a, fg, bright, k))
<1> DEFINE s == SetColour(a, fg, bright, k)
<1>0. k # None
  BY DEF None
<1>1. CASE fg = TRUE
  <2>1. /\ s.reverse_video = a.reverse_video /\ s.bold = a.bold /\ s.bg_bold = a.bg_bold
        /\ s.current_primary = k /\ s.current_bg = a.current_bg
    BY <1>1 DEF SetColour, Attributes
  <2>2. Paper(s) = Paper(a) /\ Ink(s) = (IF bright \/ a.bold THEN Bright(k) ELSE Ansi(k))
    BY <1>1 DEF SetColour, Attributes, Paper, Ink
  <2> HIDE DEF s
  <2>3. Papers(s) = Papers(a) /\ Ink(s) \in Inks(s)
    BY <1>0, <2>1, <2>2 DEF Inks, Papers
  <2> QED
    BY <1>1, <2>2, <2>3 DEF Agrees, s
<1>2. CASE fg = FALSE
  <2>1. /\ s.reverse_video = a.reverse_video /\ s.bold = a.bold /\ s.bg_bold = a.bg_bold
        /\ s.current_primary = a.current_primary /\ s.current_bg = k
    BY <1>2 DEF SetColour, Attributes
  <2>2. Ink(s) = Ink(a) /\ Paper(s) = (IF bright \/ a.bg_bold THEN Bright(k) ELSE Ansi(k))
    BY <1>2 DEF SetColour, Attributes, Paper, Ink
  <2> HIDE DEF s
  <2>3. Inks(s) = Inks(a) /\ Paper(s) \in Papers(s)
    BY <1>0, <2>1, <2>2 DEF Inks, Papers
  <2> QED
    BY <1>2, <2>2, <2>3 DEF Agrees, s
<1> QED
  BY <1>1, <1>2

LEMMA SetDefaultKeeps ==
    ASSUME NEW a \in Attributes, NEW fg \in BOOLEAN
    PROVE  /\ fg => Paper(SetDefault(a, fg)) = Paper(a)
           /\ ~fg => Ink(SetDefault(a, fg)) = Ink(a)
           /\ Agrees(a) => Agrees(SetDefault(a, fg))
<1>1. CASE fg = TRUE
  BY <1>1 DEF SetDefault, swap_palette, Attributes, Paper, Ink, Agrees, Inks, Papers, None
<1>2. CASE fg = FALSE
  BY <1>2 DEF SetDefault, swap_palette, Attributes, Paper, Ink, Agrees, Inks, Papers, None
<1> QED
  BY <1>1, <1>2

LEMMA TurnedKeeps ==
    ASSUME NEW a \in Attributes, NEW on \in BOOLEAN
    PROVE  /\ Paper(Turned(a, on)) = Paper(a) /\ Ink(Turned(a, on)) = Ink(a)
           /\ Agrees(a) => Agrees(Turned(a, on))
BY DEF Turned, swap_palette, Attributes, Paper, Ink, Agrees, Inks, Papers

(* A code keeps the colours in step with the attributes, in reverse video too, except that there  *)
(* an intensity code may not; and code 0 brings them in step from anywhere (sgr).                 *)
THEOREM CodeKeepsColoursInStep ==
    ASSUME NEW a \in Attributes, NEW v \in Nat
    PROVE  /\ Agrees(a) /\ (~a.reverse_video \/ v \notin OfIntensity) => Agrees(Apply(a, v))
           /\ Agrees(Apply(a, 0))
<1>1. Apply(a, 0) = Plain
  BY DEF Apply, Reset
<1>2. ASSUME Agrees(a), ~a.reverse_video \/ v \notin OfIntensity PROVE Agrees(Apply(a, v))
  <2>1. CASE v = 0
    BY <1>1, <2>1, PlainAgrees
  <2>2. CASE v \in OfIntensity
    <3>1. \E fg, on \in BOOLEAN : Apply(a, v) = Intensity(a, fg, on)
      BY <2>2, Codes DEF OfIntensity
    <3> QED
      BY <1>2, <2>2, <3>1, IntensityKeeps
  <2>3. CASE v \in (30 .. 37) \cup (40 .. 47) \cup (90 .. 97) \cup (100 .. 107)
    <3>1. \E fg, bright \in BOOLEAN : \E k \in Nat : Apply(a, v) = SetColour(a, fg, bright, k)
      BY <2>3, Codes
    <3> QED
      BY <1>2, <3>1, SetColourKeeps
  <2>4. CASE v \in {39, 49}
    <3>1. PICK fg \in BOOLEAN : (fg <=> v = 39) /\ Apply(a, v) = SetDefault(a, fg)
      BY <2>4, Codes, Zenon
    <3> QED
      BY <1>2, <3>1, SetDefaultKeeps
  <2>5. CASE v \in {7, 27}
    <3>1. PICK on \in BOOLEAN : Apply(a, v) = Turned(a, on)
      BY <2>5, Codes, Zenon
    <3> QED
      BY <1>2, <3>1, TurnedKeeps
  <2>6. CASE v \notin {0} \cup OfInk \cup OfPaper \cup {7, 27}
    BY <1>2, <2>6, Codes
  <2> QED
    BY <2>1, <2>2, <2>3, <2>4, <2>5, <2>6 DEF OfInk, OfPaper, OfIntensity
<1> QED
  BY <1>1, <1>2, PlainAgrees

(* A code for the strokes leaves the colour of the ground, one for the ground that of the         *)
(* strokes, and reverse video both, whatever is set (sgr).                                        *)
THEOREM CodeKeepsTheOther ==
    ASSUME NEW a \in Attributes, NEW v \in Nat
    PROVE  /\ v \in OfInk \cup {7, 27} => Paper(Apply(a, v)) = Paper(a)
           /\ v \in OfPaper \cup {7, 27} => Ink(Apply(a, v)) = Ink(a)
<1>1. CASE v \in {7, 27}
  <2>1. PICK on \in BOOLEAN : Apply(a, v) = Turned(a, on)
    BY <1>1, Codes, Zenon
  <2> QED
    BY <2>1, TurnedKeeps
<1>2. ASSUME v \in OfInk PROVE Paper(Apply(a, v)) = Paper(a)
  <2>1. CASE v \in {1, 22}
    <3>1. PICK on \in BOOLEAN : Apply(a, v) = Intensity(a, TRUE, on)
      BY <2>1, Codes, Zenon
    <3> QED
      BY <3>1, IntensityKeeps, Zenon
  <2>2. CASE v = 39
    <3>1. PICK fg \in BOOLEAN : (fg <=> v = 39) /\ Apply(a, v) = SetDefault(a, fg)
      BY <2>2, Codes, Zenon
    <3> QED
      BY <2>2, <3>1, SetDefaultKeeps, Zenon
  <2>3. CASE v \in (30 .. 37) \cup (90 .. 97)
    <3>1. PICK bright \in BOOLEAN, k \in Nat : Apply(a, v) = SetColour(a, TRUE, bright, k)
      BY <2>3, Codes
    <3>2. Paper(SetColour(a, TRUE, bright, k)) = Paper(a)
      BY SetColourKeeps, Zenon
    <3> QED
      BY <3>1, <3>2
  <2> QED
    BY <1>2, <2>1, <2>2, <2>3 DEF OfInk
<1>3. ASSUME v \in OfPaper PROVE Ink(Apply(a, v)) = Ink(a)
  <2>1. CASE v \in {5, 25}
    <3>1. PICK on \in BOOLEAN : Apply(a, v) = Intensity(a, FALSE, on)
      BY <2>1, Codes, Zenon
    <3> QED
      BY <3>1, IntensityKeeps, Zenon
  <2>2. CASE v = 49
    <3>1. PICK fg \in BOOLEAN : (fg <=> v = 39) /\ Apply(a, v) = SetDefault(a, fg)
      BY <2>2, Codes, Zenon
    <3>2. ~fg
      BY <2>2, <3>1
    <3> QED
      BY <3>1, <3>2, SetDefaultKeeps, Zenon
  <2>3. CASE v \in (40 .. 47) \cup (100 .. 107)
    <3>1. PICK bright \in BOOLEAN, k \in Nat : Apply(a, v) = SetColour(a, FALSE, bright, k)
      BY <2>3, Codes
    <3>2. Ink(SetColour(a, FALSE, bright, k)) = Ink(a)
      BY SetColourKeeps, Zenon
    <3> QED
      BY <3>1, <3>2
  <2> QED
    BY <1>3, <2>1, <2>2, <2>3 DEF OfPaper
<1>4. v \in OfInk => v \notin {7, 27}
  BY DEF OfInk
<1> QED
  BY <1>1, <1>2, <1>3
----
\* A sequence of codes, one value after the other.

LEMMA ColourTypes ==
    /\ \A k \in Int : Ansi(k) \in Colour /\ Bright(k) \in Colour /\ RGB(k) \in Colour
    /\ DefaultFg \in Colour /\ DefaultBg \in Colour
    /\ DefaultFgBright \in Colour /\ DefaultBgBright \in Colour
BY DEF Colour, Bright, Ansi, RGB, DefaultFg, DefaultFgBright, DefaultBg, DefaultBgBright

LEMMA CodeTypes ==
    ASSUME NEW a \in Attributes, NEW v \in Nat
    PROVE  Apply(a, v) \in Attributes
<1>1. ASSUME NEW fg \in BOOLEAN, NEW on \in BOOLEAN PROVE Intensity(a, fg, on) \in Attributes
  BY DEF Intensity, Attributes, Colour, Bright, Ansi, DefaultFg, DefaultFgBright, DefaultBg,
         DefaultBgBright, None
<1>2. ASSUME NEW fg \in BOOLEAN, NEW bright \in BOOLEAN, NEW k \in Nat
      PROVE  SetColour(a, fg, bright, k) \in Attributes
  <2> DEFINE c == IF bright \/ (IF fg THEN a.bold ELSE a.bg_bold) THEN Bright(k) ELSE Ansi(k)
  <2>1. c \in Colour
    BY ColourTypes
  <2>2. SetColour(a, fg, bright, k) =
          LET chosen == IF fg THEN [a EXCEPT !.current_primary = k] ELSE [a EXCEPT !.current_bg = k]
          IN  IF fg # a.reverse_video THEN [chosen EXCEPT !.text_fg = c] ELSE [chosen EXCEPT !.text_bg = c]
    BY DEF SetColour
  <2> HIDE DEF c
  <2> QED
    BY <2>1, <2>2 DEF Attributes
<1>3. ASSUME NEW fg \in BOOLEAN PROVE SetDefault(a, fg) \in Attributes
  <2> DEFINE turned(s) == IF s.reverse_video THEN swap_palette(s) ELSE s
             set(b) == IF fg
                       THEN [b EXCEPT !.current_primary = None,
                                      !.text_fg = IF b.bold THEN DefaultFgBright ELSE DefaultFg]
                       ELSE [b EXCEPT !.current_bg = None,
                                      !.text_bg = IF b.bg_bold THEN DefaultBgBright ELSE DefaultBg]
  <2>1. \A s \in Attributes : turned(s) \in Attributes
    BY DEF swap_palette, Attributes
  <2>2. \A s \in Attributes : set(s) \in Attributes
    BY ColourTypes DEF Attributes
  <2>3. SetDefault(a, fg) = turned(set(turned(a)))
    BY DEF SetDefault
  <2> HIDE DEF turned, set
  <2> QED
    BY <2>1, <2>2, <2>3
<1>4. ASSUME NEW on \in BOOLEAN PROVE Turned(a, on) \in Attributes
  BY DEF Turned, swap_palette, Attributes
<1>5. Plain \in Attributes
  BY DEF Plain, Attributes, Colour, DefaultFg, DefaultBg
<1>6. CASE v = 0
  BY <1>5, <1>6, Codes
<1>7. CASE v \in {1, 22} \cup {5, 25}
  <2>1. \E fg, on \in BOOLEAN : Apply(a, v) = Intensity(a, fg, on)
    BY <1>7, Codes
  <2> QED
    BY <1>1, <2>1
<1>8. CASE v \in (30 .. 37) \cup (40 .. 47) \cup (90 .. 97) \cup (100 .. 107)
  <2>1. \E fg, bright \in BOOLEAN : \E k \in Nat : Apply(a, v) = SetColour(a, fg, bright, k)
    BY <1>8, Codes
  <2> QED
    BY <1>2, <2>1
<1>9. CASE v \in {39, 49}
  <2>1. PICK fg \in BOOLEAN : (fg <=> v = 39) /\ Apply(a, v) = SetDefault(a, fg)
    BY <1>9, Codes, Zenon
  <2> QED
    BY <1>3, <2>1
<1>10. CASE v \in {7, 27}
  <2>1. PICK on \in BOOLEAN : Apply(a, v) = Turned(a, on)
    BY <1>10, Codes, Zenon
  <2> QED
    BY <1>4, <2>1
<1>11. CASE v \notin {0} \cup OfInk \cup OfPaper \cup {7, 27}
  BY <1>11, Codes
<1> QED
  BY <1>6, <1>7, <1>8, <1>9, <1>10, <1>11 DEF OfInk, OfPaper

SgrStates == [a : Attributes, group : Seq(Nat)]

LEMMA ChosenTypes ==
    ASSUME NEW g \in Seq(Nat), Complete(g)
    PROVE  Chosen(g) \in Colour
<1>1. CASE g[2] = 5
  <2>1. g[3] \in Nat
    <3>1. Len(g) = 3
      BY <1>1 DEF Complete
    <3> QED
      BY <3>1
  <2> QED
    BY <1>1, <2>1, ColourTypes DEF Chosen, Indexed, Col256
<1>2. CASE g[2] # 5
  <2>1. Len(g) = 5 /\ \A i \in 1 .. Len(g) : g[i] \in Nat
    BY <1>2 DEF Complete
  <2>2. g[3] \in Nat
    BY <2>1
  <2>3. g[4] \in Nat
    BY <2>1
  <2>4. g[5] \in Nat
    BY <2>1
  <2> DEFINE red == g[3]
             green == g[4]
             blue == g[5]
  <2>5. red \in Nat /\ green \in Nat /\ blue \in Nat /\ Chosen(g) = RGB(65536 * red + 256 * green + blue)
    BY <1>2, <2>2, <2>3, <2>4 DEF Chosen
  <2> HIDE DEF red, green, blue
  <2>6. 65536 * red + 256 * green + blue \in Int
    BY <2>5
  <2> QED
    BY <2>5, <2>6, ColourTypes
<1> QED
  BY <1>1, <1>2

LEMMA ValueTypes ==
    ASSUME NEW s \in SgrStates, NEW v \in Nat
    PROVE  Taken(s, v) \in SgrStates
<1> DEFINE g == Append(s.group, v)
<1>1. s.a \in Attributes /\ s.group \in Seq(Nat) /\ s = [a |-> s.a, group |-> s.group]
  BY DEF SgrStates
<1>2. g \in Seq(Nat) /\ <<>> \in Seq(Nat) /\ Apply(s.a, v) \in Attributes
  BY <1>1, CodeTypes
<1>3. Complete(g) => \A fg \in BOOLEAN : SetRgb(s.a, fg, Chosen(g)) \in Attributes
  <2> SUFFICES ASSUME Complete(g), NEW fg \in BOOLEAN
               PROVE  SetRgb(s.a, fg, Chosen(g)) \in Attributes
    OBVIOUS
  <2>1. Chosen(g) \in Colour
    <3> HIDE DEF g
    <3> QED
      BY <1>2, ChosenTypes
  <2> QED
    BY <1>1, <2>1 DEF SetRgb, Attributes
<1>4. \/ Taken(s, v) = [s EXCEPT !.group = g]
      \/ Taken(s, v) = [s EXCEPT !.a = Apply(@, v)]
      \/ Taken(s, v) = [s EXCEPT !.group = <<>>]
      \/ /\ Complete(g)
         /\ Taken(s, v) = [a |-> SetRgb(s.a, g[1] = 38, Chosen(g)), group |-> <<>>]
  BY DEF Taken
<1> HIDE DEF g
<1>5. Complete(g) => SetRgb(s.a, g[1] = 38, Chosen(g)) \in Attributes
  BY <1>3, Zenon
<1>6. \A r \in Attributes, q \in Seq(Nat) : [a |-> r, group |-> q] \in SgrStates
  BY DEF SgrStates
<1>7. /\ [s EXCEPT !.group = g] = [a |-> s.a, group |-> g]
      /\ [s EXCEPT !.a = Apply(@, v)] = [a |-> Apply(s.a, v), group |-> s.group]
      /\ [s EXCEPT !.group = <<>>] = [a |-> s.a, group |-> <<>>]
  BY <1>1
<1>8. CASE Complete(g) /\ Taken(s, v) = [a |-> SetRgb(s.a, g[1] = 38, Chosen(g)), group |-> <<>>]
  <2> DEFINE r == SetRgb(s.a, g[1] = 38, Chosen(g))
  <2>1. r \in Attributes /\ Taken(s, v) = [a |-> r, group |-> <<>>]
    BY <1>5, <1>8
  <2> HIDE DEF r
  <2> QED
    BY <1>2, <1>6, <2>1
<1>9. CASE Taken(s, v) = [s EXCEPT !.group = g]
  <2>1. [a |-> s.a, group |-> g] \in SgrStates
    BY <1>1, <1>2, <1>6
  <2> QED
    BY <1>7, <1>9, <2>1
<1>10. CASE Taken(s, v) = [s EXCEPT !.a = Apply(@, v)]
  <2>1. [a |-> Apply(s.a, v), group |-> s.group] \in SgrStates
    BY <1>1, <1>2, <1>6
  <2> QED
    BY <1>7, <1>10, <2>1
<1>11. CASE Taken(s, v) = [s EXCEPT !.group = <<>>]
  <2>1. [a |-> s.a, group |-> <<>>] \in SgrStates
    BY <1>1, <1>2, <1>6
  <2> QED
    BY <1>7, <1>11, <2>1
<1> QED
  BY <1>4, <1>8, <1>9, <1>10, <1>11

\* The attributes after each value of v.
SgrRun(h, s, v) ==
    /\ h \in [0 .. Len(v) -> SgrStates] /\ h[0] = s /\ h[Len(v)] = FoldLeft(Taken, s, v)
    /\ \A k \in 1 .. Len(v) : h[k] = Taken(h[k - 1], v[k])

LEMMA SgrsRun ==
    ASSUME NEW s \in SgrStates, NEW v \in Seq(Nat)
    PROVE  \E h : SgrRun(h, s, v)
<1> DEFINE n == Len(v)
           D == 1 .. n
           sq == v
           F == [p \in SgrStates \X D |-> Taken(p[1], sq[p[2]])]
           E(g) == [t \in SUBSET D |->
                      IF t = {} THEN s
                      ELSE Taken(g[t \ {Max(t)}], sq[Max(t)])]
           it == CHOOSE g : g = E(g)
           h == [k \in 0 .. n |-> it[1 .. k]]
<1>0. n \in Nat /\ DOMAIN sq = D /\ s \in SgrStates /\ \A k \in D : sq[k] = v[k]
  OBVIOUS
<1>b. n \in Nat
  BY <1>0
<1>a. FoldLeft(Taken, s, v) = it[D]
  BY <1>0 DEF FoldLeft, MapThenFoldSet
<1> HIDE DEF n, sq
<1>1. ASSUME NEW a \in SgrStates, NEW k \in D PROVE Taken(a, sq[k]) \in SgrStates
  <2>1. sq[k] \in Nat
    BY DEF sq, n
  <2> QED
    BY <2>1, ValueTypes
<1>2. /\ F \in [SgrStates \X D -> SgrStates]
      /\ \A a \in SgrStates, k \in D : F[a, k] = Taken(a, sq[k])
  BY <1>1
<1> HIDE DEF F
<1>4. it = E(it)
  <2>1. PICK g : IsFold(g, SgrStates, n, F, s)
    BY <1>0, <1>2, FoldExists
  <2>2. ASSUME NEW t \in SUBSET D
        PROVE  g[t] = IF t = {} THEN s ELSE Taken(g[t \ {Max(t)}], sq[Max(t)])
    <3>1. t # {} => Max(t) \in D
      BY <1>0, MaxIsMember
    <3> QED
      BY <1>2, <2>1, <3>1 DEF IsFold
  <2>3. g = E(g)
    BY <2>1, <2>2 DEF IsFold
  <2> QED
    BY <2>3
<1> HIDE DEF it
<1>5. \A t \in SUBSET D : it[t] = IF t = {} THEN s
                                  ELSE Taken(it[t \ {Max(t)}], sq[Max(t)])
  BY <1>4
<1>6. h[0] = s /\ h[n] = FoldLeft(Taken, s, v)
  <2>1. 1 .. 0 = {} /\ 0 \in 0 .. n /\ n \in 0 .. n
    BY <1>0
  <2>2. it[{}] = s
    BY <1>5
  <2> QED
    BY <1>a, <2>1, <2>2
<1>7. ASSUME NEW k \in D PROVE h[k] = Taken(h[k - 1], sq[k])
  <2>1. 1 .. k \in SUBSET D /\ 1 .. k # {} /\ k \in 0 .. n /\ k - 1 \in 0 .. n /\ k \in Nat /\ k # 0
    BY <1>b, FirstElements
  <2>2. Max(1 .. k) = k /\ (1 .. k) \ {k} = 1 .. k - 1
    BY <2>1, LastOfInitial
  <2>3. it[1 .. k] = Taken(it[(1 .. k) \ {Max(1 .. k)}], sq[Max(1 .. k)])
    BY <1>5, <2>1
  <2>4. h[k] = it[1 .. k] /\ h[k - 1] = it[1 .. k - 1]
    BY <2>1
  <2> QED
    BY <2>2, <2>3, <2>4
<1>8. h = [k \in 0 .. n |-> h[k]]
  OBVIOUS
<1> HIDE DEF h
<1>9. \A k \in 0 .. n : h[k] \in SgrStates
  <2>1. \A k \in 1 .. n : h[k - 1] \in SgrStates => h[k] \in SgrStates
    BY <1>1, <1>7
  <2> QED
    BY <1>0, <1>6, <2>1, StaysIn
<1>10. ASSUME NEW k \in D PROVE h[k] = Taken(h[k - 1], v[k])
  <2>1. sq[k] = v[k]
    BY <1>0
  <2> QED
    BY <1>7, <2>1
<1> QED
  BY <1>0, <1>6, <1>8, <1>9, <1>10 DEF SgrRun, n

\* Whatever the order in which they come: a sequence without colours by number is a run of codes.
LEMMA CodesOneByOne ==
    ASSUME NEW s \in SgrStates, NEW v \in Seq(Nat), Values(v) \cap {38, 48} = {}, s.group = <<>>,
           NEW h, SgrRun(h, s, v)
    PROVE  /\ \A k \in 0 .. Len(v) : h[k].group = <<>>
           /\ \A k \in 1 .. Len(v) : h[k].a = Apply(h[k - 1].a, v[k])
<1> DEFINE n == Len(v)
           B == {r \in SgrStates : r.group = <<>>}
<1>1. n \in Nat /\ \A k \in 1 .. n : v[k] \in Nat /\ v[k] \notin {38, 48}
  <2>1. \A k \in 1 .. Len(v) : v[k] \in Nat /\ v[k] \in Values(v)
    BY DEF Values
  <2> QED
    BY <2>1
<1>2. ASSUME NEW r \in B, NEW k \in 1 .. n
      PROVE  Taken(r, v[k]) \in B /\ Taken(r, v[k]).a = Apply(r.a, v[k])
  <2>1. Taken(r, v[k]) = [r EXCEPT !.a = Apply(@, v[k])]
    BY <1>1, <1>2 DEF Taken
  <2>2. Taken(r, v[k]) \in SgrStates
    BY <1>1, ValueTypes
  <2> QED
    BY <2>1, <2>2 DEF SgrStates
<1>3. \A k \in 0 .. n : h[k] \in B
  <2>1. h[0] \in B /\ \A k \in 1 .. n : h[k - 1] \in B => h[k] \in B
    BY <1>2 DEF SgrRun
  <2> HIDE DEF n, B
  <2> QED
    BY <1>1, <2>1, StaysIn
<1>4. ASSUME NEW k \in 1 .. n PROVE h[k].a = Apply(h[k - 1].a, v[k])
  <2>1. h[k - 1] \in B /\ h[k] = Taken(h[k - 1], v[k])
    BY <1>1, <1>3 DEF SgrRun
  <2> QED
    BY <1>2, <2>1
<1> QED
  BY <1>3, <1>4

\* What each code keeps, a sequence of them keeps.
LEMMA CodesKeep ==
    ASSUME NEW s \in SgrStates, NEW v \in Seq(Nat), Values(v) \cap {38, 48} = {}, s.group = <<>>,
           NEW h, SgrRun(h, s, v), NEW P \in SUBSET Attributes, s.a \in P,
           \A k \in 1 .. Len(v) : \A a \in P : Apply(a, v[k]) \in P
    PROVE  \A k \in 0 .. Len(v) : h[k].a \in P
<1> DEFINE n == Len(v)
           r == [k \in 0 .. n |-> h[k].a]
<1>1. n \in Nat /\ \A k \in 1 .. n : k \in 0 .. n /\ k - 1 \in 0 .. n
  OBVIOUS
<1>2. \A k \in 1 .. n : h[k].a = Apply(h[k - 1].a, v[k])
  BY CodesOneByOne
<1>3. h[0] = s
  BY DEF SgrRun
<1>4. r[0] \in P /\ \A k \in 1 .. n : r[k - 1] \in P => r[k] \in P
  <2>1. r[0] = s.a
    BY <1>1, <1>3
  <2>2. ASSUME NEW k \in 1 .. n, r[k - 1] \in P PROVE r[k] \in P
    <3>1. r[k - 1] = h[k - 1].a /\ r[k] = h[k].a
      BY <1>1
    <3> QED
      BY <1>2, <2>2, <3>1
  <2> QED
    BY <2>1, <2>2
<1> HIDE DEF n
<1>5. \A k \in 0 .. n : r[k] \in P
  <2> HIDE DEF r
  <2> QED
    BY <1>1, <1>4, StaysIn
<1> QED
  BY <1>5 DEF n

\* What a sequence does to the attributes.
Begin == [a |-> attr, group |-> <<>>]

LEMMA SequenceRun ==
    ASSUME attr \in Attributes, NEW v \in Lists, SgrOf(v)
    PROVE  LET w == IF v = <<>> THEN <<0>> ELSE v
           IN  /\ w \in Seq(Nat) /\ Len(w) \in Nat /\ Len(w) > 0 /\ Begin \in SgrStates
               /\ \E h : SgrRun(h, Begin, w) /\ attr' = h[Len(w)].a
<1> DEFINE w == IF v = <<>> THEN <<0>> ELSE v
<1>1. v \in Seq(Nat) /\ w \in Seq(Nat) /\ Len(w) \in Nat /\ Len(w) > 0
  BY ColoursAssumption DEF ColoursAssumption
<1>2. Begin \in SgrStates
  BY DEF Begin, SgrStates
<1>3. attr' = sgr(v)
  BY DEF SgrOf
<1>4. sgr(v) = FoldLeft(Taken, Begin, w).a
  BY DEF sgr, Begin
<1> HIDE DEF w
<1>5. PICK h : SgrRun(h, Begin, w)
  BY <1>1, <1>2, SgrsRun
<1>6. h[Len(w)].a = FoldLeft(Taken, Begin, w).a
  BY <1>5 DEF SgrRun
<1> QED
  BY <1>1, <1>2, <1>3, <1>4, <1>5, <1>6 DEF w

LEMMA OnlyCodeReverses ==
    ASSUME NEW a \in Attributes, NEW v \in Nat, v # 7, ~a.reverse_video
    PROVE  ~Apply(a, v).reverse_video
<1>1. CASE v = 0
  <2>1. Apply(a, v) = Plain
    BY <1>1, Codes
  <2>2. ~Plain.reverse_video
    BY DEF Plain
  <2> QED
    BY <2>1, <2>2
<1>2. CASE v \in {1, 22} \cup {5, 25}
  <2>1. \E fg, on \in BOOLEAN : Apply(a, v) = Intensity(a, fg, on)
    BY <1>2, Codes
  <2> QED
    BY <2>1 DEF Intensity, Attributes
<1>3. CASE v \in (30 .. 37) \cup (40 .. 47) \cup (90 .. 97) \cup (100 .. 107)
  <2>1. \E fg, bright \in BOOLEAN : \E k \in Nat : Apply(a, v) = SetColour(a, fg, bright, k)
    BY <1>3, Codes
  <2> QED
    BY <2>1 DEF SetColour, Attributes
<1>4. CASE v \in {39, 49}
  <2>1. PICK fg \in BOOLEAN : (fg <=> v = 39) /\ Apply(a, v) = SetDefault(a, fg)
    BY <1>4, Codes, Zenon
  <2> QED
    BY <2>1 DEF SetDefault, swap_palette, Attributes
<1>5. CASE v = 27
  <2>1. v \notin {0, 1, 22, 5, 25, 39, 49} /\ v \notin 30 .. 37 /\ v \notin 40 .. 47
        /\ v \notin 90 .. 97 /\ v \notin 100 .. 107
    BY <1>5
  <2>2. Apply(a, v) = Turned(a, FALSE)
    BY <1>5, <2>1 DEF Apply
  <2> QED
    BY <2>2 DEF Turned, swap_palette, Attributes
<1>6. CASE v \notin {0} \cup OfInk \cup OfPaper \cup {7, 27}
  BY <1>6, Codes
<1> QED
  BY <1>1, <1>2, <1>3, <1>4, <1>5, <1>6 DEF OfInk, OfPaper

----
ColoursInv == attr \in Attributes /\ saved \in Attributes

LEMMA ColoursKeep == ColoursInv /\ [ColoursNext]_colourVars => ColoursInv'
<1> SUFFICES ASSUME ColoursInv, [ColoursNext]_colourVars PROVE ColoursInv'
  OBVIOUS
<1> USE DEF ColoursInv
<1>1. ASSUME NEW v \in Lists, SgrOf(v) PROVE ColoursInv'
  <2> DEFINE w == IF v = <<>> THEN <<0>> ELSE v
  <2>1. Len(w) \in Nat /\ \E h : SgrRun(h, Begin, w) /\ attr' = h[Len(w)].a
    BY <1>1, SequenceRun
  <2> HIDE DEF w
  <2>2. PICK h : SgrRun(h, Begin, w) /\ attr' = h[Len(w)].a
    BY <2>1
  <2>3. h[Len(w)] \in SgrStates
    BY <2>1, <2>2 DEF SgrRun
  <2>4. attr' \in Attributes
    BY <2>2, <2>3 DEF SgrStates
  <2> QED
    BY <1>1, <2>4 DEF SgrOf
<1>2. CASE SaveState
  BY <1>2 DEF SaveState
<1>3. CASE RestoreState
  BY <1>3 DEF RestoreState
<1>4. CASE Reinit
  <2>1. attr' = [Plain EXCEPT !.text_fg = attr.text_fg, !.text_bg = attr.text_bg]
    BY <1>4 DEF Reinit
  <2>2. attr.text_fg \in Colour /\ attr.text_bg \in Colour /\ Plain \in Attributes
    BY ColourTypes DEF Attributes, Plain
  <2>3. attr' \in Attributes
    BY <2>1, <2>2 DEF Attributes
  <2> QED
    BY <1>4, <2>3 DEF Reinit
<1>5. CASE UNCHANGED colourVars
  BY <1>5 DEF colourVars
<1> QED
  BY <1>1, <1>2, <1>3, <1>4, <1>5 DEF ColoursNext, Sgr

LEMMA ColoursHold == ColoursSpec => []ColoursInv
<1>1. ColoursInit => ColoursInv
  <2>1. Plain \in Attributes
    BY ColourTypes DEF Attributes, Plain
  <2>2. RGB(0) \in Colour
    BY ColourTypes
  <2>3. Unsaved \in Attributes
    BY <2>1, <2>2 DEF Unsaved, Attributes
  <2> QED
    BY <2>1, <2>3 DEF ColoursInit, ColoursInv
<1> QED
  BY <1>1, ColoursKeep, PTL DEF ColoursSpec

\* No value at all stands for a 0.
LEMMA Either ==
    ASSUME NEW v, NEW w, w = IF v = <<>> THEN << 0 >> ELSE v
    PROVE  Values(w) = Values(v) \/ Values(w) = {0}
<1>1. Values(<<0>>) = {0}
  BY DEF Values
<1> QED
  BY <1>1

\* The colours of one sequence of codes.
LEMMA SequenceAgrees ==
    ASSUME attr \in Attributes, NEW v \in Lists, SgrOf(v), Values(v) \cap {38, 48} = {}, Agrees(attr),
           \/ Values(v) \cap {1, 5, 22, 25} = {}
           \/ ~attr.reverse_video /\ 7 \notin Values(v)
    PROVE  Agrees(attr')
<1> DEFINE w == IF v = <<>> THEN <<0>> ELSE v
           n == Len(w)
<1>1. /\ w \in Seq(Nat) /\ n \in Nat /\ n > 0 /\ Begin \in SgrStates
      /\ \E h : SgrRun(h, Begin, w) /\ attr' = h[n].a
  BY SequenceRun
<1>2. Begin.a = attr /\ Begin.group = <<>>
  BY DEF Begin
<1>3. /\ Values(w) \cap {38, 48} = {}
      /\ Values(v) \cap {1, 5, 22, 25} = {} => Values(w) \cap {1, 5, 22, 25} = {}
      /\ 7 \notin Values(v) => 7 \notin Values(w)
  BY Either
<1> HIDE DEF w
<1>4. PICK h : SgrRun(h, Begin, w) /\ attr' = h[n].a
  BY <1>1
<1>5. \A k \in 1 .. n : w[k] \in Nat /\ w[k] \in Values(w)
  BY <1>1 DEF Values
<1>6. CASE Values(v) \cap {1, 5, 22, 25} = {}
  <2> DEFINE P == {a \in Attributes : Agrees(a)}
  <2>1. \A k \in 1 .. n : w[k] \in Nat /\ w[k] \notin OfIntensity
    BY <1>3, <1>5, <1>6 DEF OfIntensity
  <2>2. \A k \in 1 .. n : \A a \in P : Apply(a, w[k]) \in P
    BY <2>1, CodeTypes, CodeKeepsColoursInStep
  <2>3. P \in SUBSET Attributes /\ Begin.a \in P
    BY <1>2
  <2> HIDE DEF P
  <2>4. \A k \in 0 .. Len(w) : h[k].a \in P
    BY <1>1, <1>2, <1>3, <1>4, <2>2, <2>3, CodesKeep
  <2>5. h[n].a \in P
    BY <1>1, <2>4
  <2> QED
    BY <1>4, <2>5 DEF P
<1>7. CASE ~attr.reverse_video /\ 7 \notin Values(v)
  <2> DEFINE P == {a \in Attributes : Agrees(a) /\ ~a.reverse_video}
  <2>1. \A k \in 1 .. n : w[k] \in Nat /\ w[k] # 7
    BY <1>3, <1>5, <1>7
  <2>2. \A k \in 1 .. n : \A a \in P : Apply(a, w[k]) \in P
    BY <2>1, CodeTypes, CodeKeepsColoursInStep, OnlyCodeReverses
  <2>3. P \in SUBSET Attributes /\ Begin.a \in P
    BY <1>2, <1>7
  <2> HIDE DEF P
  <2>4. \A k \in 0 .. Len(w) : h[k].a \in P
    BY <1>1, <1>2, <1>3, <1>4, <2>2, <2>3, CodesKeep
  <2>5. h[n].a \in P
    BY <1>1, <2>4
  <2> QED
    BY <1>4, <2>5 DEF P
<1> QED
  BY <1>6, <1>7

\* The last code counts.
LEMMA ResetIsPlain ==
    ASSUME attr \in Attributes, NEW v \in Lists, SgrOf(v), Values(v) \cap {38, 48} = {},
           v = <<>> \/ v[Len(v)] = 0
    PROVE  attr' = Plain
<1> DEFINE w == IF v = <<>> THEN <<0>> ELSE v
           n == Len(w)
<1>1. /\ w \in Seq(Nat) /\ n \in Nat /\ n > 0 /\ Begin \in SgrStates
      /\ \E h : SgrRun(h, Begin, w) /\ attr' = h[n].a
  BY SequenceRun
<1>2. Begin.group = <<>>
  BY DEF Begin
<1>3. Values(w) \cap {38, 48} = {} /\ w[n] = 0
  <2>1. v = <<>> => w = <<0>> /\ n = 1 /\ w[n] = 0
    OBVIOUS
  <2> QED
    BY <2>1, Either
<1> HIDE DEF w
<1>4. PICK h : SgrRun(h, Begin, w) /\ attr' = h[n].a
  BY <1>1
<1>5. \A k \in 1 .. Len(w) : h[k].a = Apply(h[k - 1].a, w[k])
  BY <1>1, <1>2, <1>3, <1>4, CodesOneByOne
<1>6. h[n].a = Apply(h[n - 1].a, 0)
  BY <1>1, <1>3, <1>5
<1> QED
  BY <1>4, <1>6 DEF Apply, Reset

(* The colours of the text follow the attributes through every sequence of codes, of any length   *)
(* and order, reversed or not, and through ESC 7 and ESC 8 (sgr).                                 *)
THEOREM ColoursStayInStep == ColoursSpec => ColoursFollowAttributes
<1>1. ColoursInv /\ [ColoursNext]_colourVars
      => [ /\ \A v \in Lists : SgrOf(v) /\ Values(v) \cap {38, 48} = {} =>
                /\ Agrees(attr) /\ (\/ Values(v) \cap {1, 5, 22, 25} = {}
                                   \/ (~attr.reverse_video /\ 7 \notin Values(v)))
                   => Agrees(attr')
                /\ v = <<>> \/ v[Len(v)] = 0 => attr' = Plain
           /\ RestoreState /\ saved # Unsaved /\ Agrees(saved) => Agrees(attr') ]_colourVars
  <2> SUFFICES ASSUME ColoursInv
               PROVE  /\ \A v \in Lists : SgrOf(v) /\ Values(v) \cap {38, 48} = {} =>
                           /\ Agrees(attr) /\ (\/ Values(v) \cap {1, 5, 22, 25} = {}
                                              \/ (~attr.reverse_video /\ 7 \notin Values(v)))
                              => Agrees(attr')
                           /\ v = <<>> \/ v[Len(v)] = 0 => attr' = Plain
                      /\ RestoreState /\ Agrees(saved) => Agrees(attr')
    OBVIOUS
  <2>1. attr \in Attributes
    BY DEF ColoursInv
  <2>2. ASSUME NEW v \in Lists, SgrOf(v), Values(v) \cap {38, 48} = {}
        PROVE  /\ Agrees(attr) /\ (\/ Values(v) \cap {1, 5, 22, 25} = {}
                                   \/ (~attr.reverse_video /\ 7 \notin Values(v)))
                  => Agrees(attr')
               /\ v = <<>> \/ v[Len(v)] = 0 => attr' = Plain
    BY <2>1, <2>2, SequenceAgrees, ResetIsPlain
  <2>3. RestoreState /\ Agrees(saved) => Agrees(attr')
    BY DEF RestoreState
  <2> QED
    BY <2>2, <2>3
<1> QED
  BY <1>1, ColoursHold, PTL DEF ColoursSpec, ColoursFollowAttributes

\* A sequence of codes that each leave a colour leaves it.
LEMMA SequenceKeepsPaper ==
    ASSUME attr \in Attributes, NEW v \in Lists, SgrOf(v), v # <<>>,
           Values(v) \subseteq OfInk \cup {7, 27}
    PROVE  Paper(attr') = Paper(attr)
<1> DEFINE n == Len(v)
           P == {a \in Attributes : Paper(a) = Paper(attr)}
<1>1. /\ v \in Seq(Nat) /\ n \in Nat /\ n > 0 /\ Begin \in SgrStates
      /\ \E h : SgrRun(h, Begin, v) /\ attr' = h[n].a
  BY SequenceRun
<1>2. Begin.a = attr /\ Begin.group = <<>>
  BY DEF Begin
<1>3. Values(v) \cap {38, 48} = {}
  BY DEF OfInk
<1>4. PICK h : SgrRun(h, Begin, v) /\ attr' = h[n].a
  BY <1>1
<1>5. \A k \in 1 .. n : v[k] \in Nat /\ v[k] \in OfInk \cup {7, 27}
  BY <1>1 DEF Values
<1>6. \A k \in 1 .. n : \A a \in P : Apply(a, v[k]) \in P
  BY <1>5, CodeTypes, CodeKeepsTheOther
<1>7. P \in SUBSET Attributes /\ Begin.a \in P
  BY <1>2
<1> HIDE DEF P
<1>8. \A k \in 0 .. Len(v) : h[k].a \in P
  BY <1>1, <1>2, <1>3, <1>4, <1>6, <1>7, CodesKeep
<1>9. h[n].a \in P
  BY <1>1, <1>8
<1> QED
  BY <1>4, <1>9 DEF P

LEMMA SequenceKeepsInk ==
    ASSUME attr \in Attributes, NEW v \in Lists, SgrOf(v), v # <<>>,
           Values(v) \subseteq OfPaper \cup {7, 27}
    PROVE  Ink(attr') = Ink(attr)
<1> DEFINE n == Len(v)
           P == {a \in Attributes : Ink(a) = Ink(attr)}
<1>1. /\ v \in Seq(Nat) /\ n \in Nat /\ n > 0 /\ Begin \in SgrStates
      /\ \E h : SgrRun(h, Begin, v) /\ attr' = h[n].a
  BY SequenceRun
<1>2. Begin.a = attr /\ Begin.group = <<>>
  BY DEF Begin
<1>3. Values(v) \cap {38, 48} = {}
  BY DEF OfPaper
<1>4. PICK h : SgrRun(h, Begin, v) /\ attr' = h[n].a
  BY <1>1
<1>5. \A k \in 1 .. n : v[k] \in Nat /\ v[k] \in OfPaper \cup {7, 27}
  BY <1>1 DEF Values
<1>6. \A k \in 1 .. n : \A a \in P : Apply(a, v[k]) \in P
  BY <1>5, CodeTypes, CodeKeepsTheOther
<1>7. P \in SUBSET Attributes /\ Begin.a \in P
  BY <1>2
<1> HIDE DEF P
<1>8. \A k \in 0 .. Len(v) : h[k].a \in P
  BY <1>1, <1>2, <1>3, <1>4, <1>6, <1>7, CodesKeep
<1>9. h[n].a \in P
  BY <1>1, <1>8
<1> QED
  BY <1>4, <1>9 DEF P

\* A colour by number that ends early is still a group.
LEMMA CutShort ==
    ASSUME attr \in Attributes, NEW v \in Lists, SgrOf(v), v # <<>>, v[1] \in {38, 48}, Len(v) < 3
    PROVE  attr' = attr
<1>1. /\ v \in Seq(Nat) /\ Len(v) \in Nat /\ Len(v) > 0 /\ Begin \in SgrStates
      /\ \E h : SgrRun(h, Begin, v) /\ attr' = h[Len(v)].a
  BY SequenceRun
<1>2. PICK h : SgrRun(h, Begin, v) /\ attr' = h[Len(v)].a
  BY <1>1
<1>3. h[0] = Begin /\ \A k \in 1 .. Len(v) : h[k] = Taken(h[k - 1], v[k])
  BY <1>2 DEF SgrRun
<1>4. h[1] = [a |-> attr, group |-> <<v[1]>>]
  <2>1. h[1] = Taken(Begin, v[1])
    BY <1>1, <1>3
  <2>2. Append(<<>>, v[1]) = <<v[1]>>
    BY <1>1
  <2> QED
    BY <2>1, <2>2 DEF Taken, Begin
<1>5. CASE Len(v) = 1
  BY <1>2, <1>4, <1>5
<1>6. CASE Len(v) = 2
  <2> DEFINE x == v[1]
             y == v[2]
             s == [a |-> attr, group |-> <<x>>]
             g == Append(s.group, y)
  <2>1. h[2] = Taken(h[1], v[2])
    BY <1>3, <1>6
  <2>2. s.group # <<>> /\ Len(g) = 2 /\ s.a = attr
    OBVIOUS
  <2>3. ~Complete(g)
    BY <2>2 DEF Complete
  <2>4. Taken(s, y) = [s EXCEPT !.group = <<>>] \/ Taken(s, y) = [s EXCEPT !.group = g]
    BY <2>2, <2>3 DEF Taken
  <2>5. Taken(s, y).a = attr
    BY <2>4
  <2> QED
    BY <1>2, <1>4, <1>6, <2>1, <2>5
<1>7. Len(v) = 1 \/ Len(v) = 2
  <2> DEFINE n == Len(v)
  <2>1. n \in Nat /\ n > 0 /\ n < 3
    BY <1>1
  <2> HIDE DEF n
  <2>2. n = 1 \/ n = 2
    BY <2>1
  <2> QED
    BY <2>2 DEF n
<1> QED
  BY <1>5, <1>6, <1>7

(* Codes for the strokes and codes for the ground do not disturb each other's colour, in          *)
(* sequences of any length, and 38 and 48 cut short do nothing (sgr).                             *)
THEOREM StrokesAndGroundStayApart == ColoursSpec => InkAndPaperAreApart
<1>1. ColoursInv /\ [ColoursNext]_colourVars
      => [ LET ofInk == {1, 22, 39} \cup (30 .. 37) \cup (90 .. 97)
               ofPaper == {5, 25, 49} \cup (40 .. 47) \cup (100 .. 107)
               turning == {7, 27}
           IN  \A v \in Lists : SgrOf(v) /\ v # <<>> =>
                 /\ Values(v) \subseteq ofInk \cup turning => Paper(attr') = Paper(attr)
                 /\ Values(v) \subseteq ofPaper \cup turning => Ink(attr') = Ink(attr)
                 /\ v[1] \in {38, 48} /\ Len(v) < 3 => attr' = attr ]_colourVars
  <2> SUFFICES ASSUME ColoursInv, NEW v \in Lists, SgrOf(v), v # <<>>
               PROVE  /\ Values(v) \subseteq OfInk \cup {7, 27} => Paper(attr') = Paper(attr)
                      /\ Values(v) \subseteq OfPaper \cup {7, 27} => Ink(attr') = Ink(attr)
                      /\ v[1] \in {38, 48} /\ Len(v) < 3 => attr' = attr
    BY DEF OfInk, OfPaper
  <2>1. attr \in Attributes
    BY DEF ColoursInv
  <2> QED
    BY <2>1, SequenceKeepsPaper, SequenceKeepsInk, CutShort
<1> QED
  BY <1>1, ColoursHold, PTL DEF ColoursSpec, InkAndPaperAreApart
====
