---- MODULE Printf ----
(***************************************************************************)
(* printf.c, as the kernel is built (no floating point): a call works off  *)
(* its format from left to right, one action per directive, and hands what *)
(* it makes to one of four output functions.                               *)
(*                                                                         *)
(* A character is a number: a digit is its value (letters of either case), *)
(* the others are named below.  Formats are complete and the arguments are *)
(* of the types they name.                                                 *)
(***************************************************************************)
EXTENDS Integers, Sequences, SequencesExt

CONSTANTS
    NtoaSize,                           \* PRINTF_NTOA_BUFFER_SIZE
    CharMod, ShortMod, IntMod, LongMod, \* 2^8, 2^16, 2^32, 2^64
    PointerDigits,                      \* sizeof(void *) * 2
    BufferBytes,                        \* bytes of memory from the caller's buffer on
    Jobs                                \* the calls

Minus == 16
Plus == 17
Blank == 18
LetterX == 19
LetterB == 20
Percent == 21
Unknown == 22    \* the letter of a directive that does not exist
Letter == 23
Nul == 24
Chars == 0 .. 24
Untouched == -1

NoPrecision == -1
NegativePrecision == -2     \* from an argument, for '*'
Unlimited == -1             \* (size_t)-1

\* width: negative only from an argument; arg: the bits of an integer.
Directives == [spec : {"d", "u", "x", "o", "b", "p", "c", "s", "%", "literal", "other"},
               flags : SUBSET {"0", "-", "+", " ", "#"}, width : Int,
               prec : Nat \cup {NoPrecision, NegativePrecision},
               size : {"hh", "h", "", "l"}, arg : Nat, text : Seq(Chars)]

ASSUME PrintfAssumption ==
    /\ NtoaSize \in Nat \ {0} /\ BufferBytes \in Nat /\ PointerDigits \in Nat
    /\ \A m \in {CharMod, ShortMod, IntMod, LongMod} : m \in Nat \ {0} /\ m % 2 = 0
    /\ Jobs \subseteq [sink : {"buffer", "console", "function", "null"},
                       maxlen : Nat \cup {Unlimited}, format : Seq(Directives)]
    /\ \A j \in Jobs : j.sink \in {"console", "function"} => j.maxlen = Unlimited

VARIABLES
    job,
    next,     \* the directive to be worked off
    idx,
    memory,   \* the bytes at and after the caller's buffer
    sent,     \* what the console or the caller's function has received
    made,     \* every character passed to the output function
    ret       \* the result, or -1

vars == <<job, next, idx, memory, sent, made, ret>>

Repeat(c, n) == [i \in 1 .. n |-> c]
Larger(a, b) == IF a < b THEN b ELSE a
Smaller(a, b) == IF a < b THEN a ELSE b
PadTo(n, len) == Repeat(Blank, Larger(n - len, 0))

----
\* Numbers.  The digits are made from the last one on.

ntoa(n, base) ==
    LET digits[k \in 0 .. n] ==
            IF k < base THEN <<k>> ELSE <<k % base>> \o digits[k \div base]
    IN  SubSeq(digits[n], 1, Smaller(Len(digits[n]), NtoaSize))

out_rev(buf, width, left, zeropad) ==
    (IF left \/ zeropad THEN <<>> ELSE PadTo(width, Len(buf)))
    \o Reverse(buf)
    \o (IF left THEN PadTo(width, Len(buf)) ELSE <<>>)

Fits(buf, s) == SubSeq(buf \o s, 1, Smaller(Len(buf \o s), NtoaSize))

Zeros(buf, n) == Fits(buf, Repeat(0, Larger(n - Len(buf), 0)))

SignOf(negative, flags) ==
    IF negative THEN <<Minus>> ELSE IF "+" \in flags THEN <<Plus>>
    ELSE IF " " \in flags THEN <<Blank>> ELSE <<>>

\* The prefix of '#', which takes places from zeros, or from digits as long as the width.
Hashed(buf, base, prec, width) ==
    LET taken == IF prec = NoPrecision /\ buf # <<>> /\ Len(buf) = width
                 THEN Smaller(Len(buf), IF base = 16 THEN 2 ELSE 1) ELSE 0
        letter == IF base = 16 THEN <<LetterX>> ELSE IF base = 2 THEN <<LetterB>> ELSE <<>>
    IN  Fits(Fits(SubSeq(buf, 1, Len(buf) - taken), letter), <<0>>)

\* prec is NoPrecision when there is none; the code has a flag and 0.
ntoa_format(digits, negative, base, prec, width, flags) ==
    LET left == "-" \in flags
        zeropad == "0" \in flags
        sign == SignOf(negative, flags)
        w == IF ~left /\ zeropad /\ width > 0 /\ sign # <<>> THEN width - 1 ELSE width
        precise == IF left THEN digits ELSE Zeros(digits, prec)
        padded == IF left \/ ~zeropad THEN precise ELSE Zeros(precise, w)
        prefixed == IF "#" \in flags THEN Hashed(padded, base, prec, w) ELSE padded
    IN  out_rev(Fits(prefixed, sign), w, left, zeropad)

\* _ntoa_long and _ntoa_long_long.
ntoa_long(value, negative, base, prec, width, flags) ==
    ntoa_format(IF prec # NoPrecision /\ value = 0 THEN <<>> ELSE ntoa(value, base),
                negative, base, prec, width, IF value = 0 THEN flags \ {"#"} ELSE flags)

----
\* What a directive reads.

Bounded(size) == CASE size = "hh" -> CharMod [] size = "h" -> ShortMod
                   [] size = "" -> IntMod [] OTHER -> LongMod
Unsigned(v, m) == v % m
Signed(v, m) == IF v % m < m \div 2 THEN v % m ELSE (v % m) - m
Abs(v) == IF v < 0 THEN -v ELSE v

\* A negative width, from an argument, aligns to the left.
Width(d) == Abs(d.width)
Flags(d) == IF d.width < 0 THEN d.flags \cup {"-"} ELSE d.flags
Precision(d) == IF d.prec = NegativePrecision THEN 0 ELSE d.prec
BaseOf(spec) == CASE spec = "x" -> 16 [] spec = "o" -> 8 [] spec = "b" -> 2 [] OTHER -> 10

Value(d) ==
    IF d.spec = "d" THEN Signed(d.arg, Bounded(d.size)) ELSE Unsigned(d.arg, Bounded(d.size))

\* Mutant: a precision does not switch the '0' flag off.
IntegerText_KeepsZeros(d) ==
    ntoa_long(Abs(Value(d)), Value(d) < 0, BaseOf(d.spec), Precision(d), Width(d), Flags(d))

IntegerText(d) ==
    LET ignored == (IF BaseOf(d.spec) = 10 THEN {"#"} ELSE {})
                   \cup (IF d.spec = "d" THEN {} ELSE {"+", " "})
                   \cup (IF Precision(d) # NoPrecision THEN {"0"} ELSE {})
    IN  ntoa_long(Abs(Value(d)), Value(d) < 0, BaseOf(d.spec), Precision(d), Width(d),
                  Flags(d) \ ignored)

PointerText(d) ==
    ntoa_long(Unsigned(d.arg, LongMod), FALSE, 16, Precision(d), PointerDigits, Flags(d) \cup {"0"})

\* Mutant: aligned to the left, one blank is missing.
Aligned_CountsFromOne(text, d) ==
    IF "-" \in Flags(d) THEN text \o PadTo(Width(d), Len(text) + 1)
    ELSE PadTo(Width(d), Len(text)) \o text

\* 'c' and 's' pad with blanks on either side.
Aligned(text, d) ==
    IF "-" \in Flags(d) THEN text \o PadTo(Width(d), Len(text))
    ELSE PadTo(Width(d), Len(text)) \o text

StringText(d) ==
    Aligned(IF Precision(d) = NoPrecision THEN d.text
            ELSE SubSeq(d.text, 1, Smaller(Precision(d), Len(d.text))), d)

Text(d) ==
    CASE d.spec \in {"d", "u", "x", "o", "b"} -> IntegerText(d)
      [] d.spec = "p" -> PointerText(d)
      [] d.spec = "c" -> Aligned(d.text, d)
      [] d.spec = "s" -> StringText(d)
      [] d.spec = "%" -> <<Percent>>
      [] d.spec = "literal" -> <<Letter>>
      [] OTHER -> <<Unknown>>

----
\* The output functions.

out_buffer(s, at) ==
    [i \in DOMAIN memory |->
        IF i - at + 1 \in DOMAIN s /\ (job.maxlen = Unlimited \/ i < job.maxlen)
        THEN s[i - at + 1] ELSE memory[i]]

\* A NUL inside a text does not reach the function.
out_fct(s) ==
    LET shown[n \in 0 .. Len(s)] ==
            IF n = 0 THEN <<>> ELSE IF s[n] = Nul THEN shown[n - 1] ELSE Append(shown[n - 1], s[n])
    IN  shown[Len(s)]

\* "null" stands for a call without a buffer.
Out(s, at) ==
    /\ memory' = IF job.sink = "buffer" THEN out_buffer(s, at) ELSE memory
    /\ sent' = CASE job.sink = "console" -> sent \o s
                 [] job.sink = "function" -> sent \o out_fct(s)
                 [] OTHER -> sent

----
Init ==
    /\ job \in Jobs
    /\ next = 1 /\ idx = 0 /\ sent = <<>> /\ made = <<>> /\ ret = -1
    /\ memory = [i \in 0 .. BufferBytes - 1 |-> Untouched]

Convert(i) ==
    /\ next = i /\ next' = i + 1
    /\ LET text == Text(job.format[i]) IN
         /\ Out(text, idx)
         /\ idx' = idx + Len(text)
         /\ made' = made \o text
    /\ UNCHANGED <<job, ret>>
Directive == \E i \in DOMAIN job.format : Convert(i)

\* Mutant: the end is marked behind a text that was cut.
Terminate_AtIdx ==
    /\ next > Len(job.format) /\ ret = -1
    /\ Out(<<Nul>>, idx)
    /\ ret' = idx
    /\ UNCHANGED <<job, next, idx, made>>

\* Without room for it (maxlen 0), maxlen - 1 is a huge index.
Terminate ==
    /\ next > Len(job.format) /\ ret = -1
    /\ IF job.maxlen = Unlimited \/ idx < job.maxlen THEN Out(<<Nul>>, idx)
       ELSE IF job.maxlen > 0 THEN Out(<<Nul>>, job.maxlen - 1)
       ELSE UNCHANGED <<memory, sent>>
    /\ ret' = idx
    /\ UNCHANGED <<job, next, idx, made>>

Next == Directive \/ Terminate

Spec == Init /\ [][Next]_vars

----
(* A call writes below maxlen only, whatever the length of its text, and    *)
(* what it leaves is the beginning of the text, ended by a NUL when there   *)
(* is room for one (snprintf's promise; _out_buffer and the termination in  *)
(* _vsnprintf).  The console gets the text and the NUL; a function gets the *)
(* text without the NULs that %c put into it.  The result counts the text,  *)
(* with what was cut and with the NULs that no function was sent.           *)
BufferHoldsTheText ==
    LET kept == IF job.maxlen = Unlimited THEN Len(made) ELSE Smaller(Len(made), job.maxlen - 1)
        room == job.sink = "buffer" /\ job.maxlen # 0
    IN  /\ ret # -1 => ret = Len(made)
        /\ \A i \in DOMAIN memory :
             (job.maxlen # Unlimited /\ i >= job.maxlen) \/ job.sink # "buffer"
                => memory[i] = Untouched
        /\ ret # -1 /\ room =>
             /\ \A i \in 1 .. kept : i - 1 \in DOMAIN memory => memory[i - 1] = made[i]
             /\ kept \in DOMAIN memory => memory[kept] = Nul
        /\ ret # -1 /\ job.sink = "console" => sent = Append(made, Nul)
        /\ ret # -1 /\ job.sink = "function" => sent = out_fct(made)

----
\* The number as the C standard writes it.

Numeral(n, base) ==
    LET num[k \in 0 .. n] == IF k < base THEN <<k>> ELSE Append(num[k \div base], k % base)
    IN  num[n]

CSign(d) == IF d.spec # "d" THEN <<>> ELSE IF Value(d) < 0 THEN <<Minus>>
            ELSE IF "+" \in Flags(d) THEN <<Plus>>
            ELSE IF " " \in Flags(d) THEN <<Blank>> ELSE <<>>

CDigits(d) == IF Value(d) = 0 /\ d.prec = 0 THEN <<>> ELSE Numeral(Abs(Value(d)), BaseOf(d.spec))
CPrecise(d) == Repeat(0, Larger(d.prec - Len(CDigits(d)), 0)) \o CDigits(d)

\* '#' makes the first digit of an octal number a 0, of the value 0 with precision 0 too.
CPrefix(d) ==
    LET base == BaseOf(d.spec)
        needless == IF base = 8 THEN CPrecise(d) # <<>> /\ CPrecise(d)[1] = 0 ELSE Value(d) = 0
    IN  IF "#" \notin Flags(d) \/ base = 10 \/ needless THEN <<>>
        ELSE CASE base = 16 -> <<0, LetterX>> [] base = 2 -> <<0, LetterB>> [] OTHER -> <<0>>

PadsWithZeros(d) == "0" \in Flags(d) /\ "-" \notin Flags(d) /\ d.prec = NoPrecision

CNumber(d) ==
    LET front == CSign(d) \o CPrefix(d)
        room == Larger(Width(d) - Len(front) - Len(CPrecise(d)), 0)
    IN  IF "-" \in Flags(d) THEN front \o CPrecise(d) \o Repeat(Blank, room)
        ELSE IF PadsWithZeros(d) THEN front \o Repeat(0, room) \o CPrecise(d)
        ELSE Repeat(Blank, room) \o front \o CPrecise(d)

\* Directives that the code is known to write otherwise: aligned to the left,
\* a precision adds no zeros (and a zero has no digit of its own); a negative
\* precision counts as 0; a prefix replaces digits of a number as long as the
\* width; a binary prefix takes one padding zero only; an octal one is added to
\* the zeros of the precision, and is missing for the value 0 with precision 0;
\* digits, zeros and prefix end where the buffer does.
Differs(d) ==
    LET length == IF Value(d) = 0 THEN 0 ELSE Len(Numeral(Abs(Value(d)), BaseOf(d.spec)))
    IN  \/ "-" \in Flags(d) /\ d.prec > length
        \/ d.prec = NegativePrecision
        \/ Value(d) # 0 /\ "#" \in Flags(d) /\ BaseOf(d.spec) # 10
             /\ (\/ d.prec = NoPrecision /\ Width(d) \in length .. length + 1
                 \/ BaseOf(d.spec) = 2 /\ "0" \in Flags(d)
                 \/ BaseOf(d.spec) = 8 /\ d.prec > length)
        \/ Value(d) = 0 /\ "#" \in Flags(d) /\ BaseOf(d.spec) = 8 /\ d.prec = 0
        \/ Len(CSign(d)) + Len(CPrefix(d)) + Len(CPrecise(d)) > NtoaSize
        \/ PadsWithZeros(d) /\ Width(d) > NtoaSize

(* A number is written as C writes it, for every flag, width, precision and *)
(* size of integer, but for the directives of Differs (_ntoa_format and the *)
(* flags of the integer cases of _vsnprintf).                               *)
NumbersAsInC ==
    [][ \A i \in DOMAIN job.format :
          LET d == job.format[i]
          IN  Convert(i) /\ d.spec \in {"d", "u", "x", "o", "b"} /\ ~Differs(d)
              => made' = made \o CNumber(d) ]_vars

\* What a directive fills at least: zeros, unlike blanks, end where the buffer does.
Filled(d) ==
    LET wide == IF d.spec = "p" THEN PointerDigits ELSE Width(d)
        zeros == IF d.spec = "p" THEN "-" \notin Flags(d)
                 ELSE d.spec \notin {"c", "s"} /\ PadsWithZeros(d)
    IN  IF zeros THEN Smaller(wide, NtoaSize) ELSE wide

(* Every number, character and string fills its width, however wide, but   *)
(* for a number padded with zeros, which fills it up to the size of the    *)
(* conversion buffer (_ntoa_format, _out_rev).  Characters and strings are *)
(* whole but for the precision, longer than their width only when they had *)
(* more to say, with the blanks on the side the flags name (cases c and s  *)
(* of _vsnprintf).                                                         *)
PaddedToWidth ==
    [][ \A i \in DOMAIN job.format :
          LET d == job.format[i]
              piece == SubSeq(made', Len(made) + 1, Len(made'))
          IN  Convert(i) /\ d.spec \notin {"%", "literal", "other"} =>
                /\ Len(piece) >= Filled(d)
                /\ d.spec \in {"c", "s"} /\ d.prec # NegativePrecision =>
                     LET whole == IF d.spec = "c" \/ d.prec < 0 THEN d.text
                                  ELSE SubSeq(d.text, 1, Smaller(d.prec, Len(d.text)))
                         first == IF "-" \in Flags(d) THEN 0 ELSE Len(piece) - Len(whole)
                     IN  /\ Len(piece) = Larger(Width(d), Len(whole))
                         /\ \A k \in DOMAIN piece :
                              piece[k] = IF k - first \in DOMAIN whole THEN whole[k - first]
                                         ELSE Blank ]_vars
====
