---- MODULE MCPrintf ----
(***************************************************************************)
(* Integers of three to six bits and a conversion buffer of eight          *)
(* characters: every directive for a number alone, and calls of two        *)
(* directives to every output function with room for up to four.           *)
(***************************************************************************)
EXTENDS Printf

MCFlags == SUBSET {"0", "-", "+", " ", "#"}
Number(spec, flags, width, prec, size, arg) ==
    [spec |-> spec, flags |-> flags, width |-> width, prec |-> prec, size |-> size,
     arg |-> arg, text |-> <<>>]
Piece(spec, flags, width, prec, text) ==
    [Number(spec, flags, width, prec, "", 0) EXCEPT !.text = text]
Numbers ==
    {Number(s, f, w, p, "l", a) : s \in {"d", "x", "o", "b"}, f \in MCFlags,
        w \in {-3, 0, 2, 3, 5}, p \in {-2, -1, 0, 1, 3}, a \in {0, 1, 9, 33, 63}}
    \cup {Number(s, {}, w, p, z, a) : s \in {"d", "u", "x", "b"}, w \in {0, 4, 9},
            p \in {-1, 1, 9}, z \in {"hh", "h", ""}, a \in {0, 3, 4, 7, 8, 15, 40, 63}}
    \cup {Number(s, f, w, -1, "l", a) : s \in {"d", "x", "b"}, f \in MCFlags, w \in {-10, 8, 9, 10},
            a \in {1, 33}}
    \cup {Number("p", f, 0, -1, "l", a) : f \in {{}, {"-"}}, a \in {0, 1, 63}}
Texts ==
    {Piece("s", f, w, p, t) : f \in {{}, {"-"}}, w \in {-2, 0, 3}, p \in {-1, 0, 1},
        t \in {<<>>, <<Letter, Unknown>>}}
    \cup {Piece("c", f, w, -1, <<c>>) : f \in {{}, {"-"}}, w \in {0, 2}, c \in {Letter, Nul}}
Others == {Piece(s, {}, 0, -1, <<>>) : s \in {"%", "literal", "other"}}
Pieces == Texts \cup Others \cup {Number("d", {}, 0, -1, "", 15)}
MCJobs ==
    {[sink |-> "function", maxlen |-> Unlimited, format |-> <<d>>] :
        d \in Numbers \cup {[t EXCEPT !.width = 9] : t \in Texts}}
    \cup {[sink |-> "buffer", maxlen |-> m, format |-> <<d, e>>] :
            m \in {Unlimited} \cup 0 .. 4, d \in Pieces, e \in Pieces}
    \cup {[sink |-> s, maxlen |-> Unlimited, format |-> <<d, e>>] :
            s \in {"console", "function", "null"}, d \in Texts, e \in Others}
====
