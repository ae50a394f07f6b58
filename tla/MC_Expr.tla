------------------------------ MODULE MC_Expr -------------------------------
(* Every short sequence of a few words, glued and spaced, and longer ones  *)
(* built from fragments.                                                   *)
EXTENDS ExprGrammar

Spaced(words) == [words |-> words, gap |-> " "]
Glued(words) == [words |-> words, gap |-> ""]
Both(set) == {Spaced(w) : w \in set} \cup {Glued(w) : w \in set}

Seqs(set, n) == UNION {[1..k -> set] : k \in 0..n}

(* Operators of all ranks between numbers.                                 *)
Num == {"2", "3", "1.5", "x"}
Op == {"+", "-", "*", "/", "^", "mod", "<", "=", "and", "or"}
Alternating ==
  {<<a, o, b>> : a \in Num, o \in Op, b \in Num}
    \cup {<<a, o, b, p, c>> : a \in {"2", "x"}, o \in Op, b \in {"3", "1.5"}, p \in Op, c \in {"2"}}
    \cup {<<"2", o, "3", p, "2", q, "3">> : o, p, q \in Op}

(* Signs, brackets and "not" in every place.                               *)
Loose == Seqs({"2", "-", "(", ")", "not", "^"}, 4)

(* Literals of every form, some of them broken, some too large for an      *)
(* integer or a Double.                                                    *)
Literal == {"7", "300", "600", "5e3", "1.", ".5", "2e1", "1e-1", "$1ff", "$", "&17", "%101", "%", "1..2"}
Literals == {<<a>> : a \in Literal \cup {"1e", "1e+", "4096", "4097", "0e9"}} \cup {<<a, o, b>> : a, b \in Literal, o \in {"-", "+", "*"}}

(* Comparisons that meet, strings, names and functions.                    *)
Word == {"<", ">", "=", "<=", ">=", "<>"}
Compared == {<<a, o, b>> : a, b \in {"2", "'a'", "'b'", "true", "1.5", "x"}, o \in Word \cup {"+", "xor"}}
              \cup {<<"2", o, p, "3">> : o, p \in Word}
Argument == {<<"2">>, <<"-", "1.5">>, <<"x">>, <<"2", "=", "2">>, <<"'a'">>}
Called == {<<f, "(">> \o a \o <<")">> : f \in Functions \cup {"nosuch", "x", "if", "not"}, a \in Argument}
Conditions == Argument \cup {<<"2", "<", "1.5">>, <<"300", "<", "2">>, <<"1.5", "and", "1">>, <<"'a'", "=", "2">>}
Selected ==
  {<<"if", "(">> \o c \o <<",">> \o a \o <<",">> \o b \o <<")">> \o t :
     c \in Conditions, a, b \in Argument, t \in {<<>>, <<"+", "1">>}}
Cases ==
  {<<"case", "(", tag, ",", "9", ",", l, ",", v, s, "3", ",", "5", ")">> :
     tag \in {"2", "3", "x", "'a'", "true"}, l \in {"2", "'a'", "4.0", "true"}, v \in {"7", "1.5"},
     s \in {",", "3", "="}}
  \cup {<<"case", "(", "2", ",", "9", ",", "2", ",", "4", ")", "+", "1">>,
        <<"case", "(", "2", ",", "9", ")">>,
        <<"case", "(", "2", ",", "9", ",", "2", ",", "4", ",", "5", ")">>,
        <<"if", "(", "2", "=", "2", ",", "2", ",", "3">>}

(* Operations that only the missing check of operands lets through.        *)
Buried ==
  {<<"(", a, o, b, ")", p, c>> : a, b \in {"1.5", "2", "x", "true"},
     o \in {"and", "mod", "or", "="}, p \in {"+", "*"}, c \in {"1", "2"}}
  \cup {<<"not", "(", a, o, b, ")">> : a, b \in {"300", "true"}, o \in {"and", "xor", "=", "<"}}

Limits == {<<a, o, b>> : a, b \in {"500", "127", "128"}, o \in {"+", "-", "*"}}
            \cup {<<"-", a>> : a \in {"128", "129", "512", "1.5"}}
            \cup {<<"-", "-", a>> : a \in {"127"}} \cup {<<a>> : a \in {"127", "128", "126", "600"}}
            \cup {<<"1", "/", "0">>, <<"0", "^", "-", "1">>, <<"(", "-", "2", ")", "^", ".5">>,
                  <<"3", "^", "600">>, <<"trunc", "(", "600", ")">>, <<"#">>, <<"\"pi", "\"">>,
                  <<"2", "\"pi">>, <<"'", "a">>}
Longest == {<<"100", "+", "100", "+", "100", "+", "100", "+", "100", "+", "12">>}

MCSources == Both(Alternating \cup Loose \cup Literals \cup Compared \cup Called \cup Selected
                    \cup Cases \cup Buried \cup Limits \cup Longest)
MCSymbols == [x |-> 4, int |-> 3]

(* A Double of few digits has zeros in its low bytes and ones in its high. *)
MCSlotInt(v) == Wrap(v.low + (IF v.n = 0 THEN 0 ELSE 2 ^ (IntBits - 2)) - IF v.n < 0 THEN MaxInt + 1 ELSE 0)
MCSlotFloat(v) == [Double(0, 1) EXCEPT !.low = v.n % 256]
MCReal(fn, arg) == Double(3, 1)
MCBefore(a, b) == a = "a" /\ b = "b"
=============================================================================
