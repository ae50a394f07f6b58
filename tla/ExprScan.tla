------------------------------ MODULE ExprScan ------------------------------
(***************************************************************************)
(* The scanner of the expression engine (src/src/front/expr.c, get_token   *)
(* and the routines it calls), one token at a time.                        *)
(*                                                                         *)
(* A text is a string; keywords and names are compared without regard to   *)
(* case in the code, so texts here are in one case.  A token is a record   *)
(* [tt, tok, pos]: its kind, its spelling and the position behind it.  The *)
(* kind "bad" stands for every message the scanner can stop with.          *)
(***************************************************************************)
EXTENDS Integers, Sequences, FiniteSets

CONSTANTS
  IntBits,      \* 64 in the code: the width of an integer
  FloatLimit    \* the largest Double

ASSUME IntBitsAssumption == IntBits \in Nat /\ IntBits > 8

MaxInt == 2 ^ (IntBits - 1) - 1
Wrap(n) == ((n + MaxInt + 1) % 2 ^ IntBits) - MaxInt - 1

White == {" ", "\t", "\n", "\r"}
Operators == {"+", "-", "<", ">", "=", "/", "*", "^"}
Delimiters == Operators \cup {",", "(", ")"}
WordDelimiters == White \cup Delimiters \cup {"%"}
Letters == {"a", "b", "c", "d", "e", "f", "g", "h", "i", "j", "k", "l", "m",
            "n", "o", "p", "q", "r", "s", "t", "u", "v", "w", "x", "y", "z"}
DigitSeq == <<"0", "1", "2", "3", "4", "5", "6", "7", "8", "9",
              "a", "b", "c", "d", "e", "f">>
DigitsTo(base) == {DigitSeq[i] : i \in 1..base}
DigitValue(c) == (CHOOSE i \in DOMAIN DigitSeq : DigitSeq[i] = c) - 1

(* The character at a position; "" is the NUL behind the text.             *)
Char(s, p) == IF p \in 1..Len(s) THEN SubSeq(s, p, p) ELSE ""
Last1(s) == Char(s, Len(s))

Bad == [tt |-> "bad", tok |-> "", pos |-> 0]
Token(tt, tok, pos) == [tt |-> tt, tok |-> tok, pos |-> pos]

RECURSIVE SkipWhite(_, _)
SkipWhite(s, p) == IF Char(s, p) \in White THEN SkipWhite(s, p + 1) ELSE p

(* ">>" is taken for ">=" as well.                                         *)
DoDelimiter(s, p) ==
  LET d == Char(s, p)
      c == Char(s, p + 1)
  IN  IF d \in {"<", ">"} /\ c \in {"=", ">"}
      THEN Token(IF d = ">" THEN ">=" ELSE d \o c, d \o c, p + 2)
      ELSE Token(d, d, p + 1)

(* p is behind the opening quote; two quotes stand for one.                *)
RECURSIVE DoString(_, _, _)
DoString(s, p, acc) ==
  LET c == Char(s, p)
  IN  IF c = "" THEN Bad
      ELSE IF c # "'" THEN DoString(s, p + 1, acc \o c)
      ELSE IF Char(s, p + 1) = "'" THEN DoString(s, p + 2, acc \o c)
      ELSE Token("string", acc, p + 1)

Base(kind) == CASE kind = "$" -> 16 [] kind = "&" -> 8 [] kind = "%" -> 2 [] OTHER -> 10

(* The digits of s from p on as one number: [value, end].                  *)
RECURSIVE Digits(_, _, _, _)
Digits(s, p, base, n) ==
  IF Char(s, p) \in DigitsTo(base)
  THEN Digits(s, p + 1, base, n * base + DigitValue(Char(s, p)))
  ELSE [value |-> n, end |-> p]

(* A literal that is an integer, or not: a decimal one must fit a signed   *)
(* integer, one with a radix prefix is the pattern of its bits.            *)
TryStrToInt64(tok) ==
  LET base == Base(Char(tok, 1))
      first == IF base = 10 THEN 1 ELSE 2
      digits == Digits(tok, first, base, 0)
  IN  [ok |-> /\ digits.end > Len(tok) /\ Len(tok) >= first
              /\ digits.value <= IF base = 10 THEN MaxInt ELSE 2 ^ IntBits - 1,
       value |-> Wrap(digits.value)]

(* digits[.digits][e[sign]digits] as a fraction n / d, and not too large.  *)
ValReal(tok) ==
  LET whole == Digits(tok, 1, 10, 0)
      point == Char(tok, whole.end) = "."
      decimals == Digits(tok, whole.end + 1, 10, whole.value)
      mantissa == IF point THEN decimals ELSE whole
      scale == IF point THEN decimals.end - whole.end - 1 ELSE 0
      hasE == Char(tok, mantissa.end) = "e"
      sign == Char(tok, mantissa.end + 1)
      from == mantissa.end + IF sign \in {"+", "-"} THEN 2 ELSE 1
      power == Digits(tok, from, 10, 0)
      exponent == (IF ~hasE THEN 0 ELSE IF sign = "-" THEN -power.value ELSE power.value)
                    - scale
      n == mantissa.value * IF exponent > 0 THEN 10 ^ exponent ELSE 1
      d == IF exponent < 0 THEN 10 ^ (-exponent) ELSE 1
  IN  [ok |-> /\ Char(tok, 1) \in DigitsTo(10) \/ Char(tok, 2) \in DigitsTo(10)
              /\ IF hasE THEN power.end > from /\ power.end > Len(tok)
                         ELSE mantissa.end > Len(tok)
              /\ n <= FloatLimit * d,
       n |-> n,
       d |-> d]

ValidNumber(tok) ==
  IF Char(tok, 1) \in {"$", "&", "%"} THEN TryStrToInt64(tok).ok ELSE ValReal(tok).ok

(* The exponent's sign goes through, and behind "e" or a sign nothing ends *)
(* the literal; a radix sign only leads.                                   *)
RECURSIVE DoNumber(_, _, _, _)
DoNumber(s, p, kind, acc) ==
  LET c == Char(s, p)
      prev == Last1(acc)
      ends == /\ c \in WordDelimiters
              /\ CASE kind = "decimal" -> prev \notin {"e", "-", "+"}
                   [] kind = "%" -> prev # ""
                   [] OTHER -> TRUE
      valid == \/ c \in DigitsTo(Base(kind))
               \/ /\ kind = "decimal"
                  /\ \/ c = "."
                     \/ acc # "" /\ c = "e"
                     \/ c \in {"+", "-"} /\ prev = "e"
               \/ c = kind /\ prev = ""
  IN  IF c = "" \/ ends
      THEN IF ValidNumber(acc) THEN Token("number", acc, p) ELSE Bad
      ELSE IF valid THEN DoNumber(s, p + 1, kind, acc \o c) ELSE Bad

Keywords == {"or", "xor", "and", "true", "false", "not", "if", "case", "mod"}

(* A name goes on to the next white space or delimiter; a part of it may   *)
(* stand between double quotes.                                            *)
RECURSIVE DoIdentifier(_, _, _, _)
DoIdentifier(s, p, quoted, acc) ==
  LET c == Char(s, p)
  IN  IF quoted /\ c = "" THEN Bad
      ELSE IF c = "\"" THEN DoIdentifier(s, p + 1, ~quoted, acc)
      ELSE IF c # "" /\ (quoted \/ c \notin WordDelimiters)
           THEN DoIdentifier(s, p + 1, quoted, acc \o c)
      ELSE Token(IF acc \in Keywords THEN acc ELSE "identifier", acc, p)

GetToken(s, p0) ==
  LET p == SkipWhite(s, p0)
      c == Char(s, p)
  IN  CASE c = ""                        -> Token("eof", "", p)
        [] c \in Delimiters              -> DoDelimiter(s, p)
        [] c = "'"                       -> DoString(s, p + 1, "")
        [] c \in {"$", "&", "%"}         -> DoNumber(s, p, c, "")
        [] c \in DigitsTo(10) \cup {"."} -> DoNumber(s, p, "decimal", "")
        [] c \in Letters \cup {"\""}     -> DoIdentifier(s, p, FALSE, "")
        [] OTHER                         -> Bad

(* Every token of a text, up to its end or to the one that cannot be read. *)
RECURSIVE TokensAfter(_, _)
TokensAfter(s, t) ==
  IF t.tt \in {"eof", "bad"} THEN <<t>> ELSE <<t>> \o TokensAfter(s, GetToken(s, t.pos))
TokensFrom(s, p) == TokensAfter(s, GetToken(s, p))
=============================================================================
