---------------------------- MODULE ExprGrammar -----------------------------
(***************************************************************************)
(* What an expression means, without a cursor: an operator of the lowest   *)
(* rank outside brackets splits the words in two, down to names and        *)
(* literals.  The engine of Expr must build that tree from the characters  *)
(* of the text, give it the type its operands call for, and its value.     *)
(***************************************************************************)
EXTENDS Expr, FiniteSetsExt

Kind(w) ==
  CASE w \in Operators \cup Delimiters \cup Keywords \cup Comparisons -> w
    [] Char(w, 1) = "'" -> "string"
    [] Char(w, 1) \in DigitsTo(10) \cup {".", "$", "&", "%"} -> "number"
    [] OTHER -> "identifier"

EndsOperand(w) == Kind(w) \in {"number", "string", "identifier", "true", "false", ")"}

(* Two words that stay two words when nothing stands between them.         *)
Separate(a, b) ==
  \/ Char(b, 1) = "%" /\ Kind(b) = "number"
  \/ /\ {a, b} \cap (Delimiters \cup Comparisons) # {}
     /\ ~(a \in {"<", ">"} /\ Char(b, 1) \in {"=", ">"})
     /\ ~(Kind(a) = "number" /\ Last1(a) = "e")

Readable(source) ==
  /\ Len(Spelled(source)) + 2 <= ShortString
  /\ source.gap # "" \/ \A i \in 2..Len(source.words) :
                          Separate(source.words[i - 1], source.words[i])

Depth(w, i) ==
  Cardinality({j \in 1..(i - 1) : w[j] = "("}) - Cardinality({j \in 1..(i - 1) : w[j] = ")"})

(* The places where an operator of a set joins two operands.               *)
Joins(w, ops) ==
  {i \in 2..Len(w) : w[i] \in ops /\ Depth(w, i) = 0 /\ EndsOperand(w[i - 1])}
Left(w, i) == SubSeq(w, 1, i - 1)
Right(w, i) == SubSeq(w, i + 1, Len(w))

(* The first word opens a bracket that the last one closes.                *)
Bracketed(w) ==
  /\ Len(w) > 2 /\ w[1] = "(" /\ w[Len(w)] = ")"
  /\ Depth(w, Len(w)) = 1 /\ \A i \in 2..Len(w) : Depth(w, i) > 0
Inner(w) == SubSeq(w, 2, Len(w) - 1)

None == Failed.node
Build(k, args) == IF \E i \in DOMAIN args : args[i] = None THEN None ELSE Node(k, args)

(* What the words of a rank and of those above it mean.                   *)
RECURSIVE Rank(_, _), Terms(_)

Terms(w) ==
  LET commas == {i \in DOMAIN w : w[i] = "," /\ Depth(w, i) = 0}
  IN  IF commas = {} THEN <<Rank("or", w)>>
      ELSE <<Rank("or", Left(w, Min(commas)))>> \o Terms(Right(w, Min(commas)))

Call(w) ==
  LET args == Terms(Inner(Tail(w)))
      head == Identifier(w[1])
      right == CASE w[1] = "if" -> Len(args) = 3
                 [] w[1] = "case" -> Len(args) >= 4
                 [] OTHER -> Kind(w[1]) = "identifier" /\ head.k = "func" /\ Len(args) = 1
      built == Build(IF w[1] \in {"if", "case"} THEN w[1] ELSE "func", args)
  IN  IF ~right \/ built = None THEN None
      ELSE IF built.k = "func" THEN [head EXCEPT !.args = args] ELSE built

Atom(w) ==
  LET word == Kind(w[1])
      bits == Value("bool", "i", AsBit(word = "true"), 1)
  IN  CASE Len(w) = 0 -> None
        [] Len(w) > 1 -> IF Bracketed(Tail(w)) THEN Call(w) ELSE None
        [] word = "number" -> IF ValidNumber(w[1]) THEN Const(Number(w[1])) ELSE None
        [] word = "string" ->
             Const([bits EXCEPT !.type = "string", !.str = SubSeq(w[1], 2, Len(w[1]) - 1)])
        [] word \in {"true", "false"} -> Const(bits)
        [] word = "identifier" -> IF Identifier(w[1]).k = "var" THEN Identifier(w[1]) ELSE None
        [] OTHER -> None

Bracket(w) == IF Bracketed(w) THEN Rank("or", Inner(w)) ELSE Atom(w)

Chain(w) ==
  LET at == Joins(w, {"^"})
  IN  IF at = {} THEN Rank("(", w)
      ELSE Build("^", <<Rank("(", Left(w, Min(at))), Rank("-", Right(w, Min(at)))>>)

Signed(w) ==
  CASE w = <<>> -> None
    [] w # <<>> /\ w[1] = "-" -> Build("negate", <<Rank("^", Tail(w))>>)
    [] w # <<>> /\ w[1] = "+" -> Rank("^", Tail(w))
    [] OTHER -> Rank("^", w)

Product(w) ==
  LET at == Joins(w, {"*", "/", "mod"})
  IN  IF at = {} THEN Rank("-", w)
      ELSE Build(w[Max(at)], <<Rank("*", Left(w, Max(at))), Rank("-", Right(w, Max(at)))>>)

Sum(w) ==
  LET at == Joins(w, {"+", "-"})
  IN  IF at = {} THEN Rank("*", w)
      ELSE Build(w[Max(at)], <<Rank("+", Left(w, Max(at))), Rank("*", Right(w, Max(at)))>>)

Comparison(w) ==
  LET at == Joins(w, Comparisons)
  IN  CASE at = {} -> Rank("+", w)
        [] Cardinality(at) = 1 ->
             Build(w[Max(at)], <<Rank("+", Left(w, Max(at))), Rank("+", Right(w, Max(at)))>>)
        [] OTHER -> None

Logical1(w) ==
  LET at == Joins(w, {"and", "or", "xor"})
  IN  CASE at # {} ->
             Build(w[Max(at)], <<Rank("or", Left(w, Max(at))), Rank("<", Right(w, Max(at)))>>)
        [] at = {} /\ w # <<>> /\ w[1] = "not" -> Build("not", <<Rank("<", Tail(w))>>)
        [] OTHER -> Rank("<", w)

Rank(operator, w) ==
  CASE operator = "or" -> Logical1(w)
    [] operator = "<" -> Comparison(w)
    [] operator = "+" -> Sum(w)
    [] operator = "*" -> Product(w)
    [] operator = "-" -> Signed(w)
    [] operator = "^" -> Chain(w)
    [] operator = "(" -> Bracket(w)

Meant == Rank("or", written.words)

RECURSIVE Erased(_)
Erased(t) ==
  IF t.k = "int2float" THEN Erased(t.args[1])
  ELSE [t EXCEPT !.args = [i \in DOMAIN t.args |-> Erased(t.args[i])]]

RECURSIVE HasCase(_)
HasCase(t) == t.k = "case" \/ \E i \in DOMAIN t.args : HasCase(t.args[i])

(* The scanner and the descent give an expression the structure its words  *)
(* call for, with or without white space, and refuse what has none.  Only  *)
(* case() takes more: any token may stand for a comma behind its fourth    *)
(* argument.                                                               *)
ParsesAsGrammar ==
  step # "set" /\ Readable(written) =>
    IF Meant = None THEN tree = None \/ HasCase(tree) ELSE Erased(tree) = Meant

(* The type of a tree, "none" when its operands do not fit.  Two numbers   *)
(* fit, and are a Double when one of them is.                              *)
RECURSIVE TypeMeant(_)
TypeMeant(t) ==
  LET types == [i \in DOMAIN t.args |-> TypeMeant(t.args[i])]
      all == {types[i] : i \in DOMAIN types}
      number == IF all = {"int"} THEN "int" ELSE "float"
      alike(i, j) == types[i] = types[j]
  IN  CASE t.k \in {"const", "var"} -> t.v.type
        [] "none" \in all -> "none"
        [] OTHER ->
             CASE t.k = "func" /\ all \subseteq Numeric ->
                    IF t.id \in IntFunctions THEN "int" ELSE "float"
               [] t.k = "if" /\ types[1] = "bool" /\ alike(2, 3) -> types[2]
               [] t.k = "case" /\ Len(types) % 2 = 0
                    /\ \A i \in 3..Len(types) :
                         IF i % 2 = 1 THEN alike(i, 1) /\ t.args[i].k = "const" ELSE alike(i, 2)
                    -> types[2]
               [] t.k \in {"not", "and", "or", "xor"} /\ all \in {{"bool"}, {"int"}} -> types[1]
               [] t.k \in {"=", "<>"} /\ (Cardinality(all) = 1 \/ all \subseteq Numeric) -> "bool"
               [] t.k \in {"<", "<=", ">", ">="}
                    /\ (all = {"string"} \/ all \subseteq Numeric) -> "bool"
               [] t.k = "+" /\ all = {"string"} -> "string"
               [] t.k \in {"+", "-", "*", "negate"} /\ all \subseteq Numeric -> number
               [] t.k \in {"/", "^"} /\ all \subseteq Numeric -> "float"
               [] t.k = "mod" /\ all = {"int"} -> "int"
               [] OTHER -> "none"

(* An expression whose every operation fits its operands is accepted, has  *)
(* that type, and no slot of it is read as anything but what was written:  *)
(* the check of the root alone lets others through, never stops these.     *)
TypedReads ==
  step # "set" /\ Readable(written) /\ Meant # None =>
    LET type == TypeMeant(Meant)
    IN  type # "none" =>
          /\ NodeType(tree) = type /\ Check(tree)
          /\ answer # "undefined"
          /\ step \in {"store", "done"} /\ ~Stops(result) => result.type = type /\ ~result.raw

(* The value of a tree of numbers and conditions, in exact arithmetic but  *)
(* for the width of an integer.                                            *)
Plain == {"const", "var", "+", "-", "*", "/", "mod", "negate", "if", "case", "not", "and", "or"}
           \cup Comparisons

RECURSIVE IsPlain(_), ValueMeant(_), CaseMeant(_, _, _)
IsPlain(t) ==
  /\ t.k \in Plain /\ TypeMeant(t) \in {"int", "float", "bool"}
  /\ t.k \in {"not", "and", "or"} => TypeMeant(t) = "bool"
  /\ \A i \in DOMAIN t.args : IsPlain(t.args[i])

CaseMeant(t, tag, i) ==
  IF i > Len(t.args) THEN ValueMeant(t.args[2])
  ELSE IF Equal(ValueMeant(t.args[i]), tag) THEN ValueMeant(t.args[i + 1])
  ELSE CaseMeant(t, tag, i + 2)

ValueMeant(t) ==
  LET a == ValueMeant(t.args[1])
      b == ValueMeant(t.args[2])
      number(q) == IF TypeMeant(t) = "int" THEN Integer(q.n) ELSE Double(q.n, q.d)
      truth(p) == Value("bool", "i", AsBit(p), 1)
  IN  CASE t.k \in {"const", "var"} -> t.v
        [] t.k = "+" -> number(Plus(a, b))
        [] t.k = "-" -> number(Minus(a, b))
        [] t.k = "*" -> number(Times(a, b))
        [] t.k = "/" -> number(Over(a, b))
        [] t.k = "mod" -> number([n |-> a.n - b.n * Quot(a.n, b.n), d |-> 1])
        [] t.k = "negate" -> number([n |-> -a.n, d |-> a.d])
        [] t.k = "if" -> IF a.n = 1 THEN b ELSE ValueMeant(t.args[3])
        [] t.k = "case" -> CaseMeant(t, a, 3)
        [] t.k = "not" -> truth(a.n = 0)
        [] t.k = "and" -> truth(a.n = 1 /\ b.n = 1)
        [] t.k = "or" -> truth(a.n = 1 \/ b.n = 1)
        [] t.k \in {"<", ">="} -> truth(Less(a, b) = (t.k = "<"))
        [] t.k \in {">", "<="} -> truth(Less(b, a) = (t.k = ">"))
        [] t.k \in {"=", "<>"} -> truth(Equal(a, b) = (t.k = "="))

(* A number is stored as the value the words mean, cut to an integer, and  *)
(* never as the number that stands for "no value".                         *)
StoresValue ==
  answer = "stored" =>
    /\ stored \in (-MaxLongInt - 1)..(MaxLongInt - 1)
    /\ Readable(written) /\ Meant # None /\ IsPlain(Meant) => stored = Trunc(ValueMeant(Meant))

(* The engine "never calls diag or exits - everything comes back as an     *)
(* ExprResult" (expr.h): an expression has an answer, whatever it is.      *)
EveryTextAnswered == answer # "undefined"
=============================================================================
