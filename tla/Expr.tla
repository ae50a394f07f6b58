-------------------------------- MODULE Expr --------------------------------
(***************************************************************************)
(* Expressions in quotes (src/src/front/expr.c and its call site in        *)
(* sintactic.c): the recursive descent, the type check of the root, the    *)
(* evaluator, and what the parser stores.                                  *)
(*                                                                         *)
(* A Double is a fraction n / d: rounding is left out.  A value's eight    *)
(* bytes are told apart as far as the evaluator reads them under another   *)
(* type: low is the byte a Boolean was written to, and the constants       *)
(* SlotInt and SlotFloat are what the other readings give.  raw records    *)
(* that such a reading took part.                                          *)
(***************************************************************************)
EXTENDS ExprScan, Bitwise

CONSTANTS
  Sources,           \* the operands of a run: [words, gap]
  ShortString,       \* 255 in the code: the longest operand
  MaxLongInt,        \* 2^31 - 1 in the code: also the sentinel "no value"
  Symbols,           \* the user's symbols: a name -> its number
  SlotInt(_),        \* a Double's bytes read as an integer
  SlotFloat(_),      \* an integer's bytes read as a Double
  Real(_, _),        \* a function of the C library, as a value
  Before(_, _)       \* the order of two strings

(* -------------------------------- values ------------------------------- *)
NoStr == "(no string)"       \* the pointer of a value that has no string
Value(type, k, n, d) ==
  [type |-> type, k |-> k, n |-> n, d |-> d, low |-> 0, str |-> NoStr, raw |-> FALSE]
Integer(n) == Value("int", "i", Wrap(n), 1)
Double(n, d) == Value("float", "f", n, d)
Raise == Value("raise", "i", 0, 1)
Undefined == Value("undefined", "i", 0, 1)       \* a string read through no pointer
Stops(v) == v.type \in {"raise", "undefined"}

Abs(n) == IF n < 0 THEN -n ELSE n
Quot(a, b) == (IF (a < 0) = (b < 0) THEN 1 ELSE -1) * (Abs(a) \div Abs(b))
Fraction(n, d) == IF d < 0 THEN [n |-> -n, d |-> -d] ELSE [n |-> n, d |-> d]

ReadInt(v) == IF v.k = "i" THEN v.n ELSE SlotInt(v)
ReadFloat(v) == IF v.k = "f" THEN v ELSE SlotFloat(v)
(* A condition that looks at the whole slot.                               *)
MutantReadByte(v) == IF v.k = "i" THEN v.n ELSE v.low

ReadByte(v) == IF v.k = "i" THEN v.n % 256 ELSE v.low

SetInt(v, n) == [v EXCEPT !.k = "i", !.n = Wrap(n), !.d = 1, !.low = 0]
SetFloat(v, q) ==
  IF Abs(q.n) > FloatLimit * q.d THEN Raise
  ELSE [v EXCEPT !.k = "f", !.n = q.n, !.d = q.d, !.low = 0]
SetType(v, type) == IF Stops(v) THEN v ELSE [v EXCEPT !.type = type]

(* A Boolean is stored into one byte; the other seven stay as they are.    *)
ValBool(v, b) ==
  SetType(IF v.k = "i" THEN [v EXCEPT !.n = Wrap(@ - (@ % 256) + b)] ELSE [v EXCEPT !.low = b],
          "bool")
AsBit(b) == IF b THEN 1 ELSE 0

(* --------------------------- trees and types --------------------------- *)
Node(k, args) == [k |-> k, id |-> "", v |-> Raise, args |-> args]
Const(v) == [Node("const", <<>>) EXCEPT !.v = v]
Int2Float(node) == Node("int2float", <<node>>)

IntFunctions == {"round", "trunc"}
Functions == IntFunctions \cup
  {"cos", "sin", "arctan", "abs", "sqr", "sqrt", "exp", "ln", "log", "frac", "int"}

Comparisons == {"<", "<=", ">", ">=", "=", "<>"}

RECURSIVE NodeType(_)
NodeType(t) ==
  CASE t.k = "const" -> t.v.type
    [] t.k = "func" -> IF t.id \in IntFunctions THEN "int" ELSE "float"
    [] t.k = "if" -> NodeType(t.args[2])
    [] t.k = "case" -> IF Len(t.args) > 1 THEN NodeType(t.args[2]) ELSE "int"
    [] t.k \in {"var", "int2float", "/", "^"} -> "float"
    [] t.k = "mod" -> "int"
    [] t.k \in Comparisons -> "bool"
    [] OTHER -> NodeType(t.args[1])

ConvertNode(t, to) == IF NodeType(t) = "int" /\ to = "float" THEN Int2Float(t) ELSE t

(* Only the left operand is converted.                                     *)
MutantMatched(k, l, r) == Node(k, <<ConvertNode(l, NodeType(r)), r>>)

(* An operation on an integer and a Double converts the integer.           *)
Matched(k, l, r) ==
  Node(k, <<ConvertNode(l, NodeType(r)), ConvertNode(r, NodeType(l))>>)

Numeric == {"int", "float"}
Types(t) == {NodeType(t.args[i]) : i \in DOMAIN t.args}
SameTypes(l, r) == NodeType(l) = NodeType(r)

(* The check of one node, which does not go down into its operands.        *)
Check(t) ==
  CASE t.k \in {"const", "var", "int2float"} -> TRUE
    [] t.k = "func" -> Types(t) \subseteq Numeric
    [] t.k = "if" -> NodeType(t.args[1]) = "bool" /\ SameTypes(t.args[2], t.args[3])
    [] t.k = "case" ->
         /\ Len(t.args) >= 3 /\ Len(t.args) % 2 = 0
         /\ \A i \in 3..Len(t.args) :
              IF i % 2 = 1 THEN t.args[i].k = "const" /\ SameTypes(t.args[i], t.args[1])
                           ELSE SameTypes(t.args[i], t.args[2])
    [] t.k = "not" -> Types(t) \subseteq {"bool", "int"}
    [] t.k = "negate" -> Types(t) \subseteq Numeric
    [] t.k \in {"and", "or", "xor"} ->
         Types(t) \subseteq {"bool", "int"} /\ SameTypes(t.args[1], t.args[2])
    [] t.k \in {"=", "<>"} -> SameTypes(t.args[1], t.args[2])
    [] t.k \in {"<", "<=", ">", ">=", "+"} ->
         Types(t) \subseteq Numeric \cup {"string"} /\ SameTypes(t.args[1], t.args[2])
    [] t.k \in {"-", "*", "/"} ->
         Types(t) \subseteq Numeric /\ SameTypes(t.args[1], t.args[2])
    [] t.k = "mod" -> Types(t) \subseteq {"int"}
    [] t.k = "^" -> Types(t) \subseteq Numeric

(* The check also converts the argument of a function at the root.         *)
CheckedRoot(t) ==
  IF t.k = "func" THEN [t EXCEPT !.args[1] = ConvertNode(@, "float")] ELSE t

(* -------------------------- recursive descent -------------------------- *)
(* A level gets the tokens and the current position and returns a tree and *)
(* the position behind it.  Position 0 is where a message leads: it has no *)
(* token, so that everything gives up there.                               *)
TT(ts, p) == IF p = 0 THEN "raise" ELSE ts[p].tt
NextToken(ts, p) ==
  IF TT(ts, p) \in {"raise", "eof"} THEN p ELSE IF TT(ts, p + 1) = "bad" THEN 0 ELSE p + 1
CheckEof(ts, p) == IF TT(ts, p) = "eof" THEN 0 ELSE p
At(node, p) == [node |-> node, p |-> p]
Failed == At(Const(Raise), 0)

(* The level of a rank: every level reaches the next one through it.       *)
RECURSIVE Level(_, _, _), Logic(_, _), Sums(_, _), Products(_, _), Powers(_, _),
          Arguments(_, _, _, _)

Level2(ts, p) ==
  LET l == Level(3, ts, p)
      k == TT(ts, l.p)
      r == Level(3, ts, CheckEof(ts, NextToken(ts, l.p)))
  IN  IF k \in Comparisons THEN At(Matched(k, l.node, r.node), r.p) ELSE l

(* "and" binds no tighter than "or".                                       *)
Logic(ts, l) ==
  LET k == TT(ts, l.p)
      r == Level(2, ts, CheckEof(ts, NextToken(ts, l.p)))
  IN  IF k \in {"and", "or", "xor"} THEN Logic(ts, At(Node(k, <<l.node, r.node>>), r.p)) ELSE l

Level1(ts, p) ==
  LET r == Level(2, ts, CheckEof(ts, NextToken(ts, p)))
  IN  Logic(ts, IF TT(ts, p) = "not" THEN At(Node("not", <<r.node>>), r.p) ELSE Level(2, ts, p))

Sums(ts, l) ==
  LET k == TT(ts, l.p)
      r == Level(4, ts, CheckEof(ts, NextToken(ts, l.p)))
  IN  IF k \in {"+", "-"} THEN Sums(ts, At(Matched(k, l.node, r.node), r.p)) ELSE l
Level3(ts, p) == Sums(ts, Level(4, ts, p))

Products(ts, l) ==
  LET k == TT(ts, l.p)
      r == Level(5, ts, NextToken(ts, l.p))
  IN  IF k \in {"*", "/", "mod"} THEN Products(ts, At(Matched(k, l.node, r.node), r.p)) ELSE l
Level4(ts, p) == Products(ts, Level(5, ts, p))

(* At most one sign.                                                       *)
Level5(ts, p) ==
  LET r == Level(6, ts, NextToken(ts, p))
  IN  CASE TT(ts, p) = "-" -> At(Node("negate", <<r.node>>), r.p)
        [] TT(ts, p) = "+" -> r
        [] OTHER -> Level(6, ts, p)

(* The last argument of a function or an if() is followed by ")"; that of  *)
(* a case() is the first one from the fourth on that is.  From there on    *)
(* any other token separates two arguments.                                *)
Arguments(ts, p, count, args) ==
  LET r == Level(1, ts, NextToken(ts, p))
      all == Append(args, r.node)
      least == IF count < 0 THEN -count ELSE count
      ends == Len(all) = count \/ (count < 0 /\ TT(ts, r.p) = ")")
  IN  IF r.p = 0 \/ (TT(ts, r.p) # "," /\ Len(all) < least) THEN Failed
      ELSE IF ~ends THEN Arguments(ts, r.p, count, all)
      ELSE IF TT(ts, r.p) = ")" THEN At(Node("args", all), r.p) ELSE Failed

(* A name of the user's hides a built-in one.                              *)
Identifier(id) ==
  CASE id \in DOMAIN Symbols -> [Node("var", <<>>) EXCEPT !.id = id, !.v = Double(Symbols[id], 1)]
    [] id \notin DOMAIN Symbols /\ id = "pi" -> [Node("var", <<>>) EXCEPT !.id = id, !.v = Real("pi", Raise)]
    [] id \notin DOMAIN Symbols /\ id \in Functions -> [Node("func", <<>>) EXCEPT !.id = id]
    [] OTHER -> Failed.node

Number(tok) ==
  IF TryStrToInt64(tok).ok THEN Integer(TryStrToInt64(tok).value)
  ELSE Double(ValReal(tok).n, ValReal(tok).d)

Primitive(ts, p) ==
  LET tt == TT(ts, p)
      tok == ts[p].tok
      zero == Value("bool", "i", 0, 1)
      call == CASE tt = "identifier" -> Identifier(tok)
                [] tt \in {"if", "case"} -> Node(tt, <<>>)
                [] OTHER -> Failed.node
      count == CASE tt = "if" -> 3 [] tt = "case" -> -4 [] OTHER -> 1
      args == IF TT(ts, NextToken(ts, p)) = "("
              THEN Arguments(ts, NextToken(ts, p), count, <<>>) ELSE Failed
  IN  CASE tt = "number" -> At(Const(Number(tok)), NextToken(ts, p))
        [] tt = "string" ->
             At(Const([zero EXCEPT !.type = "string", !.str = tok]), NextToken(ts, p))
        [] tt \in {"true", "false"} ->
             At(Const(ValBool(zero, AsBit(tt = "true"))), NextToken(ts, p))
        [] tt \in {"identifier", "if", "case"} ->
             IF call.k = "const" THEN Failed
             ELSE IF call.k = "var" THEN At(call, NextToken(ts, p))
             ELSE At([call EXCEPT !.args = args.node.args], NextToken(ts, args.p))
        [] OTHER -> Failed

Level7(ts, p) ==
  LET r == Level(1, ts, NextToken(ts, p))
  IN  IF TT(ts, p) # "(" THEN Primitive(ts, p)
      ELSE At(r.node, IF TT(ts, r.p) = ")" THEN NextToken(ts, r.p) ELSE 0)

(* A power groups like a product.                                          *)
MutantPowers(ts, l) ==
  LET r == Level(7, ts, NextToken(ts, l.p))
  IN  IF TT(ts, l.p) = "^" THEN Powers(ts, At(Matched("^", l.node, r.node), r.p)) ELSE l

(* The right operand of a power takes in the rest of the chain.            *)
Powers(ts, l) ==
  LET r == Level(5, ts, NextToken(ts, l.p))
  IN  IF TT(ts, l.p) = "^" THEN Powers(ts, At(Matched("^", l.node, r.node), r.p)) ELSE l
Level6(ts, p) == Powers(ts, Level(7, ts, p))

Level(n, ts, p) ==
  CASE n = 1 -> Level1(ts, p)
    [] n = 2 -> Level2(ts, p)
    [] n = 3 -> Level3(ts, p)
    [] n = 4 -> Level4(ts, p)
    [] n = 5 -> Level5(ts, p)
    [] n = 6 -> Level6(ts, p)
    [] n = 7 -> Level7(ts, p)

(* ------------------------------ evaluation ----------------------------- *)
ReadAs(v, type) == v.raw \/ v.type # type
Marked(v, raw) == IF Stops(v) THEN v ELSE [v EXCEPT !.raw = @ \/ raw]

Unsigned(n) == n % 2 ^ IntBits
Bits(k, a, b) == CASE k = "and" -> a & b [] k = "or" -> a | b [] k = "xor" -> a ^^ b

Plus(a, b) == [n |-> a.n * b.d + b.n * a.d, d |-> a.d * b.d]
Minus(a, b) == [n |-> a.n * b.d - b.n * a.d, d |-> a.d * b.d]
Times(a, b) == [n |-> a.n * b.n, d |-> a.d * b.d]
Over(a, b) == Fraction(a.n * b.d, a.d * b.n)
Less(a, b) == Minus(a, b).n < 0 \/ (Minus(a, b).n = 0 /\ a.low < b.low)
Equal(a, b) == Minus(a, b).n = 0 /\ a.low = b.low
Whole(q) == q.n % q.d = 0
Trunc(q) == Quot(q.n, q.d)
Nearest(q) ==                                    \* a half goes to the even one
  LET below == q.n \div q.d
      twice == 2 * (q.n % q.d)
  IN  IF twice > q.d \/ (twice = q.d /\ below % 2 = 1) THEN below + 1 ELSE below

(* n / d to an integer power, or a Double too large.                       *)
RECURSIVE Exp(_, _)
Exp(q, e) ==
  LET half == Exp(q, e \div 2)
  IN  IF e = 0 THEN [n |-> 1, d |-> 1]
      ELSE IF Abs(half.n) > FloatLimit * half.d THEN half
      ELSE IF e % 2 = 0 THEN Times(half, half) ELSE Times(Times(half, half), q)

ArgToFloat(v) == IF v.type = "int" THEN Double(ReadInt(v), 1) ELSE ReadFloat(v)
InInt(n) == -MaxInt - 1 <= n /\ n <= MaxInt

(* exp(y * ln(x)) with the sign of a negative base put back.               *)
Power(v, x, y) ==
  CASE y.n = 0 -> SetFloat(v, [n |-> 1, d |-> 1])
    [] y.n # 0 /\ x.n = 0 -> IF y.n > 0 THEN SetFloat(v, [n |-> 0, d |-> 1]) ELSE Raise
    [] y.n # 0 /\ x.n # 0 /\ Whole(y) ->
         IF x.n < 0 /\ ~InInt(Trunc(y)) THEN Raise
         ELSE IF y.n > 0 THEN SetFloat(v, Exp(x, Trunc(y)))
         ELSE LET r == Exp(Over([n |-> 1, d |-> 1], x), -Trunc(y)) IN SetFloat(v, r)
    [] OTHER -> IF x.n < 0 THEN Raise ELSE SetFloat(v, Real("power", <<x, y>>))

Function(id, v) ==
  LET x == ArgToFloat(v)
      integer == IF id = "round" THEN Nearest(x) ELSE Trunc(x)
  IN  Marked(
        CASE id \in IntFunctions -> IF InInt(integer) THEN Integer(integer) ELSE Raise
          [] id = "abs" -> SetFloat(Double(0, 1), [n |-> Abs(x.n), d |-> x.d])
          [] id = "sqr" -> SetFloat(Double(0, 1), Times(x, x))
          [] id = "int" -> Double(Trunc(x), 1)
          [] id = "frac" -> Double(x.n - Trunc(x) * x.d, x.d)
          [] id \in {"ln", "log"} /\ x.n <= 0 -> Raise
          [] id = "sqrt" /\ x.n < 0 -> Raise
          [] OTHER -> SetFloat(Double(0, 1), Real(id, x)),
        v.raw \/ v.type \notin Numeric)

(* The comparisons "<" and ">=" read the right operand as the left one's   *)
(* type; ">" and "<=" look at its own.                                     *)
Compare(k, l, r) ==
  LET own == k \in {">", "<="} /\ r.type = "int"
      right == IF own THEN Double(ReadInt(r), 1) ELSE ReadFloat(r)
      ints == l.type = "int" /\ (k \in {"<", ">="} \/ r.type = "int")
      left == IF l.type = "int" THEN Double(ReadInt(l), 1) ELSE ReadFloat(l)
      less == CASE ints -> ReadInt(l) < ReadInt(r)
                [] l.type = "string" -> Before(l.str, r.str)
                [] OTHER -> Less(left, right)
      greater == CASE ints -> ReadInt(l) > ReadInt(r)
                   [] l.type = "string" -> Before(r.str, l.str)
                   [] OTHER -> Less(right, left)
      same == CASE l.type = "bool" -> ReadByte(l) = ReadByte(r)
                [] l.type = "int" -> ReadInt(l) = ReadInt(r)
                [] l.type = "string" -> l.str = r.str
                [] OTHER -> Equal(ReadFloat(l), ReadFloat(r))
      holds == CASE k = "<" -> less [] k = ">=" -> ~less [] k = ">" -> greater
                 [] k = "<=" -> ~greater [] k = "=" -> same [] k = "<>" -> ~same
      converts == k \in {">", "<="} /\ {l.type, r.type} \subseteq Numeric
  IN  IF l.type = "string" /\ NoStr \in {l.str, r.str} THEN Undefined
      ELSE Marked(ValBool(l, AsBit(holds)), r.raw \/ (r.type # l.type /\ ~converts))

Logical(k, l, r) ==
  CASE l.type = "bool" ->
         Marked(ValBool(l, Bits(k, ReadByte(l), ReadByte(r))), ReadAs(r, "bool"))
    [] l.type = "int" ->
         Marked(SetInt(l, Bits(k, Unsigned(ReadInt(l)), Unsigned(ReadInt(r)))), ReadAs(r, "int"))
    [] OTHER -> Marked(l, r.raw)

Arithmetic(k, l, r) ==
  LET a == ReadInt(l)
      b == ReadInt(r)
      x == ReadFloat(l)
      y == ReadFloat(r)
  IN  CASE l.type = "int" /\ k = "+" -> SetInt(l, a + b)
        [] l.type = "int" /\ k = "-" -> SetInt(l, a - b)
        [] l.type = "int" /\ k = "*" -> SetInt(l, a * b)
        [] l.type = "float" /\ k = "+" -> SetFloat(l, Plus(x, y))
        [] l.type = "float" /\ k = "-" -> SetFloat(l, Minus(x, y))
        [] l.type = "float" /\ k = "*" -> SetFloat(l, Times(x, y))
        [] l.type = "string" /\ k = "+" ->
             IF NoStr \in {l.str, r.str} THEN Undefined ELSE [l EXCEPT !.str = @ \o r.str]
        [] k = "/" ->
             LET q == IF l.type = "int" THEN Double(b, 1) ELSE y
                 p == IF l.type = "int" THEN Double(a, 1) ELSE x
             IN  IF q.n = 0 THEN Raise ELSE SetType(SetFloat(l, Over(p, q)), "float")
        [] k = "mod" ->
             IF b = 0 THEN Raise
             ELSE SetType(SetInt(l, IF b = -1 THEN 0 ELSE a - b * Quot(a, b)), "int")
        [] k = "^" -> SetType(Power(l, ArgToFloat(l), ArgToFloat(r)), "float")
        [] OTHER -> l

ReadsRaw(k, l, r) ==
  CASE k = "mod" -> l.type # "int" \/ r.type # "int"
    [] k = "^" -> l.type \notin Numeric \/ r.type \notin Numeric
    [] k = "/" /\ l.type # "int" -> l.type # "float" \/ r.type # "float"
    [] OTHER -> l.type # r.type

Unary(k, v) ==
  CASE k = "int2float" -> Marked(SetType(SetFloat(v, Double(ReadInt(v), 1)), "float"), ReadAs(v, "int"))
    [] k = "not" /\ v.type = "int" -> SetInt(v, -ReadInt(v) - 1)
    [] k = "not" /\ v.type = "bool" -> ValBool(v, AsBit(ReadByte(v) = 0))
    [] k = "negate" /\ v.type = "int" -> SetInt(v, -ReadInt(v))
    [] k = "negate" /\ v.type = "float" ->
         LET x == ReadFloat(v) IN SetFloat(v, [n |-> -x.n, d |-> x.d])
    [] OTHER -> v

RECURSIVE Eval(_), Case(_, _, _)

(* The first label equal to the tag names the value; without one it is the *)
(* second argument, and under an odd count only a type.                    *)
Case(t, tag, i) ==
  LET label == Eval(t.args[i])
      match == CASE tag.type = "bool" -> ReadByte(tag) = ReadByte(label)
                 [] tag.type = "int" -> ReadInt(tag) = ReadInt(label)
                 [] tag.type = "string" -> tag.str = label.str
                 [] OTHER -> Equal(ReadFloat(tag), ReadFloat(label))
      nothing == [Value(NodeType(t), "i", 0, 1) EXCEPT !.raw = TRUE]
  IN  IF i > Len(t.args)
      THEN IF Len(t.args) % 2 = 0 THEN Eval(t.args[2]) ELSE nothing
      ELSE IF Stops(label) THEN label
      ELSE IF tag.type = "string" /\ NoStr \in {tag.str, label.str} THEN Undefined
      ELSE Marked(IF ~match THEN Case(t, tag, i + 2)
                  ELSE IF i < Len(t.args) THEN Eval(t.args[i + 1]) ELSE nothing,
                  ReadAs(label, tag.type))

Binary(k, l, r) ==
  CASE k \in Comparisons -> Compare(k, l, r)
    [] k \in {"and", "or", "xor"} -> Logical(k, l, r)
    [] OTHER -> Marked(Arithmetic(k, l, r), r.raw \/ ReadsRaw(k, l, r))

Eval(t) ==
  LET first == Eval(t.args[1])
      second == Eval(t.args[2])
      result == Binary(t.k, first, second)
  IN  CASE t.k \in {"const", "var"} -> t.v
        [] t.k \notin {"const", "var"} /\ Stops(first) -> first
        [] OTHER ->
             CASE t.k = "func" -> Function(t.id, first)
               [] t.k = "if" ->
                    Marked(Eval(t.args[IF ReadByte(first) # 0 THEN 2 ELSE 3]),
                           ReadAs(first, "bool"))
               [] t.k = "case" -> Marked(Case(t, first, 3), first.raw)
               [] t.k \in {"not", "negate", "int2float"} -> Unary(t.k, first)
               [] OTHER -> IF Stops(second) THEN second
                           ELSE IF t.k = "+" THEN SetType(result, NodeType(t)) ELSE result

(* ------------------------------ the call ------------------------------- *)
VARIABLES
  written,     \* the words of the source and what stands between them
  text,        \* the operand, between its quotes
  step,        \* what comes next: "set", "evaluate", "store", "done"
  tree,        \* the parsed expression
  result,      \* what the engine answers
  answer,      \* what the caller makes of it: "stored", or why not
  stored       \* the number it takes

vars == <<written, text, step, tree, result, answer, stored>>

(* The words of a source with its gap between them.                        *)
Spelled(source) ==
  LET join[i \in 0..Len(source.words)] ==
        IF i = 0 THEN ""
        ELSE join[i - 1] \o (IF i = 1 THEN "" ELSE source.gap) \o source.words[i]
  IN  join[Len(source.words)]

(* The operand is cut off at 255 characters and then loses one at either   *)
(* end, which is the closing quote only when nothing was cut off.          *)
Operand(s) == SubSeq(s, 1, (IF Len(s) + 2 > ShortString THEN ShortString ELSE Len(s) + 2) - 2)

RootOf(ts, r) == IF Len(ts) > 1 /\ TT(ts, r.p) = "eof" THEN r.node ELSE Failed.node
Parse(ts) == RootOf(ts, Level(1, ts, 1))

Init ==
  /\ written \in Sources
  /\ text = Spelled(written)
  /\ step = "set" /\ tree = Failed.node /\ result = Raise /\ answer = "none" /\ stored = 0

Stop(why) == step' = "done" /\ answer' = why

SetExpression ==
  /\ step = "set"
  /\ \E ts \in {TokensFrom(Operand(text), 1)} : \E root \in {Parse(ts)} :
       IF root = Failed.node \/ ~Check(root)
       THEN tree' = root /\ Stop("invalid")
       ELSE tree' = CheckedRoot(root) /\ step' = "evaluate" /\ UNCHANGED answer
  /\ UNCHANGED <<written, text, result, stored>>

Evaluate ==
  /\ step = "evaluate"
  /\ result' = Eval(tree)
  /\ CASE result'.type = "raise" -> Stop("invalid")
       [] result'.type = "undefined" -> Stop("undefined")
       [] OTHER -> step' = "store" /\ UNCHANGED answer
  /\ UNCHANGED <<written, text, tree, stored>>

(* A Double is cut to an integer first; the largest Longint is the mark    *)
(* that there is no value.                                                 *)
Store ==
  /\ step = "store"
  /\ LET n == IF result.type = "int" THEN ReadInt(result) ELSE Trunc(ReadFloat(result))
     IN  /\ IF result.type \notin Numeric THEN Stop("not numeric")
            ELSE IF ~InInt(n) \/ n < -MaxLongInt - 1 \/ n > MaxLongInt THEN Stop("out of range")
            ELSE IF n = MaxLongInt THEN Stop("not valid") ELSE Stop("stored")
         /\ stored' = IF answer' = "stored" THEN n ELSE 0
  /\ UNCHANGED <<written, text, tree, result>>

Next == SetExpression \/ Evaluate \/ Store
Spec == Init /\ [][Next]_vars
=============================================================================
