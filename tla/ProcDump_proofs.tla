--------------------------- MODULE ProcDump_proofs ---------------------------
(***************************************************************************)
(* Theorems about ProcDump, for every set of jobs, behind the lemmas about *)
(* ProcCode: what a condact becomes, and that equal hashes mean equal      *)
(* bytes once an opcode determines how many parameters follow.             *)
(***************************************************************************)
EXTENDS ProcDump, Basics

-----------------------------------------------------------------------------
(* Condacts and their bytes.                                               *)

(* Bytes put one after the other.                                          *)
LEMMA ConcatBytes ==
  ASSUME NEW s \in Seq(Bytes), NEW t \in Seq(Bytes)
  PROVE  /\ s \o t \in Seq(Bytes)
         /\ Len(s \o t) = Len(s) + Len(t)
         /\ Len(s) \in Nat /\ Len(t) \in Nat
BY ConcatProperties, LenProperties, Zenon

(* What the dump pushes for a condact is bytes, as many as it counts.      *)
LEMMA CondactBytesCounted ==
  ASSUME NEW k \in CONDACT
  PROVE  /\ CondactBytes(k) \in Seq(Bytes)
         /\ EmittedSize(k) \in Nat
         /\ Len(CondactBytes(k)) = EmittedSize(k)
<1> DEFINE P == k.Params
           n == Len(P)
           prefix == IF HasIndirPrefix(k) THEN <<IndirOpcode, P[2] % 256>>
                     ELSE <<>>
           op == <<EmittedOpcode(k) % 256>>
           params == [i \in 1..n |-> P[i] % 256]
<1>1. n \in Nat /\ \A i \in 1..n : P[i] \in Nat
  BY DEF CONDACT
<1>2. HasIndirPrefix(k) => n > 1
  BY DEF HasIndirPrefix, NumParams
<1>3. CondactBytes(k) = prefix \o op \o params
  BY DEF CondactBytes, NumParams
<1>4. EmittedSize(k) = (IF HasIndirPrefix(k) THEN 2 ELSE 0) + 1 + n
  BY DEF EmittedSize, NumParams
<1>5. op \in Seq(Bytes) /\ Len(op) = 1
  <2>1. EmittedOpcode(k) \in Nat
    BY DEF EmittedOpcode, WithBit7, CONDACT
  <2> QED
    BY <2>1 DEF Bytes
<1> HIDE DEF P, n
<1>6. prefix \in Seq(Bytes) /\ Len(prefix) = IF HasIndirPrefix(k) THEN 2 ELSE 0
  <2>1. CASE HasIndirPrefix(k)
    <3>1. P[2] \in Nat
      BY <1>1, <1>2, <2>1
    <3>2. P[2] % 256 \in Bytes /\ IndirOpcode \in Bytes
      BY <3>1 DEF IndirOpcode, Bytes
    <3> QED
      BY <2>1, <3>2
  <2>2. CASE ~HasIndirPrefix(k)
    BY <2>2
  <2> QED
    BY <2>1, <2>2
<1>7. params \in Seq(Bytes) /\ Len(params) = n
  <2>1. \A i \in 1..n : P[i] % 256 \in Bytes
    BY <1>1 DEF Bytes
  <2> QED
    BY <1>1, <2>1
<1> HIDE DEF prefix, op, params
<1>8. /\ prefix \o op \in Seq(Bytes)
      /\ Len(prefix \o op) = Len(prefix) + 1
  BY <1>5, <1>6, ConcatBytes
<1>9. /\ (prefix \o op) \o params \in Seq(Bytes)
      /\ Len((prefix \o op) \o params) = Len(prefix) + 1 + n
  BY <1>1, <1>6, <1>7, <1>8, ConcatBytes
<1> QED
  BY <1>1, <1>3, <1>4, <1>6, <1>9

-----------------------------------------------------------------------------
(* The recursive functions satisfy their equations.                        *)

(* What the dump writes from a condact on, given what it writes next.      *)
Continued(k, debug, classic, rest) ==
  IF EmitsNothing(k, debug) THEN rest
  ELSE IF ~classic /\ IsTerminator(k) THEN CondactBytes(k)
  ELSE CondactBytes(k) \o rest

(* What the dump writes from each condact on: bytes, from the next.        *)
LEMMA TailBytesEquation ==
  ASSUME NEW b \in Seq(CONDACT), NEW debug, NEW classic
  PROVE  /\ TailBytes(b, debug, classic) \in [1 .. Len(b) + 1 -> Seq(Bytes)]
         /\ TailBytes(b, debug, classic)[Len(b) + 1] = <<EndMark>>
         /\ \A i \in 1..Len(b) :
              TailBytes(b, debug, classic)[i] =
                Continued(b[i], debug, classic, TailBytes(b, debug, classic)[i + 1])
<1> DEFINE n == Len(b)
           S == Seq(Bytes)
           Value(i, rest) == Continued(b[i], debug, classic, rest)
           step == [x \in (1..n) \X S |-> Value(x[1], x[2])]
           Eq(f) == f = [i \in 1 .. n + 1 |-> IF i > n THEN <<EndMark>>
                                              ELSE Value(i, f[i + 1])]
           g == TailBytes(b, debug, classic)
<1>1. n \in Nat /\ \A i \in 1..n : b[i] \in CONDACT
  BY LenProperties, ElementOfSeq
<1>2. <<EndMark>> \in S
  BY DEF EndMark, Bytes
<1>3. \A i \in 1..n : \A rest \in S : Value(i, rest) \in S
  <2> SUFFICES ASSUME NEW i \in 1..n, NEW rest \in S PROVE Value(i, rest) \in S
    OBVIOUS
  <2>1. CondactBytes(b[i]) \in S
    BY <1>1, CondactBytesCounted
  <2>2. CondactBytes(b[i]) \o rest \in S
    BY <2>1, ConcatBytes
  <2>3. QED
    BY <2>1, <2>2 DEF Continued
<1>4. step \in [(1..n) \X S -> S]
  <2> HIDE DEF Value
  <2>1. QED
    BY <1>3
<1>5. \A i \in 1..n : \A rest \in S : step[<<i, rest>>] = Value(i, rest)
  <2> HIDE DEF Value
  <2>1. QED
    OBVIOUS
<1> HIDE DEF step
<1>6. PICK f \in [1 .. n + 1 -> S] :
         /\ f[n + 1] = <<EndMark>>
         /\ \A i \in 1..n : f[i] = step[<<i, f[i + 1]>>]
  <2> HIDE DEF n, S
  <2>1. \E f : IsBackward(f, n, S, <<EndMark>>, step)
    BY <1>1, <1>2, <1>4, BackwardRecursion, Zenon
  <2>2. QED
    BY <2>1 DEF IsBackward
<1>7. \A i \in 1..n : f[i] = Value(i, f[i + 1])
  <2> HIDE DEF Value
  <2>1. \A i \in 1..n : f[i + 1] \in S
    BY <1>1, <1>6
  <2>2. QED
    BY <1>5, <1>6, <2>1
<1>8. Eq(f)
  <2> HIDE DEF Value
  <2>1. \A i \in 1 .. n + 1 : f[i] = IF i > n THEN <<EndMark>> ELSE Value(i, f[i + 1])
    <3> SUFFICES ASSUME NEW i \in 1 .. n + 1
                 PROVE  f[i] = IF i > n THEN <<EndMark>> ELSE Value(i, f[i + 1])
      OBVIOUS
    <3>1. CASE i = n + 1
      BY <1>1, <1>6, <3>1
    <3>2. CASE i # n + 1
      BY <1>1, <1>7, <3>2
    <3>3. QED
      BY <3>1, <3>2
  <2>2. QED
    BY <1>6, <2>1
<1>9. Eq(g)
  BY <1>8, Zenon DEF TailBytes, Continued
<1>10. \A i \in 1 .. n + 1 : g[i] = IF i > n THEN <<EndMark>> ELSE Value(i, g[i + 1])
  <2> HIDE DEF Value, g
  <2>1. QED
    BY <1>9, Zenon
<1>11. g[n + 1] = <<EndMark>> /\ \A i \in 1..n : g[i] = Value(i, g[i + 1])
  <2> HIDE DEF Value, g
  <2>1. QED
    BY <1>1, <1>10
<1>12. g \in [1 .. n + 1 -> S]
  <2> HIDE DEF Value, g
  <2> DEFINE T == {m \in Nat : m <= n => g[n + 1 - m] \in S}
  <2>1. 0 \in T
    <3>1. n + 1 - 0 = n + 1
      BY <1>1
    <3>2. QED
      BY <1>2, <1>11, <3>1
  <2>2. ASSUME NEW m \in T PROVE m + 1 \in T
    <3> SUFFICES ASSUME m + 1 <= n PROVE g[n + 1 - (m + 1)] \in S
      BY <2>2
    <3>1. n - m \in 1..n /\ n + 1 - (m + 1) = n - m /\ n - m + 1 = n + 1 - m
      BY <1>1, <2>2
    <3>2. g[n + 1 - m] \in S
      BY <1>1, <2>2
    <3>3. g[n - m] = Value(n - m, g[n - m + 1])
      BY <1>11, <3>1
    <3>4. QED
      BY <1>3, <3>1, <3>2, <3>3
  <2>3. T = Nat
    <3>1. T \subseteq Nat
      OBVIOUS
    <3> HIDE DEF T
    <3>2. QED
      BY <2>1, <2>2, <3>1, Induction
  <2>4. ASSUME NEW i \in 1 .. n + 1 PROVE g[i] \in S
    <3>1. n + 1 - i \in Nat /\ n + 1 - i <= n /\ n + 1 - (n + 1 - i) = i
      BY <1>1
    <3>2. n + 1 - i \in T
      BY <2>3, <3>1
    <3>3. QED
      BY <3>1, <3>2
  <2>5. QED
    BY <1>9, <2>4
<1>13. QED
  BY <1>11, <1>12, Zenon

(* The numbers a condact prints are marked naturals.                       *)
Token == {"", "@"} \X Nat

(* The entry of a condact in a hash is a list of marked numbers.           *)
LEMMA HashTokensTyped ==
  ASSUME NEW k \in CONDACT, NEW debug
  PROVE  HashTokens(k, debug) \in Seq(Token)
<1> DEFINE n == Len(k.Params)
           op == <<<<"", EmittedOpcode(k)>>>>
           mark(i) == IF i = 2 /\ k.Indirection2 THEN "@" ELSE ""
           params == [i \in 1..n |-> <<mark(i), k.Params[i]>>]
<1>1. n \in Nat /\ \A i \in 1..n : k.Params[i] \in Nat
  BY DEF CONDACT
<1>2. op \in Seq(Token)
  <2>1. EmittedOpcode(k) \in Nat
    BY DEF EmittedOpcode, WithBit7, CONDACT
  <2> DEFINE first == <<"", EmittedOpcode(k)>>
  <2>2. first \in Token
    BY <2>1, Zenon DEF Token
  <2> HIDE DEF first
  <2>3. <<first>> \in Seq(Token)
    BY <2>2
  <2>4. QED
    BY <2>3 DEF first
<1>3. params \in Seq(Token)
  <2>1. \A i \in 1..n : <<mark(i), k.Params[i]>> \in Token
    BY <1>1 DEF Token
  <2> HIDE DEF mark
  <2> QED
    BY <1>1, <2>1
<1>4. HashTokens(k, debug) = IF EmitsNothing(k, debug) THEN <<>> ELSE op \o params
  BY DEF HashTokens, NumParams
<1> HIDE DEF op, params
<1>5. op \o params \in Seq(Token)
  BY <1>2, <1>3, Concat
<1>6. <<>> \in Seq(Token)
  OBVIOUS
<1> QED
  BY <1>4, <1>5, <1>6

(* What is hashed from each condact on: its numbers, before the next's.    *)
LEMMA TailHashEquation ==
  ASSUME NEW b \in Seq(CONDACT), NEW debug
  PROVE  /\ TailHash(b, debug) \in [1 .. Len(b) + 1 -> Seq(Token)]
         /\ TailHash(b, debug)[Len(b) + 1] = <<>>
         /\ \A i \in 1..Len(b) :
              TailHash(b, debug)[i] =
                HashTokens(b[i], debug) \o TailHash(b, debug)[i + 1]
<1> DEFINE n == Len(b)
           S == Seq(Token)
           Value(i, rest) == HashTokens(b[i], debug) \o rest
           step == [x \in (1..n) \X S |-> Value(x[1], x[2])]
           Eq(f) == f = [i \in 1 .. n + 1 |-> IF i > n THEN <<>>
                                              ELSE Value(i, f[i + 1])]
           g == TailHash(b, debug)
<1>1. n \in Nat /\ \A i \in 1..n : b[i] \in CONDACT
  BY LenProperties, ElementOfSeq
<1>2. <<>> \in S
  OBVIOUS
<1>3. \A i \in 1..n : \A rest \in S : Value(i, rest) \in S
  <2> SUFFICES ASSUME NEW i \in 1..n, NEW rest \in S PROVE Value(i, rest) \in S
    OBVIOUS
  <2>1. HashTokens(b[i], debug) \in S
    BY <1>1, HashTokensTyped
  <2>2. QED
    BY <2>1, Concat
<1>4. step \in [(1..n) \X S -> S]
  <2> HIDE DEF Value
  <2>1. QED
    BY <1>3
<1>5. \A i \in 1..n : \A rest \in S : step[<<i, rest>>] = Value(i, rest)
  <2> HIDE DEF Value
  <2>1. QED
    OBVIOUS
<1> HIDE DEF step
<1>6. PICK f \in [1 .. n + 1 -> S] :
         /\ f[n + 1] = <<>>
         /\ \A i \in 1..n : f[i] = step[<<i, f[i + 1]>>]
  <2> HIDE DEF n, S
  <2>1. \E f : IsBackward(f, n, S, <<>>, step)
    BY <1>1, <1>2, <1>4, BackwardRecursion, Zenon
  <2>2. QED
    BY <2>1 DEF IsBackward
<1>7. \A i \in 1..n : f[i] = Value(i, f[i + 1])
  <2> HIDE DEF Value
  <2>1. \A i \in 1..n : f[i + 1] \in S
    BY <1>1, <1>6
  <2>2. QED
    BY <1>5, <1>6, <2>1
<1>8. Eq(f)
  <2> HIDE DEF Value
  <2>1. \A i \in 1 .. n + 1 : f[i] = IF i > n THEN <<>> ELSE Value(i, f[i + 1])
    <3> SUFFICES ASSUME NEW i \in 1 .. n + 1
                 PROVE  f[i] = IF i > n THEN <<>> ELSE Value(i, f[i + 1])
      OBVIOUS
    <3>1. CASE i = n + 1
      BY <1>1, <1>6, <3>1
    <3>2. CASE i # n + 1
      BY <1>1, <1>7, <3>2
    <3>3. QED
      BY <3>1, <3>2
  <2>2. QED
    BY <1>6, <2>1
<1>9. Eq(g)
  BY <1>8, Zenon DEF TailHash
<1>10. \A i \in 1 .. n + 1 : g[i] = IF i > n THEN <<>> ELSE Value(i, g[i + 1])
  <2> HIDE DEF Value, g
  <2>1. QED
    BY <1>9, Zenon
<1>11. g[n + 1] = <<>> /\ \A i \in 1..n : g[i] = Value(i, g[i + 1])
  <2> HIDE DEF Value, g
  <2>1. QED
    BY <1>1, <1>10
<1>12. g \in [1 .. n + 1 -> S]
  <2> HIDE DEF Value, g
  <2> DEFINE T == {m \in Nat : m <= n => g[n + 1 - m] \in S}
  <2>1. 0 \in T
    <3>1. n + 1 - 0 = n + 1
      BY <1>1
    <3>2. QED
      BY <1>2, <1>11, <3>1
  <2>2. ASSUME NEW m \in T PROVE m + 1 \in T
    <3> SUFFICES ASSUME m + 1 <= n PROVE g[n + 1 - (m + 1)] \in S
      BY <2>2
    <3>1. n - m \in 1..n /\ n + 1 - (m + 1) = n - m /\ n - m + 1 = n + 1 - m
      BY <1>1, <2>2
    <3>2. g[n + 1 - m] \in S
      BY <1>1, <2>2
    <3>3. g[n - m] = Value(n - m, g[n - m + 1])
      BY <1>11, <3>1
    <3>4. QED
      BY <1>3, <3>1, <3>2, <3>3
  <2>3. T = Nat
    <3>1. T \subseteq Nat
      OBVIOUS
    <3> HIDE DEF T
    <3>2. QED
      BY <2>1, <2>2, <3>1, Induction
  <2>4. ASSUME NEW i \in 1 .. n + 1 PROVE g[i] \in S
    <3>1. n + 1 - i \in Nat /\ n + 1 - i <= n /\ n + 1 - (n + 1 - i) = i
      BY <1>1
    <3>2. n + 1 - i \in T
      BY <2>3, <3>1
    <3>3. QED
      BY <3>1, <3>2
  <2>5. QED
    BY <1>9, <2>4
<1>13. QED
  BY <1>11, <1>12, Zenon

-----------------------------------------------------------------------------
(* Equal hashes mean equal bytes (the comment at emit_proc.c:378), as long *)
(* as tails that hash alike begin with as many parameters.                 *)

(* The tokens of a condact that is printed: its opcode, then each of its   *)
(* parameters with its mark.                                               *)
LEMMA HashTokensShape ==
  ASSUME NEW k \in CONDACT, NEW debug, ~EmitsNothing(k, debug)
  PROVE  /\ NumParams(k) \in Nat
         /\ Len(HashTokens(k, debug)) = 1 + NumParams(k)
         /\ HashTokens(k, debug)[1] = <<"", EmittedOpcode(k)>>
         /\ \A i \in 1..NumParams(k) :
              HashTokens(k, debug)[1 + i] =
                <<IF i = 2 /\ k.Indirection2 THEN "@" ELSE "", k.Params[i]>>
<1> DEFINE n == NumParams(k)
           first == <<"", EmittedOpcode(k)>>
           token(i) == <<IF i = 2 /\ k.Indirection2 THEN "@" ELSE "", k.Params[i]>>
           params == [i \in 1..n |-> token(i)]
<1>1. n \in Nat
  BY DEF CONDACT, NumParams
<1>2. HashTokens(k, debug) = <<first>> \o params
  BY DEF HashTokens
<1>3. <<first>> \in Seq({first}) /\ Len(<<first>>) = 1 /\ <<first>>[1] = first
  <2> HIDE DEF first
  <2>1. QED
    OBVIOUS
<1>4. /\ params \in Seq({token(i) : i \in 1..n}) /\ Len(params) = n
      /\ \A i \in 1..n : params[i] = token(i)
  <2> HIDE DEF token, n
  <2>1. QED
    BY <1>1
<1> DEFINE S == {first} \cup {token(i) : i \in 1..n}
<1> HIDE DEF first, token, n, params
<1>5. <<first>> \in Seq(S) /\ params \in Seq(S)
  BY <1>3, <1>4
<1> HIDE DEF S
<1>6. /\ Len(<<first>> \o params) = 1 + n
      /\ (<<first>> \o params)[1] = first
      /\ \A i \in 1..n : (<<first>> \o params)[1 + i] = params[i]
  <2>1. /\ <<first>> \o params \in Seq(S)
        /\ Len(<<first>>) \in Nat /\ Len(params) \in Nat
        /\ Len(<<first>> \o params) = Len(<<first>>) + Len(params)
        /\ \A i \in 1..Len(<<first>>) : (<<first>> \o params)[i] = <<first>>[i]
        /\ \A i \in 1..Len(params) :
             (<<first>> \o params)[Len(<<first>>) + i] = params[i]
    BY <1>5, Concat
  <2>2. QED
    BY <1>1, <1>3, <1>4, <2>1
<1>7. QED
  BY <1>1, <1>2, <1>4, <1>6, ZenonT(30) DEF n, first, token

(* Sequences that are equal and begin with parts of equal lengths are      *)
(* equal in either part.                                                   *)
LEMMA EqualParts ==
  ASSUME NEW S, NEW s \in Seq(S), NEW t \in Seq(S), NEW u \in Seq(S),
         NEW v \in Seq(S)
  PROVE  s \o t = u \o v /\ Len(s) = Len(u) => s = u /\ t = v
<1>1. /\ s \o t \in Seq(S)
      /\ Len(s) \in Nat /\ Len(t) \in Nat
      /\ Len(s \o t) = Len(s) + Len(t)
      /\ \A k \in 1..Len(s) : (s \o t)[k] = s[k]
      /\ \A k \in 1..Len(t) : (s \o t)[Len(s) + k] = t[k]
  BY Concat
<1>2. /\ u \o v \in Seq(S)
      /\ Len(u) \in Nat /\ Len(v) \in Nat
      /\ Len(u \o v) = Len(u) + Len(v)
      /\ \A k \in 1..Len(u) : (u \o v)[k] = u[k]
      /\ \A k \in 1..Len(v) : (u \o v)[Len(u) + k] = v[k]
  BY Concat
<1> SUFFICES ASSUME s \o t = u \o v, Len(s) = Len(u) PROVE s = u /\ t = v
  OBVIOUS
<1>3. Len(t) = Len(v)
  BY <1>1, <1>2
<1>4. \A k \in 1..Len(s) : s[k] = u[k]
  BY <1>1, <1>2, Zenon
<1>5. \A k \in 1..Len(t) : t[k] = v[k]
  BY <1>1, <1>2, <1>3, Zenon
<1>6. QED
  BY <1>3, <1>4, <1>5, SeqEqual

(* Condacts that print the same numbers are written as the same bytes and  *)
(* stop a dump alike, and what follows them prints the same.               *)
LEMMA SameTokensSameBytes ==
  ASSUME NEW k \in CONDACT, NEW l \in CONDACT, NEW debug,
         ~EmitsNothing(k, debug), ~EmitsNothing(l, debug),
         NEW r \in Seq(Token), NEW s \in Seq(Token),
         HashTokens(k, debug) \o r = HashTokens(l, debug) \o s,
         EmittedOpcode(k) = EmittedOpcode(l) => NumParams(k) = NumParams(l)
  PROVE  /\ CondactBytes(k) = CondactBytes(l)
         /\ IsTerminator(k) <=> IsTerminator(l)
         /\ r = s
<1> DEFINE tk == HashTokens(k, debug)
           tl == HashTokens(l, debug)
           mark(m, i) == IF i = 2 /\ m.Indirection2 THEN "@" ELSE ""
<1>1. tk \in Seq(Token) /\ tl \in Seq(Token)
  BY HashTokensTyped
<1>2. /\ NumParams(k) \in Nat /\ Len(tk) = 1 + NumParams(k)
      /\ tk[1] = <<"", EmittedOpcode(k)>>
      /\ \A i \in 1..NumParams(k) : tk[1 + i] = <<mark(k, i), k.Params[i]>>
  BY HashTokensShape
<1>3. /\ NumParams(l) \in Nat /\ Len(tl) = 1 + NumParams(l)
      /\ tl[1] = <<"", EmittedOpcode(l)>>
      /\ \A i \in 1..NumParams(l) : tl[1 + i] = <<mark(l, i), l.Params[i]>>
  BY HashTokensShape
<1> HIDE DEF tk, tl, mark
<1>4. /\ tk \o r = tl \o s
      /\ Len(tk) \in Nat /\ 1 \in 1..Len(tk) /\ Len(tl) \in Nat /\ 1 \in 1..Len(tl)
      /\ \A i \in 1..NumParams(k) : 1 + i \in 1..Len(tk)
  <2>1. \A n \in Nat : /\ 1 + n \in Nat /\ 1 \in 1 .. 1 + n
                       /\ \A i \in 1..n : 1 + i \in 1 .. 1 + n
    OBVIOUS
  <2>2. QED
    BY <1>2, <1>3, <2>1, Zenon DEF tk, tl
<1>5. EmittedOpcode(k) = EmittedOpcode(l)
  <2>2. (tk \o r)[1] = tk[1] /\ (tl \o s)[1] = tl[1]
    BY <1>1, <1>4, Concat
  <2>3. tk[1] = tl[1]
    BY <1>4, <2>2
  <2>4. <<"", EmittedOpcode(k)>> = <<"", EmittedOpcode(l)>>
    BY <1>2, <1>3, <2>3, Zenon
  <2>5. QED
    BY <2>4, Zenon
<1>6. NumParams(k) = NumParams(l)
  BY <1>5
<1>7. tk = tl /\ r = s
  BY <1>1, <1>2, <1>3, <1>4, <1>6, EqualParts
<1>8. \A i \in 1..NumParams(k) :
        mark(k, i) = mark(l, i) /\ k.Params[i] = l.Params[i]
  <2> SUFFICES ASSUME NEW i \in 1..NumParams(k)
               PROVE  mark(k, i) = mark(l, i) /\ k.Params[i] = l.Params[i]
    OBVIOUS
  <2>1. <<mark(k, i), k.Params[i]>> = <<mark(l, i), l.Params[i]>>
    BY <1>2, <1>3, <1>6, <1>7, Zenon
  <2>2. QED
    BY <2>1, Zenon
<1>9. HasIndirPrefix(k) <=> HasIndirPrefix(l)
  <2>1. CASE NumParams(k) > 1
    <3>1. 2 \in 1..NumParams(k)
      <4>1. NumParams(k) \in Nat
        BY <1>2
      <4>2. QED
        BY <2>1, <4>1
    <3>2. mark(k, 2) = mark(l, 2)
      BY <1>8, <3>1
    <3>3. k.Indirection2 \in BOOLEAN /\ l.Indirection2 \in BOOLEAN
      BY DEF CONDACT
    <3>4. k.Indirection2 <=> l.Indirection2
      BY <3>2, <3>3 DEF mark
    <3>5. QED
      BY <1>6, <2>1, <3>4 DEF HasIndirPrefix
  <2>2. CASE ~(NumParams(k) > 1)
    BY <1>6, <2>2 DEF HasIndirPrefix
  <2>3. QED
    BY <2>1, <2>2
<1>10. HasIndirPrefix(k) => k.Params[2] = l.Params[2]
  <2>1. HasIndirPrefix(k) => 2 \in 1..NumParams(k)
    <3>1. NumParams(k) \in Nat
      BY <1>2
    <3>2. QED
      BY <3>1 DEF HasIndirPrefix
  <2>2. QED
    BY <1>8, <2>1
<1>11. CondactBytes(k) = CondactBytes(l)
  <2> DEFINE n == NumParams(k)
             pk == [i \in 1..n |-> k.Params[i] % 256]
             pl == [i \in 1..n |-> l.Params[i] % 256]
             prefix(m) == IF HasIndirPrefix(m) THEN <<IndirOpcode, m.Params[2] % 256>>
                          ELSE <<>>
  <2>1. pk = pl
    BY <1>8
  <2>2. prefix(k) = prefix(l)
    BY <1>9, <1>10
  <2>3. /\ CondactBytes(k) = prefix(k) \o <<EmittedOpcode(k) % 256>> \o pk
        /\ CondactBytes(l) = prefix(l) \o <<EmittedOpcode(l) % 256>> \o pl
    BY <1>6, Zenon DEF CondactBytes
  <2> HIDE DEF pk, pl, prefix
  <2>4. QED
    BY <1>5, <2>1, <2>2, <2>3, Zenon
<1>12. QED
  BY <1>5, <1>7, <1>11, Zenon DEF IsTerminator

(* Where an opcode does tell how many parameters follow, no two readings   *)
(* of one hash compete: the first number both tails print is the opcode.   *)
LEMMA DeterminedTells ==
  ASSUME NEW a \in Seq(CONDACT), NEW b \in Seq(CONDACT), NEW debug,
         Determined(a, b, debug)
  PROVE  HashTells(a, b, debug)
<1> SUFFICES ASSUME NEW i \in 1..Len(a), NEW j \in 1..Len(b),
                    ~EmitsNothing(a[i], debug), ~EmitsNothing(b[j], debug),
                    TailHash(a, debug)[i] = TailHash(b, debug)[j]
             PROVE  NumParams(a[i]) = NumParams(b[j])
  BY DEF HashTells
<1>1. ASSUME NEW d \in Seq(CONDACT), NEW m \in 1..Len(d), ~EmitsNothing(d[m], debug)
      PROVE  TailHash(d, debug)[m][1] = <<"", EmittedOpcode(d[m])>>
  <2> DEFINE h == TailHash(d, debug)
             k == d[m]
             t == HashTokens(k, debug)
  <2>1. Len(d) \in Nat /\ k \in CONDACT
    BY LenProperties, ElementOfSeq
  <2>2. /\ h[m] = t \o h[m + 1]
        /\ h[m + 1] \in Seq(Token)
    <3>1. m + 1 \in 1 .. Len(d) + 1
      BY <2>1
    <3>2. QED
      BY <3>1, TailHashEquation, Zenon
  <2>3. /\ t \in Seq(Token) /\ NumParams(k) \in Nat /\ Len(t) = 1 + NumParams(k)
        /\ t[1] = <<"", EmittedOpcode(k)>>
    BY <1>1, <2>1, HashTokensTyped, HashTokensShape
  <2> HIDE DEF t, h, k
  <2>4. 1 \in 1..Len(t)
    <3>1. \A n \in Nat : 1 \in 1 .. 1 + n
      OBVIOUS
    <3>2. QED
      BY <2>3, <3>1, Zenon
  <2>5. (t \o h[m + 1])[1] = t[1]
    <3> DEFINE r == h[m + 1]
    <3>1. r \in Seq(Token)
      BY <2>2
    <3> HIDE DEF r
    <3>2. (t \o r)[1] = t[1]
      BY <2>3, <2>4, <3>1, Concat
    <3>3. QED
      BY <3>2 DEF r
  <2>6. QED
    BY <2>2, <2>3, <2>5 DEF h, k
<1>2. <<"", EmittedOpcode(a[i])>> = <<"", EmittedOpcode(b[j])>>
  BY <1>1, Zenon
<1>3. EmittedOpcode(a[i]) = EmittedOpcode(b[j])
  BY <1>2, Zenon
<1>4. QED
  BY <1>3, Zenon DEF Determined

(* Tails of equal hashes are dumped as equal bytes.                        *)
THEOREM SameHashSameBytes ==
  ASSUME NEW a \in Seq(CONDACT), NEW b \in Seq(CONDACT), NEW debug, NEW classic,
         HashTells(a, b, debug)
  PROVE  \A i \in 1 .. Len(a) + 1 : \A j \in 1 .. Len(b) + 1 :
           TailHash(a, debug)[i] = TailHash(b, debug)[j] =>
             TailBytes(a, debug, classic)[i] = TailBytes(b, debug, classic)[j]
<1> DEFINE na == Len(a)
           nb == Len(b)
           ha == TailHash(a, debug)
           hb == TailHash(b, debug)
           ca == TailBytes(a, debug, classic)
           cb == TailBytes(b, debug, classic)
           Agree(i, j) == ha[i] = hb[j] => ca[i] = cb[j]
           T == {m \in Nat : \A i \in 1 .. na + 1 : \A j \in 1 .. nb + 1 :
                              (na + 1 - i) + (nb + 1 - j) <= m => Agree(i, j)}
<1>1. /\ na \in Nat /\ \A i \in 1..na : a[i] \in CONDACT
      /\ nb \in Nat /\ \A j \in 1..nb : b[j] \in CONDACT
  BY LenProperties, ElementOfSeq
<1>2. /\ ha \in [1 .. na + 1 -> Seq(Token)] /\ ha[na + 1] = <<>>
      /\ \A i \in 1..na : ha[i] = HashTokens(a[i], debug) \o ha[i + 1]
  BY TailHashEquation, Zenon
<1>3. /\ hb \in [1 .. nb + 1 -> Seq(Token)] /\ hb[nb + 1] = <<>>
      /\ \A j \in 1..nb : hb[j] = HashTokens(b[j], debug) \o hb[j + 1]
  BY TailHashEquation, Zenon
<1>4. /\ ca \in [1 .. na + 1 -> Seq(Bytes)]
      /\ ca[na + 1] = <<EndMark>>
      /\ \A i \in 1..na :
           ca[i] = Continued(a[i], debug, classic, ca[i + 1])
  BY TailBytesEquation
<1>5. /\ cb \in [1 .. nb + 1 -> Seq(Bytes)]
      /\ cb[nb + 1] = <<EndMark>>
      /\ \A j \in 1..nb :
           cb[j] = Continued(b[j], debug, classic, cb[j + 1])
  BY TailBytesEquation
<1> HIDE DEF ha, hb, ca, cb
<1>6. \A h \in Seq(Token) : <<>> \o h = h
  BY ConcatEmptySeq
<1>7. \A i \in 1..na : i \in 1 .. na + 1 /\ i + 1 \in 1 .. na + 1
  BY <1>1
<1>8. \A j \in 1..nb : j \in 1 .. nb + 1 /\ j + 1 \in 1 .. nb + 1
  BY <1>1
<1>9. \A i \in 1..na : EmitsNothing(a[i], debug) =>
        ha[i] = ha[i + 1] /\ ca[i] = ca[i + 1]
  <2> SUFFICES ASSUME NEW i \in 1..na, EmitsNothing(a[i], debug)
               PROVE  ha[i] = ha[i + 1] /\ ca[i] = ca[i + 1]
    OBVIOUS
  <2>1. HashTokens(a[i], debug) = <<>>
    BY Zenon DEF HashTokens
  <2>2. ha[i + 1] \in Seq(Token)
    BY <1>2, <1>7
  <2>3. QED
    BY <1>2, <1>4, <1>6, <2>1, <2>2, Zenon DEF Continued
<1>10. \A j \in 1..nb : EmitsNothing(b[j], debug) =>
        hb[j] = hb[j + 1] /\ cb[j] = cb[j + 1]
  <2> SUFFICES ASSUME NEW j \in 1..nb, EmitsNothing(b[j], debug)
               PROVE  hb[j] = hb[j + 1] /\ cb[j] = cb[j + 1]
    OBVIOUS
  <2>1. HashTokens(b[j], debug) = <<>>
    BY Zenon DEF HashTokens
  <2>2. hb[j + 1] \in Seq(Token)
    BY <1>3, <1>8
  <2>3. QED
    BY <1>3, <1>5, <1>6, <2>1, <2>2, Zenon DEF Continued
<1>11. \A k \in CONDACT : \A h \in Seq(Token) :
         ~EmitsNothing(k, debug) => HashTokens(k, debug) \o h # <<>>
  <2> SUFFICES ASSUME NEW k \in CONDACT, NEW h \in Seq(Token),
                      ~EmitsNothing(k, debug)
               PROVE  HashTokens(k, debug) \o h # <<>>
    OBVIOUS
  <2> DEFINE t == HashTokens(k, debug)
  <2>1. t \in Seq(Token)
    BY HashTokensTyped
  <2>2. Len(t \o h) = Len(t) + Len(h) /\ Len(h) \in Nat
    BY <2>1, ConcatProperties, LenProperties
  <2>3. NumParams(k) \in Nat /\ Len(t) = 1 + NumParams(k)
    BY HashTokensShape
  <2> HIDE DEF t
  <2>4. Len(t \o h) # 0
    BY <2>2, <2>3
  <2>5. QED
    BY <2>4 DEF t
<1>12. 0 \in T
  <2> SUFFICES ASSUME NEW i \in 1 .. na + 1, NEW j \in 1 .. nb + 1,
                      (na + 1 - i) + (nb + 1 - j) <= 0
               PROVE  Agree(i, j)
    OBVIOUS
  <2>1. i = na + 1 /\ j = nb + 1
    BY <1>1
  <2>2. QED
    BY <1>4, <1>5, <2>1, Zenon
<1>13. ASSUME NEW m \in T PROVE m + 1 \in T
  <2>1. m \in Nat /\ \A i \in 1 .. na + 1 : \A j \in 1 .. nb + 1 :
                      (na + 1 - i) + (nb + 1 - j) <= m => Agree(i, j)
    BY <1>13
  <2> HIDE DEF Agree
  <2> SUFFICES ASSUME NEW i \in 1 .. na + 1, NEW j \in 1 .. nb + 1,
                      (na + 1 - i) + (nb + 1 - j) <= m + 1
               PROVE  Agree(i, j)
    BY <2>1
  <2>2. i \in 1..na => Agree(i + 1, j)
    BY <1>1, <2>1
  <2>3. j \in 1..nb => Agree(i, j + 1)
    BY <1>1, <2>1
  <2>4. i \in 1..na /\ j \in 1..nb => Agree(i + 1, j + 1)
    BY <1>1, <2>1
  <2>5. i = na + 1 \/ i \in 1..na
    BY <1>1
  <2>6. j = nb + 1 \/ j \in 1..nb
    BY <1>1
  <2>7. CASE i \in 1..na /\ EmitsNothing(a[i], debug)
    BY <1>9, <2>2, <2>7, Zenon DEF Agree
  <2>8. CASE j \in 1..nb /\ EmitsNothing(b[j], debug)
    BY <1>10, <2>3, <2>8, Zenon DEF Agree
  <2>9. CASE i = na + 1 /\ j = nb + 1
    BY <1>4, <1>5, <2>9, Zenon DEF Agree
  <2>10. CASE i = na + 1 /\ j \in 1..nb /\ ~EmitsNothing(b[j], debug)
    <3>1. ha[i] = <<>> /\ hb[j] # <<>>
      <4>1. hb[j + 1] \in Seq(Token) /\ b[j] \in CONDACT
        BY <1>1, <1>3, <1>8, <2>10
      <4>2. QED
        BY <1>2, <1>3, <1>11, <2>10, <4>1, Zenon
    <3>2. QED
      BY <3>1 DEF Agree
  <2>11. CASE j = nb + 1 /\ i \in 1..na /\ ~EmitsNothing(a[i], debug)
    <3>1. hb[j] = <<>> /\ ha[i] # <<>>
      <4>1. ha[i + 1] \in Seq(Token) /\ a[i] \in CONDACT
        BY <1>1, <1>2, <1>7, <2>11
      <4>2. QED
        BY <1>2, <1>3, <1>11, <2>11, <4>1, Zenon
    <3>2. QED
      BY <3>1 DEF Agree
  <2>12. CASE /\ i \in 1..na /\ ~EmitsNothing(a[i], debug)
              /\ j \in 1..nb /\ ~EmitsNothing(b[j], debug)
    <3> SUFFICES ASSUME ha[i] = hb[j] PROVE ca[i] = cb[j]
      BY DEF Agree
    <3>1. /\ a[i] \in CONDACT /\ ha[i + 1] \in Seq(Token)
          /\ b[j] \in CONDACT /\ hb[j + 1] \in Seq(Token)
      BY <1>1, <1>2, <1>3, <1>7, <1>8, <2>12
    <3>2. HashTokens(a[i], debug) \o ha[i + 1] = HashTokens(b[j], debug) \o hb[j + 1]
      BY <1>2, <1>3, <2>12, Zenon
    <3>3. EmittedOpcode(a[i]) = EmittedOpcode(b[j]) => NumParams(a[i]) = NumParams(b[j])
      <4>1. TailHash(a, debug)[i] = TailHash(b, debug)[j]
        BY DEF ha, hb
      <4>2. QED
        BY <2>12, <4>1, Zenon DEF HashTells
    <3>4. /\ CondactBytes(a[i]) = CondactBytes(b[j])
          /\ IsTerminator(a[i]) <=> IsTerminator(b[j])
          /\ ha[i + 1] = hb[j + 1]
      <4> DEFINE k == a[i]
                 l == b[j]
                 r == ha[i + 1]
                 s == hb[j + 1]
      <4>1. k \in CONDACT /\ l \in CONDACT /\ r \in Seq(Token) /\ s \in Seq(Token)
        BY <3>1
      <4>2. ~EmitsNothing(k, debug) /\ ~EmitsNothing(l, debug)
        BY <2>12
      <4>3. HashTokens(k, debug) \o r = HashTokens(l, debug) \o s
        BY <3>2
      <4>4. EmittedOpcode(k) = EmittedOpcode(l) => NumParams(k) = NumParams(l)
        BY <3>3
      <4> HIDE DEF k, l, r, s
      <4>5. /\ CondactBytes(k) = CondactBytes(l)
            /\ IsTerminator(k) <=> IsTerminator(l)
            /\ r = s
        BY <4>1, <4>2, <4>3, <4>4, SameTokensSameBytes, ZenonT(30)
      <4>6. QED
        BY <4>5 DEF k, l, r, s
    <3>5. ca[i + 1] = cb[j + 1]
      BY <2>4, <2>12, <3>4 DEF Agree
    <3>6. QED
      BY <1>4, <1>5, <2>12, <3>4, <3>5, Zenon DEF Continued
  <2>13. QED
    BY <2>5, <2>6, <2>7, <2>8, <2>9, <2>10, <2>11, <2>12, Zenon
<1>14. T = Nat
  <2>1. T \subseteq Nat
    OBVIOUS
  <2> HIDE DEF T
  <2>2. QED
    BY <1>12, <1>13, <2>1, Induction
<1>15. ASSUME NEW i \in 1 .. na + 1, NEW j \in 1 .. nb + 1 PROVE Agree(i, j)
  <2> DEFINE m == (na + 1 - i) + (nb + 1 - j)
  <2>1. m \in Nat
    BY <1>1
  <2>2. m \in T
    BY <1>14, <2>1
  <2> HIDE DEF Agree
  <2>3. m <= m
    BY <2>1
  <2>4. QED
    BY <2>2, <2>3, Zenon
<1>16. QED
  BY <1>15, Zenon DEF ha, hb, ca, cb

-----------------------------------------------------------------------------
(* Where a condact stands in its body.                                     *)

SizeOf(k, debug) == IF EmitsNothing(k, debug) THEN 0 ELSE EmittedSize(k)

(* A condact's displacement is that of the one before it, and its size.    *)
LEMMA DisplacementsAdd ==
  ASSUME NEW b \in Seq(CONDACT), NEW debug
  PROVE  /\ Displacement(b, 1, debug) = 0
         /\ \A i \in 1 .. Len(b) + 1 : Displacement(b, i, debug) \in Nat
         /\ \A i \in 1..Len(b) :
              Displacement(b, i + 1, debug) =
                Displacement(b, i, debug) + SizeOf(b[i], debug)
<1> DEFINE n == Len(b)
           Value(k, v) == v + (IF EmitsNothing(b[k], debug) THEN 0
                               ELSE EmittedSize(b[k]))
           step == [x \in (1..n) \X Nat |-> Value(x[1], x[2])]
           Eq(f) == f = [k \in 1 .. n + 1 |-> IF k = 1 THEN 0
                                              ELSE Value(k - 1, f[k - 1])]
           g == Displacements(b, debug)
<1>1. n \in Nat /\ \A k \in 1..n : b[k] \in CONDACT /\ EmittedSize(b[k]) \in Nat
  BY LenProperties, ElementOfSeq, CondactBytesCounted
<1>2. \A k \in 1..n : \A v \in Nat : Value(k, v) \in Nat
  BY <1>1
<1>3. /\ step \in [(1..n) \X Nat -> Nat]
      /\ \A k \in 1..n : \A v \in Nat : step[<<k, v>>] = Value(k, v)
  <2> HIDE DEF Value
  <2>1. QED
    BY <1>2
<1> HIDE DEF step
<1>4. PICK f \in [1 .. n + 1 -> Nat] :
         f[1] = 0 /\ \A k \in 1..n : f[k + 1] = step[<<k, f[k]>>]
  <2> HIDE DEF n
  <2>1. 0 \in Nat
    OBVIOUS
  <2>2. \E f : IsForward(f, n, Nat, 0, step)
    BY <1>1, <1>3, <2>1, ForwardRecursion, Zenon
  <2>3. QED
    BY <2>2 DEF IsForward
<1>5. \A k \in 1..n : f[k] \in Nat /\ f[k + 1] = Value(k, f[k])
  <2> HIDE DEF Value, n
  <2>1. \A k \in 1..n : k \in 1 .. n + 1
    BY <1>1
  <2>2. \A k \in 1..n : f[k] \in Nat
    BY <1>4, <2>1
  <2>3. QED
    BY <1>3, <1>4, <2>2
<1>6. Eq(f)
  <2> HIDE DEF Value
  <2>1. ASSUME NEW k \in 1 .. n + 1
        PROVE  f[k] = IF k = 1 THEN 0 ELSE Value(k - 1, f[k - 1])
    <3>1. CASE k = 1
      BY <1>4, <3>1
    <3>2. CASE k # 1
      <4>1. k - 1 \in 1..n /\ k - 1 + 1 = k
        BY <1>1, <3>2
      <4>2. f[k - 1 + 1] = Value(k - 1, f[k - 1])
        BY <1>5, <4>1
      <4>3. QED
        BY <3>2, <4>1, <4>2
    <3>3. QED
      BY <3>1, <3>2
  <2>2. QED
    BY <1>4, <2>1
<1>7. Eq(g)
  BY <1>6, Zenon DEF Displacements
<1>8. g[1] = 0 /\ \A k \in 1..n : g[k + 1] = Value(k, g[k])
  <2> HIDE DEF Value, g
  <2>1. \A k \in 1 .. n + 1 : g[k] = IF k = 1 THEN 0 ELSE Value(k - 1, g[k - 1])
    BY <1>7, Zenon
  <2>2. ASSUME NEW k \in 1..n PROVE g[k + 1] = Value(k, g[k])
    <3>1. k + 1 \in 1 .. n + 1 /\ k + 1 # 1 /\ k + 1 - 1 = k
      BY <1>1
    <3>2. g[k + 1] = Value(k + 1 - 1, g[k + 1 - 1])
      BY <2>1, <3>1
    <3>3. QED
      BY <3>1, <3>2
  <2>3. 1 \in 1 .. n + 1
    BY <1>1
  <2>4. QED
    BY <2>1, <2>2, <2>3
<1>9. \A k \in 1 .. n + 1 : g[k] \in Nat
  <2> HIDE DEF Value, g
  <2> DEFINE U == {m \in Nat : m + 1 <= n + 1 => g[m + 1] \in Nat}
  <2>1. 0 \in U
    BY <1>8
  <2>2. ASSUME NEW m \in U PROVE m + 1 \in U
    <3> SUFFICES ASSUME m + 2 <= n + 1 PROVE g[m + 2] \in Nat
      OBVIOUS
    <3>1. m + 1 \in 1..n /\ m + 1 + 1 = m + 2
      BY <1>1
    <3>2. g[m + 1 + 1] = Value(m + 1, g[m + 1]) /\ g[m + 1] \in Nat
      BY <1>1, <1>8, <2>2, <3>1
    <3>3. QED
      BY <1>2, <3>1, <3>2
  <2>3. U \subseteq Nat
    OBVIOUS
  <2> HIDE DEF U
  <2>4. U = Nat
    BY <2>1, <2>2, <2>3, Induction
  <2>5. ASSUME NEW k \in 1 .. n + 1 PROVE g[k] \in Nat
    <3>1. k - 1 \in U /\ k - 1 + 1 = k /\ k - 1 + 1 <= n + 1
      BY <1>1, <2>4
    <3>2. QED
      BY <3>1 DEF U
  <2>6. QED
    BY <2>5
<1>10. \A k : g[k] = Displacement(b, k, debug)
  BY DEF Displacement
<1>11. \A k \in 1..n : Value(k, g[k]) = g[k] + SizeOf(b[k], debug)
  BY DEF SizeOf
<1>12. QED
  <2> HIDE DEF g, Value
  <2>1. QED
    BY <1>8, <1>9, <1>10, <1>11

(* A condact that is dumped stands in its body's bytes at its displacement:*)
(* what precedes it, to the first byte, is what the dump wrote before it.  *)
LEMMA DumpedStands ==
  ASSUME NEW b \in Seq(CONDACT), NEW debug, NEW classic,
         NEW i \in Dumped(b, debug, classic)
  PROVE  \E before \in Seq(Bytes) : \E after \in Seq(Bytes) :
           /\ Len(before) = Displacement(b, i, debug)
           /\ EntryBytes(b, debug, classic)
                = before \o (CondactBytes(b[i]) \o after)
<1> DEFINE n == Len(b)
           t(k) == TailBytes(b, debug, classic)[k]
           d(k) == Displacement(b, k, debug)
           Goes(k) == classic \/ \A j \in 1..n : j < k /\ ~EmitsNothing(b[j], debug)
                                   => ~IsTerminator(b[j])
           Parted(k) == \E before \in Seq(Bytes) :
                          Len(before) = d(k) /\ t(1) = before \o t(k)
<1>1. /\ n \in Nat /\ DOMAIN b = 1..n
      /\ \A k \in 1..n : b[k] \in CONDACT /\ CondactBytes(b[k]) \in Seq(Bytes)
                         /\ Len(CondactBytes(b[k])) = EmittedSize(b[k])
  BY LenProperties, ElementOfSeq, CondactBytesCounted
<1>2. /\ i \in 1..n /\ ~EmitsNothing(b[i], debug) /\ Goes(i)
  BY <1>1 DEF Dumped, Reaches
<1>3. \A k \in 1 .. n + 1 : t(k) \in Seq(Bytes)
  BY TailBytesEquation
<1>4. \A k \in 1..n : t(k) = Continued(b[k], debug, classic, t(k + 1))
  BY TailBytesEquation
<1>5. d(1) = 0 /\ \A k \in 1..n : d(k) \in Nat /\ d(k + 1) = d(k) + SizeOf(b[k], debug)
  <2>1. \A k \in 1..n : k \in 1 .. n + 1
    BY <1>1
  <2>2. QED
    BY <2>1, DisplacementsAdd
<1> HIDE DEF t, d, n
<1>6. ASSUME NEW k \in 1..n, k < i, Parted(k)
      PROVE  Parted(k + 1)
  <2>1. PICK before \in Seq(Bytes) : Len(before) = d(k) /\ t(1) = before \o t(k)
    BY <1>6
  <2>2. k + 1 \in 1 .. n + 1 /\ t(k + 1) \in Seq(Bytes)
    BY <1>1, <1>3
  <2>3. CASE EmitsNothing(b[k], debug)
    <3>1. t(k) = t(k + 1)
      BY <1>4, <2>3 DEF Continued
    <3>2. d(k + 1) = d(k)
      BY <1>5, <2>3 DEF SizeOf
    <3>3. QED
      BY <2>1, <3>1, <3>2
  <2>4. CASE ~EmitsNothing(b[k], debug)
    <3>1. classic \/ ~IsTerminator(b[k])
      BY <1>2, <1>6, <2>4
    <3> DEFINE m == CondactBytes(b[k])
    <3>2. t(k) = m \o t(k + 1)
      BY <1>4, <2>4, <3>1 DEF Continued
    <3>3. d(k + 1) = d(k) + EmittedSize(b[k])
      BY <1>5, <2>4 DEF SizeOf
    <3>4. m \in Seq(Bytes) /\ Len(m) = EmittedSize(b[k])
      BY <1>1
    <3> HIDE DEF m
    <3>5. before \o m \in Seq(Bytes) /\ Len(before \o m) = d(k + 1)
      BY <2>1, <3>3, <3>4, ConcatBytes
    <3>6. t(1) = (before \o m) \o t(k + 1)
      <4> DEFINE u == t(k + 1)
      <4>1. u \in Seq(Bytes) /\ t(k) = m \o u /\ t(1) = before \o t(k)
        BY <2>1, <2>2, <3>2
      <4> HIDE DEF u
      <4>2. before \in Seq(Bytes) /\ m \in Seq(Bytes) /\ u \in Seq(Bytes)
        BY <3>4, <4>1
      <4>3. (before \o m) \o u = before \o (m \o u)
        BY ONLY <4>2, ConcatAssociative, SMTT(30)
      <4>4. QED
        BY <4>1, <4>3, Zenon DEF u
    <3>7. QED
      BY <3>5, <3>6
  <2>5. QED
    BY <2>3, <2>4
<1>7. Parted(1)
  <2>1. 1 \in 1 .. n + 1
    BY <1>1
  <2>2. t(1) \in Seq(Bytes)
    BY <1>3, <2>1
  <2>3. <<>> \in Seq(Bytes) /\ Len(<<>>) = 0 /\ t(1) = <<>> \o t(1)
    BY <2>2
  <2>4. QED
    BY <1>5, <2>3
<1> HIDE DEF Parted
<1>8. Parted(i)
  <2> DEFINE U == {m \in Nat : m + 1 <= i => Parted(m + 1)}
  <2>1. 0 \in U
    BY <1>7
  <2>2. ASSUME NEW m \in U PROVE m + 1 \in U
    <3> SUFFICES ASSUME m + 1 + 1 <= i PROVE Parted(m + 1 + 1)
      OBVIOUS
    <3>1. m + 1 \in 1..n /\ m + 1 < i
      BY <1>1, <1>2
    <3>2. m \in Nat /\ m + 1 <= i
      BY <1>1, <1>2, <2>2, <3>1
    <3>3. Parted(m + 1)
      BY <2>2, <3>2, Zenon
    <3>4. QED
      BY <1>6, <3>1, <3>3
  <2>3. U \subseteq Nat
    OBVIOUS
  <2> HIDE DEF U
  <2>4. U = Nat
    BY <2>1, <2>2, <2>3, Induction
  <2>5. i - 1 \in U /\ i - 1 + 1 = i
    BY <1>1, <1>2, <2>4
  <2>6. QED
    BY <2>5 DEF U
<1>9. PICK before \in Seq(Bytes) : Len(before) = d(i) /\ t(1) = before \o t(i)
  BY <1>8 DEF Parted
<1>10. \E after \in Seq(Bytes) : t(i) = CondactBytes(b[i]) \o after
  <2> DEFINE m == CondactBytes(b[i])
  <2>1. i + 1 \in 1 .. n + 1 /\ t(i + 1) \in Seq(Bytes) /\ m \in Seq(Bytes)
    BY <1>1, <1>2, <1>3
  <2>2. t(i) = m \/ t(i) = m \o t(i + 1)
    BY <1>2, <1>4 DEF Continued
  <2> HIDE DEF m
  <2>3. m = m \o <<>> /\ <<>> \in Seq(Bytes)
    BY <2>1
  <2>4. \E after \in Seq(Bytes) : t(i) = m \o after
    BY <2>1, <2>2, <2>3
  <2>5. QED
    BY <2>4 DEF m
<1>11. QED
  BY <1>9, <1>10, Zenon DEF t, d, EntryBytes

-----------------------------------------------------------------------------
(* The dump.                                                               *)

(* A pad is counted in the address as it is pushed, and an address         *)
(* behind one is even on padding targets.                                  *)
LEMMA PaddingCounted ==
  ASSUME NEW a \in Nat
  PROVE  /\ PadBytes(a) \in Seq(Bytes)
         /\ PaddedAddr(a) \in Nat
         /\ PaddedAddr(a) = a + Len(PadBytes(a))
         /\ job.padding => PaddedAddr(a) % 2 = 0
<1>1. CASE PadNeeded(a)
  <2>1. PadBytes(a) = <<0>> /\ PaddedAddr(a) = a + 1
    BY <1>1 DEF PadBytes, PaddedAddr
  <2>2. a % 2 = 1
    BY <1>1 DEF PadNeeded
  <2>3. 0 \in Bytes
    BY DEF Bytes
  <2> QED
    BY <2>1, <2>2, <2>3
<1>2. CASE ~PadNeeded(a)
  <2>1. PadBytes(a) = <<>> /\ PaddedAddr(a) = a
    BY <1>2 DEF PadBytes, PaddedAddr
  <2>2. job.padding => a % 2 # 1
    BY <1>2, Zenon DEF PadNeeded
  <2> QED
    BY <2>1, <2>2
<1> QED
  BY <1>1, <1>2

(* A word is pushed as two bytes.                                          *)
LEMMA U16IsTwoBytes ==
  ASSUME NEW v \in Nat
  PROVE  U16(v) \in Seq(Bytes) /\ Len(U16(v)) = 2
<1> DEFINE lo == v % 256
           hi == (v \div 256) % 256
<1>1. lo \in Bytes /\ hi \in Bytes
  BY DEF Bytes
<1>2. U16(v) = <<hi, lo>> \/ U16(v) = <<lo, hi>>
  BY Zenon DEF U16
<1> HIDE DEF lo, hi
<1>3. CASE U16(v) = <<hi, lo>>
  BY <1>1, <1>3
<1>4. CASE U16(v) = <<lo, hi>>
  BY <1>1, <1>4
<1> QED
  BY <1>2, <1>3, <1>4

(* The identity of an entry is its process and its place there.            *)
LEMMA EntryIdsProperty ==
  \A x : x \in EntryIds <=>
        \E q \in 1..Len(job.procs) : \E f \in 1..Len(job.procs[q]) : x = <<q, f>>
BY DEF EntryIds

(* Processes and entries are counted by natural numbers.                   *)
LEMMA ProcsAreSequences ==
  ASSUME IsJob(job)
  PROVE  /\ Len(job.procs) \in Nat
         /\ \A q \in 1..Len(job.procs) : Len(job.procs[q]) \in Nat
<1> DEFINE ROW == [Verb : 0..255, Noun : 0..255, condacts : Seq(CONDACT)]
<1>1. job.procs \in Seq(Seq(ROW))
  BY DEF IsJob
<1> HIDE DEF ROW
<1> QED
  BY <1>1, LenProperties, ElementOfSeq

(* The entry the dump is at: it is one of the job, and its condacts are    *)
(* typed.                                                                  *)
LEMMA CurrentEntry ==
  ASSUME IsJob(job), InEntry, p \in Nat \ {0}, e \in Nat \ {0}
  PROVE  /\ <<p, e>> \in EntryIds
         /\ Entry(p, e).Verb \in Nat /\ Entry(p, e).Noun \in Nat
         /\ Body(p, e) \in Seq(CONDACT)
         /\ DOMAIN Body(p, e) = 1..Len(Body(p, e))
         /\ Len(Body(p, e)) \in Nat
         /\ \A i \in DOMAIN Body(p, e) :
              /\ Body(p, e)[i] \in CONDACT
              /\ Body(p, e)[i].Opcode = FakeUserPtr => NumParams(Body(p, e)[i]) > 0
<1> DEFINE ROW == [Verb : 0..255, Noun : 0..255, condacts : Seq(CONDACT)]
<1>1. p \in 1..Len(job.procs) /\ p \in DOMAIN job.procs
  BY DEF InEntry, IsJob
<1>2. job.procs[p] \in Seq(ROW)
  BY <1>1 DEF IsJob
<1>3. e \in 1..Len(job.procs[p]) /\ e \in DOMAIN job.procs[p]
  BY <1>2 DEF InEntry
<1>4. Entry(p, e) \in ROW
  <2> HIDE DEF ROW
  <2> QED
    BY <1>2, <1>3, ElementOfSeq DEF Entry
<1>5. <<p, e>> \in EntryIds
  BY <1>1, <1>3, EntryIdsProperty
<1>6. \A i \in DOMAIN Body(p, e) :
        Body(p, e)[i].Opcode = FakeUserPtr => NumParams(Body(p, e)[i]) > 0
  BY <1>1, <1>3, Zenon DEF IsJob, Body, Entry
<1>7. Entry(p, e).Verb \in Nat /\ Entry(p, e).Noun \in Nat
  <2>1. Entry(p, e).Verb \in 0..255 /\ Entry(p, e).Noun \in 0..255
    BY <1>4, Zenon
  <2> QED
    BY <2>1
<1>8. Body(p, e) \in Seq(CONDACT)
  BY <1>4 DEF Body
<1>9. /\ DOMAIN Body(p, e) = 1..Len(Body(p, e))
      /\ Len(Body(p, e)) \in Nat
      /\ \A i \in DOMAIN Body(p, e) : Body(p, e)[i] \in CONDACT
  BY <1>8, LenProperties, ElementOfSeq
<1> QED
  BY <1>5, <1>6, <1>7, <1>8, <1>9

-----------------------------------------------------------------------------
(* The inductive step, one conjunct of IndInv at a time.                   *)

(* Every variable starts in its range.                                     *)
LEMMA TypeInit == Init => TypeOK
<1> SUFFICES ASSUME Init PROVE TypeOK
  OBVIOUS
<1>1. IsJob(job)
  BY JobsAssumption, Zenon DEF Init
<1>2. addr \in Nat
  BY <1>1 DEF Init, IsJob
<1>3. /\ phase \in Phases
      /\ p \in Nat \ {0} /\ e \in Nat \ {0} /\ c \in Nat
      /\ out \in Seq(Bytes)
      /\ extvec \in [0..12 -> Nat]
  BY DEF Init, Phases
<1>4. /\ DOMAIN hashMap = {} /\ DOMAIN condOffsets = {}
      /\ DOMAIN procOffsets = {} /\ DOMAIN rowAddr = {}
  <2>1. DOMAIN <<>> = {}
    OBVIOUS
  <2> QED
    BY <2>1 DEF Init
<1> QED
  BY <1>1, <1>2, <1>3, <1>4 DEF TypeOK

(* Pushing to out and adding to addr, both by hand, stay together.         *)
LEMMA Pushed ==
  ASSUME IsJob(job), out \in Seq(Bytes), addr \in Nat, AddrCountsBytes,
         NEW s \in Seq(Bytes), NEW n \in Nat, Len(s) = n,
         out' = out \o s, addr' = addr + n, job' = job
  PROVE  out' \in Seq(Bytes) /\ addr' \in Nat /\ AddrCountsBytes'
<1>1. out' \in Seq(Bytes) /\ Len(out') = Len(out) + n
  BY ConcatBytes
<1>2. Len(out) \in Nat /\ job.base \in Nat
  BY DEF IsJob
<1> QED
  BY <1>1, <1>2 DEF AddrCountsBytes

(* Every step pushes bytes and counts as many.                             *)
LEMMA BytesStep ==
  IndInv /\ [Next]_vars =>
    out' \in Seq(Bytes) /\ addr' \in Nat /\ AddrCountsBytes'
<1> SUFFICES ASSUME IndInv, [Next]_vars
             PROVE  out' \in Seq(Bytes) /\ addr' \in Nat /\ AddrCountsBytes'
  OBVIOUS
<1>1. /\ IsJob(job) /\ out \in Seq(Bytes) /\ addr \in Nat /\ AddrCountsBytes
      /\ p \in Nat \ {0} /\ e \in Nat \ {0} /\ c \in Nat
  BY DEF IndInv, TypeOK
<1>2. ASSUME job' = job, out' = out \o PadBytes(addr), addr' = PaddedAddr(addr)
      PROVE  out' \in Seq(Bytes) /\ addr' \in Nat /\ AddrCountsBytes'
  <2>1. /\ PadBytes(addr) \in Seq(Bytes)
        /\ PaddedAddr(addr) = addr + Len(PadBytes(addr))
        /\ Len(PadBytes(addr)) \in Nat
    BY <1>1, PaddingCounted, LenProperties
  <2> QED
    BY <1>1, <1>2, <2>1, Pushed
<1>3. ASSUME UNCHANGED <<job, out, addr>>
      PROVE  out' \in Seq(Bytes) /\ addr' \in Nat /\ AddrCountsBytes'
  BY <1>1, <1>3 DEF AddrCountsBytes
<1>4. CASE OpenBody
  <2> DEFINE pads == job.classic \/ Hash(p, e, 1) # <<>>
  <2>1. CASE pads
    BY <1>2, <1>4, <2>1 DEF OpenBody
  <2>2. CASE ~pads
    BY <1>3, <1>4, <2>2 DEF OpenBody
  <2> QED
    BY <2>1, <2>2
<1>5. CASE EmitCondact
  <2>1. Body(p, e)[c] \in CONDACT
    <3>1. c \in DOMAIN Body(p, e)
      BY <1>1, <1>5, CurrentEntry DEF EmitCondact, InBody
    <3> QED
      BY <1>1, <1>5, <3>1, CurrentEntry DEF EmitCondact, InBody
  <2>2. /\ out' = out \o CondactBytes(Body(p, e)[c])
        /\ addr' = addr + EmittedSize(Body(p, e)[c])
        /\ job' = job
    BY <1>5 DEF EmitCondact
  <2> QED
    BY <1>1, <2>1, <2>2, CondactBytesCounted, Pushed
<1>6. CASE CloseBody
  <2>1. <<EndMark>> \in Seq(Bytes) /\ Len(<<EndMark>>) = 1
    BY DEF EndMark, Bytes
  <2>2. out' = out \o <<EndMark>> /\ addr' = addr + 1 /\ job' = job
    BY <1>1, <1>6 DEF CloseBody
  <2> QED
    BY <1>1, <2>1, <2>2, Pushed
<1>7. CASE StartRows
  BY <1>2, <1>7 DEF StartRows
<1>8. CASE WriteRow
  <2> DEFINE verbNoun == <<Entry(p, e).Verb % 256, Entry(p, e).Noun % 256>>
             off == U16(condOffsets[<<p, e>>])
  <2>1. verbNoun \in Seq(Bytes) /\ Len(verbNoun) = 2
    <3>1. Entry(p, e).Verb \in Nat /\ Entry(p, e).Noun \in Nat
      BY <1>1, <1>8, CurrentEntry DEF WriteRow
    <3> QED
      BY <3>1 DEF Bytes
  <2>2. off \in Seq(Bytes) /\ Len(off) = 2
    <3>1. <<p, e>> \in DOMAIN condOffsets
      BY <1>1, <1>8, CurrentEntry DEF IndInv, OffsetsFollowDump, WriteRow
    <3> QED
      BY <3>1, U16IsTwoBytes DEF IndInv, TypeOK
  <2>3. out' = (out \o verbNoun) \o off /\ addr' = addr + 4 /\ job' = job
    BY <1>8 DEF WriteRow
  <2> HIDE DEF verbNoun, off
  <2>4. out' = out \o (verbNoun \o off)
    BY <1>1, <2>1, <2>2, <2>3, ConcatAssociative, SMTT(30)
  <2>5. verbNoun \o off \in Seq(Bytes) /\ Len(verbNoun \o off) = 4
    <3>1. /\ verbNoun \o off \in Seq(Bytes)
          /\ Len(verbNoun \o off) = Len(verbNoun) + Len(off)
      BY <2>1, <2>2, ConcatBytes, Zenon
    <3> QED
      BY <2>1, <2>2, <3>1
  <2> QED
    BY <1>1, <2>3, <2>4, <2>5, Pushed
<1>9. CASE EndRows
  <2> DEFINE pad == PadBytes(addr + 1)
  <2>1. /\ pad \in Seq(Bytes) /\ Len(pad) \in Nat
        /\ PaddedAddr(addr + 1) = addr + 1 + Len(pad)
    <3>1. addr + 1 \in Nat
      BY <1>1
    <3> QED
      BY <3>1, PaddingCounted, LenProperties
  <2>2. out' = (out \o <<0>>) \o pad /\ addr' = PaddedAddr(addr + 1) /\ job' = job
    BY <1>9 DEF EndRows
  <2>3. <<0>> \in Seq(Bytes) /\ Len(<<0>>) = 1
    BY DEF Bytes
  <2> HIDE DEF pad
  <2>4. out' = out \o (<<0>> \o pad)
    BY <1>1, <2>1, <2>2, <2>3, ConcatAssociative
  <2>5. <<0>> \o pad \in Seq(Bytes) /\ Len(<<0>> \o pad) = 1 + Len(pad)
    BY <2>1, <2>3, ConcatBytes
  <2>6. addr' = addr + (1 + Len(pad)) /\ 1 + Len(pad) \in Nat
    BY <1>1, <2>1, <2>2
  <2> QED
    BY <1>1, <2>2, <2>4, <2>5, <2>6, Pushed
<1>10. CASE StartVector
  BY <1>2, <1>10 DEF StartVector
<1>11. CASE WriteVector
  <2>1. procOffsets[p] \in Nat
    <3>1. p \in DOMAIN procOffsets
      BY <1>1, <1>11 DEF IndInv, OffsetsFollowDump, WriteVector
    <3> QED
      BY <3>1 DEF IndInv, TypeOK
  <2>2. out' = out \o U16(procOffsets[p]) /\ addr' = addr + 2 /\ job' = job
    BY <1>11 DEF WriteVector
  <2> QED
    BY <1>1, <2>1, <2>2, U16IsTwoBytes, Pushed
<1>12. CASE \/ RegisterTails \/ ShareBody \/ SkipCondact \/ NextProcess
            \/ Finish \/ Done \/ UNCHANGED vars
  BY <1>3, <1>12 DEF RegisterTails, ShareBody, SkipCondact, NextProcess,
                     Finish, Done, vars
<1> QED
  BY <1>4, <1>5, <1>6, <1>7, <1>8, <1>9, <1>10, <1>11, <1>12 DEF Next

(* No step changes the job.                                                *)
LEMMA JobKept == [Next]_vars => job' = job
BY DEF Next, vars, RegisterTails, ShareBody, OpenBody, SkipCondact, EmitCondact,
       CloseBody, NextProcess, StartRows, WriteRow, EndRows, StartVector,
       WriteVector, Finish, Done

(* A non-empty hash is the hash of a tail, so pass one registered it.      *)
LEMMA HashRegistered ==
  ASSUME IndInv, AtEntry, ~job.classic, Hash(p, e, 1) # <<>>
  PROVE  Hash(p, e, 1) \in DOMAIN hashMap
<1>1. 1 \in DOMAIN Body(p, e)
  BY DEF Hash, CondactsHash
<1>2. <<p, e>> \in EntryIds
  BY CurrentEntry DEF IndInv, TypeOK, AtEntry
<1> QED
  BY <1>1, <1>2 DEF IndInv, TailsRegistered, AtEntry

(* The map after a body is opened, or a tail written: at most one hash has *)
(* gained an address.                                                      *)
LEMMA OffsetAssigned ==
  ASSUME NEW m, NEW h, NEW a
  PROVE  /\ DOMAIN [m EXCEPT ![h] = a] = DOMAIN m
         /\ \A x \in DOMAIN m : [m EXCEPT ![h] = a][x] = IF x = h THEN a ELSE m[x]
OBVIOUS

(* Registering a tail at the address reached leaves every other hash,      *)
(* and every hash that has an offset, as it was (emit_proc.c:775).         *)
LEMMA TailOffsetsProperty ==
  /\ DOMAIN TailOffsets = DOMAIN hashMap
  /\ \A h \in DOMAIN hashMap :
       \/ TailOffsets[h] = hashMap[h]
       \/ /\ hashMap[h] = NoOffset
          /\ TailOffsets[h] = addr
          /\ addr % 2 = 0 \/ ~job.padding
BY Zenon DEF TailOffsets

Control ==
  phase \in Phases /\ p \in Nat \ {0} /\ e \in Nat \ {0} /\ c \in Nat

(* Phase and cursors stay in their ranges.                                 *)
LEMMA ControlStep == TypeOK /\ [Next]_vars => Control'
<1> SUFFICES ASSUME TypeOK, [Next]_vars PROVE Control'
  OBVIOUS
<1>1. Control
  BY DEF TypeOK, Control
<1>2. \A x \in Nat : x + 1 \in Nat \ {0}
  OBVIOUS
<1>3. CASE RegisterTails \/ SkipCondact \/ EmitCondact \/ CloseBody
  BY <1>1, <1>2, <1>3 DEF Control, Phases, RegisterTails, SkipCondact,
                          EmitCondact, CloseBody
<1>4. CASE ShareBody \/ OpenBody \/ NextProcess
  BY <1>1, <1>2, <1>4 DEF Control, Phases, ShareBody, OpenBody, NextProcess
<1>5. CASE StartRows \/ WriteRow \/ EndRows \/ StartVector
  BY <1>1, <1>2, <1>5, SMTT(30) DEF Control, Phases, StartRows, WriteRow, EndRows,
                          StartVector
<1>6. CASE WriteVector \/ Finish \/ Done \/ UNCHANGED vars
  BY <1>1, <1>2, <1>6 DEF Control, Phases, WriteVector, Finish, Done, vars
<1> QED
  BY <1>3, <1>4, <1>5, <1>6 DEF Next

(* What every map of the dump holds.                                       *)
OffsetTypes ==
  /\ \A h \in DOMAIN hashMap : hashMap[h] \in Nat \cup {NoOffset}
  /\ \A x \in DOMAIN condOffsets : condOffsets[x] \in Nat
  /\ \A q \in DOMAIN procOffsets : procOffsets[q] \in Nat
  /\ extvec \in [0..12 -> Nat]
  /\ \A x \in DOMAIN rowAddr : rowAddr[x] \in Nat

(* Offsets are addresses and are given to entries of the job alone.        *)
LEMMA OffsetTypesStep == IndInv /\ [Next]_vars => OffsetTypes'
<1> SUFFICES ASSUME IndInv, [Next]_vars PROVE OffsetTypes'
  OBVIOUS
<1>1. OffsetTypes /\ addr \in Nat /\ PaddedAddr(addr) \in Nat
      /\ PaddedAddr(addr + 1) \in Nat
  <2>1. addr \in Nat /\ addr + 1 \in Nat
    BY DEF IndInv, TypeOK
  <2> QED
    BY <2>1, PaddingCounted DEF IndInv, TypeOK, OffsetTypes
<1>2. \A m, key : \A v \in Nat :
        (\A x \in DOMAIN m : m[x] \in Nat) =>
          \A x \in DOMAIN MapPut(m, key, v) : MapPut(m, key, v)[x] \in Nat
  BY DEF MapPut
<1>3. CASE RegisterTails
  <2>1. \A h \in DOMAIN hashMap' : hashMap'[h] \in Nat \cup {NoOffset}
    <3>1. CASE job.classic
      <4>1. hashMap' = <<>>
        BY <1>3, <3>1, Zenon DEF RegisterTails
      <4> QED
        BY <4>1
    <3>2. CASE ~job.classic
      <4>1. hashMap' = [h \in TailHashes \ {<<>>} |-> NoOffset]
        BY <1>3, <3>2, Zenon DEF RegisterTails
      <4> QED
        BY <4>1
    <3> QED
      BY <3>1, <3>2
  <2> QED
    BY <1>1, <1>3, <2>1 DEF OffsetTypes, RegisterTails
<1>4. CASE ShareBody
  <2> DEFINE at == hashMap[Hash(p, e, 1)]
  <2>1. at \in Nat
    <3>1. AtEntry /\ ~job.classic /\ Hash(p, e, 1) # <<>> /\ at # NoOffset
      BY <1>4, Zenon DEF ShareBody
    <3>2. Hash(p, e, 1) \in DOMAIN hashMap
      BY <3>1, HashRegistered
    <3> QED
      BY <1>1, <3>1, <3>2 DEF OffsetTypes
  <2>2. condOffsets' = MapPut(condOffsets, <<p, e>>, at)
    BY <1>4, Zenon DEF ShareBody
  <2> HIDE DEF at
  <2>3. \A x \in DOMAIN condOffsets' : condOffsets'[x] \in Nat
    BY <1>1, <1>2, <2>1, <2>2 DEF OffsetTypes
  <2> QED
    BY <1>1, <1>4, <2>3 DEF OffsetTypes, ShareBody
<1>5. CASE OpenBody
  <2> DEFINE h == Hash(p, e, 1)
             at == IF job.classic \/ h # <<>> THEN PaddedAddr(addr) ELSE addr
  <2>1. at \in Nat
    BY <1>1
  <2>2. /\ hashMap' = hashMap \/ hashMap' = [hashMap EXCEPT ![h] = at]
        /\ condOffsets' = MapPut(condOffsets, <<p, e>>, at)
        /\ UNCHANGED <<procOffsets, extvec, rowAddr>>
    BY <1>5, Zenon DEF OpenBody
  <2> HIDE DEF at, h
  <2>3. \A g \in DOMAIN hashMap' : hashMap'[g] \in Nat \cup {NoOffset}
    BY <1>1, <2>1, <2>2, OffsetAssigned DEF OffsetTypes
  <2>4. \A x \in DOMAIN condOffsets' : condOffsets'[x] \in Nat
    BY <1>1, <1>2, <2>1, <2>2 DEF OffsetTypes
  <2> QED
    BY <1>1, <2>2, <2>3, <2>4 DEF OffsetTypes
<1>6. CASE SkipCondact
  <2>1. extvec' = extvec \/ \E k : extvec' = [extvec EXCEPT ![k] = addr]
    BY <1>6, Zenon DEF SkipCondact
  <2>2. extvec' \in [0..12 -> Nat]
    BY <1>1, <2>1 DEF OffsetTypes
  <2> QED
    BY <1>1, <1>6, <2>2 DEF OffsetTypes, SkipCondact
<1>7. CASE EmitCondact
  <2>1. hashMap' = TailOffsets /\ UNCHANGED <<condOffsets, procOffsets, extvec, rowAddr>>
    BY <1>7, Zenon DEF EmitCondact
  <2>2. \A h \in DOMAIN TailOffsets : TailOffsets[h] \in Nat \cup {NoOffset}
    BY <1>1, TailOffsetsProperty DEF OffsetTypes
  <2> QED
    BY <1>1, <2>1, <2>2 DEF OffsetTypes
<1>8. CASE StartRows
  <2>1. \A q \in DOMAIN procOffsets' : procOffsets'[q] \in Nat
    <3>1. procOffsets' = procOffsets \/ procOffsets' = MapPut(procOffsets, 1, PaddedAddr(addr))
      BY <1>8, Zenon DEF StartRows
    <3> QED
      BY <1>1, <1>2, <3>1 DEF OffsetTypes
  <2> QED
    BY <1>1, <1>8, <2>1 DEF OffsetTypes, StartRows
<1>9. CASE WriteRow
  <2>1. rowAddr' = MapPut(rowAddr, <<p, e>>, addr)
    BY <1>9 DEF WriteRow
  <2>2. \A x \in DOMAIN rowAddr' : rowAddr'[x] \in Nat
    BY <1>1, <1>2, <2>1 DEF OffsetTypes
  <2> QED
    BY <1>1, <1>9, <2>2 DEF OffsetTypes, WriteRow
<1>10. CASE EndRows
  <2>1. \A q \in DOMAIN procOffsets' : procOffsets'[q] \in Nat
    <3>1. \/ procOffsets' = procOffsets
          \/ procOffsets' = MapPut(procOffsets, p + 1, PaddedAddr(addr + 1))
      BY <1>10, Zenon DEF EndRows
    <3> QED
      BY <1>1, <1>2, <3>1 DEF OffsetTypes
  <2> QED
    BY <1>1, <1>10, <2>1 DEF OffsetTypes, EndRows
<1>11. CASE CloseBody \/ NextProcess \/ StartVector
  BY <1>1, <1>11 DEF OffsetTypes, CloseBody, NextProcess, StartVector
<1>12. CASE WriteVector \/ Finish \/ Done \/ UNCHANGED vars
  BY <1>1, <1>12 DEF OffsetTypes, WriteVector, Finish, Done, vars
<1> QED
  BY <1>3, <1>4, <1>5, <1>6, <1>7, <1>8, <1>9, <1>10, <1>11, <1>12 DEF Next

(* Every variable stays in its range.                                      *)
LEMMA TypeStep == IndInv /\ [Next]_vars => TypeOK'
<1> SUFFICES ASSUME IndInv, [Next]_vars PROVE TypeOK'
  OBVIOUS
<1>1. IsJob(job)'
  BY JobKept, Zenon DEF IndInv, TypeOK, IsJob
<1>2. Control'
  BY ControlStep DEF IndInv
<1>3. out' \in Seq(Bytes) /\ addr' \in Nat
  BY BytesStep
<1>4. OffsetTypes'
  BY OffsetTypesStep
<1> QED
  BY <1>1, <1>2, <1>3, <1>4 DEF TypeOK, Control, OffsetTypes

(* The entries are those of the job.                                       *)
LEMMA EntryIdsKept == job' = job => EntryIds' = EntryIds
BY DEF EntryIds

(* A hash depends on the job alone.                                        *)
LEMMA HashKept ==
  ASSUME job' = job
  PROVE  \A q, f, i : Hash(q, f, i)' = Hash(q, f, i)
BY DEF Hash, Body, Entry, CondactsHash, HashTokens, EmitsNothing, EmittedOpcode,
       WithBit7, NumParams

(* Every tail is registered in pass one and none is ever removed.          *)
LEMMA TailsRegisteredStep == IndInv /\ [Next]_vars => TailsRegistered'
<1> SUFFICES ASSUME IndInv, [Next]_vars PROVE TailsRegistered'
  OBVIOUS
<1>1. /\ job' = job /\ EntryIds' = EntryIds
      /\ \A q, f : Body(q, f)' = Body(q, f)
      /\ \A q, f, i : Hash(q, f, i)' = Hash(q, f, i)
  <2>1. job' = job
    BY JobKept
  <2> QED
    BY <2>1, EntryIdsKept, HashKept DEF Body, Entry
<1>2. CASE RegisterTails
  <2>1. phase' = "dump"
    BY <1>2 DEF RegisterTails
  <2>2. ASSUME ~job.classic, NEW x \in EntryIds, NEW i \in DOMAIN Body(x[1], x[2]),
               Hash(x[1], x[2], i) # <<>>
        PROVE  Hash(x[1], x[2], i) \in DOMAIN hashMap'
    <3>1. hashMap' = [h \in TailHashes \ {<<>>} |-> NoOffset]
      BY <1>2, <2>2, Zenon DEF RegisterTails
    <3>2. Hash(x[1], x[2], i) \in
            {Hash(x[1], x[2], k) : k \in DOMAIN Body(x[1], x[2])}
      BY <2>2
    <3>3. Hash(x[1], x[2], i) \in TailHashes
      BY <3>2 DEF TailHashes
    <3> QED
      BY <2>2, <3>1, <3>3
  <2> QED
    BY <1>1, <2>1, <2>2 DEF TailsRegistered
<1>3. ASSUME DOMAIN hashMap' = DOMAIN hashMap, phase # "register", phase' # "register",
             phase' = "dump" => phase = "dump"
      PROVE  TailsRegistered'
  BY <1>1, <1>3 DEF TailsRegistered, IndInv
<1>4. CASE OpenBody
  <2>1. hashMap' = hashMap \/ \E h, at : hashMap' = [hashMap EXCEPT ![h] = at]
    BY <1>4, Zenon DEF OpenBody
  <2>2. DOMAIN hashMap' = DOMAIN hashMap
    BY <2>1
  <2> QED
    BY <1>3, <1>4, <2>2 DEF OpenBody, AtEntry
<1>5. CASE EmitCondact
  <2>1. DOMAIN hashMap' = DOMAIN hashMap
    BY <1>5, TailOffsetsProperty, Zenon DEF EmitCondact
  <2> QED
    BY <1>3, <1>5, <2>1 DEF EmitCondact, InBody
<1>6. CASE ShareBody \/ SkipCondact \/ CloseBody \/ NextProcess \/ StartRows
  BY <1>3, <1>6 DEF ShareBody, SkipCondact, CloseBody, NextProcess, StartRows,
                    AtEntry, InBody
<1>7. CASE WriteRow \/ EndRows \/ StartVector \/ WriteVector \/ Finish
  BY <1>3, <1>7 DEF WriteRow, EndRows, StartVector, WriteVector, Finish
<1>8. CASE Done \/ UNCHANGED vars
  <2>1. UNCHANGED <<phase, hashMap>>
    BY <1>8 DEF Done, vars
  <2> QED
    BY <1>1, <2>1 DEF TailsRegistered, IndInv
<1> QED
  BY <1>2, <1>4, <1>5, <1>6, <1>7, <1>8 DEF Next

(* Only an even address is ever offered to later entries.                  *)
LEMMA TailOffsetsAlignedStep == IndInv /\ [Next]_vars => TailOffsetsAligned'
<1> SUFFICES ASSUME IndInv, [Next]_vars, job.padding,
                    NEW h \in DOMAIN hashMap'
             PROVE  hashMap'[h] = NoOffset \/ hashMap'[h] % 2 = 0
  BY JobKept DEF TailOffsetsAligned
<1>1. \A g \in DOMAIN hashMap : hashMap[g] = NoOffset \/ hashMap[g] % 2 = 0
  BY DEF IndInv, TailOffsetsAligned
<1>2. CASE RegisterTails
  <2>1. \/ hashMap' = <<>>
        \/ \E H : hashMap' = [g \in H |-> NoOffset]
    BY <1>2, Zenon DEF RegisterTails
  <2> QED
    BY <2>1
<1>3. CASE OpenBody
  <2> DEFINE own == Hash(p, e, 1)
  <2>1. \/ hashMap' = hashMap
        \/ hashMap' = [hashMap EXCEPT ![own] = PaddedAddr(addr)]
    <3>1. CASE ~job.classic /\ own # <<>>
      BY <1>3, <3>1, Zenon DEF OpenBody
    <3>2. CASE ~(~job.classic /\ own # <<>>)
      BY <1>3, <3>2, Zenon DEF OpenBody
    <3> QED
      BY <3>1, <3>2
  <2>2. PaddedAddr(addr) % 2 = 0
    BY PaddingCounted DEF IndInv, TypeOK
  <2> HIDE DEF own
  <2> QED
    BY <1>1, <2>1, <2>2
<1>4. CASE EmitCondact
  <2>1. hashMap' = TailOffsets
    BY <1>4, Zenon DEF EmitCondact
  <2> QED
    BY <1>1, <2>1, TailOffsetsProperty
<1>5. CASE UNCHANGED hashMap
  BY <1>1, <1>5
<1>6. CASE ShareBody \/ SkipCondact \/ CloseBody \/ NextProcess \/ StartRows
  BY <1>5, <1>6 DEF ShareBody, SkipCondact, CloseBody, NextProcess, StartRows
<1>7. CASE WriteRow \/ EndRows \/ StartVector \/ WriteVector \/ Finish
  BY <1>5, <1>7 DEF WriteRow, EndRows, StartVector, WriteVector, Finish
<1>8. CASE Done \/ UNCHANGED vars
  BY <1>5, <1>8 DEF Done, vars
<1> QED
  BY <1>2, <1>3, <1>4, <1>6, <1>7, <1>8 DEF Next

(* Entries get their offset in the order the dump walks them.              *)
LEMMA OffsetsFollowDumpStep == IndInv /\ [Next]_vars => OffsetsFollowDump'
<1> SUFFICES ASSUME IndInv, [Next]_vars PROVE OffsetsFollowDump'
  OBVIOUS
<1> DEFINE met == {x \in EntryIds : Reached(x)}
<1>1. /\ job' = job /\ EntryIds' = EntryIds
      /\ p \in Nat \ {0} /\ e \in Nat \ {0} /\ c \in Nat
      /\ Len(job.procs) \in Nat
  <2>1. job' = job
    BY JobKept
  <2>2. Len(job.procs) \in Nat
    BY ProcsAreSequences DEF IndInv, TypeOK
  <2> QED
    BY <2>1, <2>2, EntryIdsKept DEF IndInv, TypeOK
<1>2. OffsetsFollowDump
  BY DEF IndInv
<1>3. \A x \in EntryIds : /\ x = <<x[1], x[2]>>
                          /\ x[1] \in 1..Len(job.procs)
                          /\ x[2] \in 1..Len(job.procs[x[1]])
  BY EntryIdsProperty
<1>4. \A q \in 1..Len(job.procs) : Len(job.procs[q]) \in Nat
  BY ProcsAreSequences DEF IndInv, TypeOK
<1>5. CASE RegisterTails
  BY <1>1, <1>2, <1>5 DEF OffsetsFollowDump, RegisterTails, InEntry, Reached
<1>6. CASE ShareBody
  <2>1. /\ DOMAIN condOffsets' = DOMAIN condOffsets \cup {<<p, e>>}
        /\ <<p, e>> \in EntryIds
    BY <1>6, CurrentEntry DEF MapPut, ShareBody, AtEntry, IndInv, TypeOK
  <2>2. c = 0 /\ c' = 0 /\ p' = p /\ e' = e + 1 /\ phase = "dump" /\ phase' = "dump"
    BY <1>6 DEF ShareBody, AtEntry
  <2>3. DOMAIN condOffsets' = {x \in EntryIds : Reached(x)'}
    <3>1. DOMAIN condOffsets = met
      BY <1>2, <2>2 DEF OffsetsFollowDump
    <3>2. \A x \in EntryIds : Reached(x)' <=> Reached(x) \/ x = <<p, e>>
      BY <1>1, <1>3, <1>4, <2>2 DEF Reached
    <3> QED
      BY <2>1, <3>1, <3>2
  <2> QED
    BY <1>1, <2>2, <2>3 DEF OffsetsFollowDump
<1>7. CASE OpenBody
  <2>1. /\ DOMAIN condOffsets' = DOMAIN condOffsets \cup {<<p, e>>}
        /\ <<p, e>> \in EntryIds
    <3>1. \E at : condOffsets' = MapPut(condOffsets, <<p, e>>, at)
      BY <1>7, Zenon DEF OpenBody
    <3> QED
      BY <1>7, <3>1, CurrentEntry DEF MapPut, OpenBody, AtEntry, IndInv, TypeOK
  <2>2. /\ c = 0 /\ c' = 1 /\ UNCHANGED <<p, e, phase>> /\ phase = "dump"
        /\ InEntry
    BY <1>7 DEF OpenBody, AtEntry
  <2>3. DOMAIN condOffsets' = {x \in EntryIds : Reached(x)'}
    BY <1>1, <1>2, <1>3, <1>4, <2>1, <2>2 DEF OffsetsFollowDump, Reached
  <2> QED
    BY <1>1, <2>2, <2>3 DEF OffsetsFollowDump, InEntry
<1>8. CASE SkipCondact \/ EmitCondact \/ CloseBody
  <2>1. /\ UNCHANGED <<p, phase, condOffsets>> /\ phase = "dump" /\ c > 0
        /\ InEntry
        /\ \/ e' = e /\ c' = c + 1
           \/ e' = e + 1 /\ c' = 0
    BY <1>8, Zenon DEF SkipCondact, EmitCondact, CloseBody, InBody
  <2>2. DOMAIN condOffsets' = {x \in EntryIds : Reached(x)'}
    BY <1>1, <1>2, <1>3, <1>4, <2>1 DEF OffsetsFollowDump, Reached
  <2> QED
    BY <1>1, <2>1, <2>2 DEF OffsetsFollowDump, InEntry
<1>9. CASE NextProcess
  <2>1. /\ UNCHANGED <<c, phase, condOffsets>> /\ phase = "dump"
        /\ p' = p + 1 /\ e' = 1 /\ e > Len(job.procs[p]) /\ p <= Len(job.procs)
    BY <1>9 DEF NextProcess
  <2>2. c = 0
    BY <1>1, <1>2, <1>4, <2>1 DEF OffsetsFollowDump, InEntry
  <2>3. DOMAIN condOffsets' = {x \in EntryIds : Reached(x)'}
    BY <1>1, <1>2, <1>3, <1>4, <2>1, <2>2 DEF OffsetsFollowDump, Reached
  <2> QED
    BY <1>1, <2>1, <2>2, <2>3 DEF OffsetsFollowDump
<1>10. CASE StartRows
  <2>1. /\ UNCHANGED <<c, condOffsets>> /\ phase = "dump" /\ phase' = "rows"
        /\ p' = 1 /\ p > Len(job.procs)
    BY <1>10 DEF StartRows
  <2>2. c = 0
    BY <1>1, <1>2, <2>1 DEF OffsetsFollowDump, InEntry
  <2>3. DOMAIN condOffsets' = EntryIds
    BY <1>1, <1>2, <1>3, <1>4, <2>1 DEF OffsetsFollowDump, Reached
  <2>4. 1 <= Len(job.procs) => 1 \in DOMAIN procOffsets'
    <3>1. CASE job.procs = <<>>
      BY <3>1
    <3>2. CASE job.procs # <<>>
      <4>1. procOffsets' = MapPut(procOffsets, 1, PaddedAddr(addr))
        BY <1>10, <3>2 DEF StartRows
      <4> QED
        BY <4>1 DEF MapPut
    <3> QED
      BY <3>1, <3>2
  <2> QED
    BY <1>1, <2>1, <2>2, <2>3, <2>4 DEF OffsetsFollowDump
<1>11. CASE WriteRow
  BY <1>1, <1>2, <1>11 DEF OffsetsFollowDump, WriteRow
<1>12. CASE EndRows
  <2>1. /\ UNCHANGED <<c, phase, condOffsets>> /\ phase = "rows" /\ p' = p + 1
        /\ p <= Len(job.procs)
    BY <1>12 DEF EndRows
  <2>2. /\ DOMAIN procOffsets \subseteq DOMAIN procOffsets'
        /\ p # Len(job.procs) => p + 1 \in DOMAIN procOffsets'
    BY <1>12 DEF EndRows, MapPut
  <2>3. c = 0 /\ p \in DOMAIN procOffsets
    BY <1>1, <1>2, <2>1 DEF OffsetsFollowDump
  <2> QED
    BY <1>1, <1>2, <2>1, <2>2, <2>3 DEF OffsetsFollowDump
<1>13. CASE StartVector \/ WriteVector \/ Finish
  BY <1>1, <1>2, <1>13 DEF OffsetsFollowDump, StartVector, WriteVector, Finish
<1>14. CASE Done \/ UNCHANGED vars
  BY <1>1, <1>2, <1>14 DEF OffsetsFollowDump, Done, vars, InEntry, Reached
<1> QED
  BY <1>5, <1>6, <1>7, <1>8, <1>9, <1>10, <1>11, <1>12, <1>13, <1>14 DEF Next

(* Bodies, shared or opened, row tables and the vector are placed at       *)
(* even addresses on padding targets.                                      *)
LEMMA BodiesAlignedStep == IndInv /\ [Next]_vars => BodiesAligned'
<1> DEFINE
      CondsOK == \A x \in DOMAIN condOffsets :
                   job.classic \/ Hash(x[1], x[2], 1) # <<>> =>
                     condOffsets[x] % 2 = 0
      ProcsOK == \A q \in DOMAIN procOffsets : procOffsets[q] % 2 = 0
      VectorOK == phase = "vector" /\ p = 1 => addr % 2 = 0
<1> SUFFICES ASSUME IndInv, [Next]_vars, job.padding
             PROVE  CondsOK' /\ ProcsOK' /\ VectorOK'
  BY JobKept DEF BodiesAligned
<1>1. CondsOK /\ ProcsOK /\ VectorOK
  BY DEF IndInv, BodiesAligned
<1>2. /\ job' = job
      /\ \A q, f, i : Hash(q, f, i)' = Hash(q, f, i)
      /\ addr \in Nat /\ p \in Nat \ {0}
  BY JobKept, HashKept DEF IndInv, TypeOK
<1>3. PaddedAddr(addr) % 2 = 0 /\ PaddedAddr(addr + 1) % 2 = 0
  <2>1. addr + 1 \in Nat
    BY <1>2
  <2> QED
    BY <1>2, <2>1, PaddingCounted
<1>4. UNCHANGED condOffsets => CondsOK'
  BY <1>1, <1>2
<1>5. UNCHANGED procOffsets => ProcsOK'
  BY <1>1
<1> HIDE DEF CondsOK, ProcsOK
<1>6. ASSUME UNCHANGED <<condOffsets, procOffsets>>, phase' # "vector" \/ p' # 1
      PROVE  CondsOK' /\ ProcsOK' /\ VectorOK'
  BY <1>4, <1>5, <1>6
<1>7. CASE ShareBody
  <2> DEFINE at == hashMap[Hash(p, e, 1)]
  <2>1. AtEntry /\ ~job.classic /\ Hash(p, e, 1) # <<>> /\ at # NoOffset
    BY <1>7, Zenon DEF ShareBody
  <2>2. at % 2 = 0
    BY <2>1, HashRegistered DEF IndInv, TailOffsetsAligned
  <2>3. condOffsets' = MapPut(condOffsets, <<p, e>>, at)
    BY <1>7, Zenon DEF ShareBody
  <2> HIDE DEF at
  <2>4. CondsOK'
    BY <1>1, <1>2, <2>2, <2>3 DEF CondsOK, MapPut
  <2> QED
    BY <1>5, <1>7, <2>1, <2>4 DEF ShareBody, AtEntry
<1>8. CASE OpenBody
  <2> DEFINE hashes == job.classic \/ Hash(p, e, 1) # <<>>
             at == IF hashes THEN PaddedAddr(addr) ELSE addr
  <2>1. condOffsets' = MapPut(condOffsets, <<p, e>>, at)
    BY <1>8, Zenon DEF OpenBody
  <2>2. hashes => at % 2 = 0
    BY <1>3
  <2>3. \A x \in DOMAIN condOffsets' :
          \/ x \in DOMAIN condOffsets /\ condOffsets'[x] = condOffsets[x]
          \/ x = <<p, e>> /\ condOffsets'[x] = at
    <3> HIDE DEF at
    <3> QED
      BY <2>1 DEF MapPut
  <2> HIDE DEF at
  <2>4. CondsOK'
    <3> SUFFICES ASSUME NEW x \in DOMAIN condOffsets',
                        job.classic \/ Hash(x[1], x[2], 1) # <<>>
                 PROVE  condOffsets'[x] % 2 = 0
      BY <1>2, Zenon DEF CondsOK
    <3>1. CASE x \in DOMAIN condOffsets /\ condOffsets'[x] = condOffsets[x]
      BY <1>1, <3>1 DEF CondsOK
    <3>2. CASE x = <<p, e>> /\ condOffsets'[x] = at
      <4>1. x[1] = p /\ x[2] = e
        BY <3>2
      <4>2. hashes
        BY <4>1, Zenon
      <4> QED
        BY <2>2, <3>2, <4>2
    <3> QED
      BY <2>3, <3>1, <3>2
  <2> QED
    BY <1>5, <1>8, <2>4 DEF OpenBody, AtEntry
<1>9. CASE StartRows
  <2>1. \/ procOffsets' = procOffsets
        \/ procOffsets' = MapPut(procOffsets, 1, PaddedAddr(addr))
    BY <1>9, Zenon DEF StartRows
  <2>2. ProcsOK'
    BY <1>1, <1>3, <2>1 DEF ProcsOK, MapPut
  <2> QED
    BY <1>4, <1>9, <2>2 DEF StartRows
<1>10. CASE EndRows
  <2>1. \/ procOffsets' = procOffsets
        \/ procOffsets' = MapPut(procOffsets, p + 1, PaddedAddr(addr + 1))
    BY <1>10, Zenon DEF EndRows
  <2>2. ProcsOK'
    BY <1>1, <1>3, <2>1 DEF ProcsOK, MapPut
  <2> QED
    BY <1>4, <1>10, <2>2 DEF EndRows
<1>11. CASE StartVector
  BY <1>3, <1>4, <1>5, <1>11 DEF StartVector
<1>12. CASE WriteVector
  BY <1>2, <1>6, <1>12 DEF WriteVector
<1>13. CASE RegisterTails \/ SkipCondact \/ EmitCondact \/ CloseBody
            \/ NextProcess \/ WriteRow
  BY <1>6, <1>13 DEF RegisterTails, SkipCondact, EmitCondact, CloseBody,
                     NextProcess, WriteRow, InBody
<1>14. CASE Finish \/ Done
  BY <1>1, <1>4, <1>5, <1>6, <1>14 DEF Finish, Done, vars
<1>15. CASE UNCHANGED vars
  BY <1>1, <1>4, <1>5, <1>15 DEF vars
<1> QED
  BY <1>7, <1>8, <1>9, <1>10, <1>11, <1>12, <1>13, <1>14, <1>15 DEF Next

-----------------------------------------------------------------------------
(* The invariant.                                                          *)

(* The invariant holds at the start.                                       *)
LEMMA IndInvInit == Init => IndInv
<1> SUFFICES ASSUME Init PROVE IndInv
  OBVIOUS
<1>1. TypeOK
  BY TypeInit
<1>2. AddrCountsBytes
  <2>1. Len(out) = 0 /\ addr = job.base /\ job.base \in Nat
    BY <1>1 DEF Init, TypeOK, IsJob
  <2> QED
    BY <2>1 DEF AddrCountsBytes
<1>3. TailsRegistered
  BY DEF Init, TailsRegistered
<1>4. /\ DOMAIN hashMap = {} /\ DOMAIN condOffsets = {}
      /\ DOMAIN procOffsets = {}
  <2>1. DOMAIN <<>> = {}
    OBVIOUS
  <2> QED
    BY <2>1 DEF Init
<1>5. TailOffsetsAligned
  BY <1>4 DEF TailOffsetsAligned
<1>6. OffsetsFollowDump
  <2>1. p = 1 /\ e = 1 /\ c = 0 /\ phase = "register"
    BY DEF Init
  <2>2. \A x \in EntryIds : ~Reached(x)
    <3>1. /\ Len(job.procs) \in Nat
          /\ \A q \in 1..Len(job.procs) : Len(job.procs[q]) \in Nat
      BY <1>1, ProcsAreSequences DEF TypeOK
    <3> QED
      BY <2>1, <3>1, EntryIdsProperty DEF Reached
  <2> QED
    BY <1>4, <2>1, <2>2 DEF OffsetsFollowDump
<1>7. BodiesAligned
  BY <1>4 DEF BodiesAligned, Init
<1> QED
  BY <1>1, <1>2, <1>3, <1>5, <1>6, <1>7 DEF IndInv

(* Every step keeps the invariant.                                         *)
LEMMA IndInvStep == IndInv /\ [Next]_vars => IndInv'
BY TypeStep, BytesStep, TailsRegisteredStep, TailOffsetsAlignedStep,
   OffsetsFollowDumpStep, BodiesAlignedStep DEF IndInv

(* The invariant holds in every reachable state.                           *)
LEMMA Invariance == Spec => []IndInv
BY IndInvInit, IndInvStep, PTL DEF Spec

(* Every variable of emit_processes stays in the range of its C type.      *)
THEOREM TypeCorrect == Spec => []TypeOK
<1>1. IndInv => TypeOK
  BY DEF IndInv
<1> QED
  BY Invariance, <1>1, PTL

(* *addr is never out of step with the bytes pushed, whatever the job.     *)
THEOREM AddrCorrect == Spec => []AddrCountsBytes
<1>1. IndInv => AddrCountsBytes
  BY DEF IndInv
<1> QED
  BY Invariance, <1>1, PTL

(* No body that anything shares, no row table and no vector starts at an   *)
(* odd address of a padding target, whatever the job.                      *)
THEOREM Aligned == Spec => []BodiesAligned
<1>1. IndInv => BodiesAligned
  BY DEF IndInv
<1> QED
  BY Invariance, <1>1, PTL

-----------------------------------------------------------------------------
(* Offsets never move.                                                     *)

(* No step moves an offset that a hash or an entry has.                    *)
LEMMA OffsetsStickStep ==
  IndInv /\ [Next]_vars =>
    /\ \A h \in DOMAIN hashMap : hashMap[h] # NoOffset => hashMap'[h] = hashMap[h]
    /\ \A x \in DOMAIN condOffsets : condOffsets'[x] = condOffsets[x]
<1> DEFINE
      HashesStick == \A h \in DOMAIN hashMap :
                       hashMap[h] # NoOffset => hashMap'[h] = hashMap[h]
      CondsStick == \A x \in DOMAIN condOffsets : condOffsets'[x] = condOffsets[x]
<1> SUFFICES ASSUME IndInv, [Next]_vars PROVE HashesStick /\ CondsStick
  OBVIOUS
<1>1. ASSUME UNCHANGED <<hashMap, condOffsets>> PROVE HashesStick /\ CondsStick
  BY <1>1
<1>2. AtEntry => <<p, e>> \notin DOMAIN condOffsets
  <2> SUFFICES ASSUME AtEntry PROVE <<p, e>> \notin DOMAIN condOffsets
    OBVIOUS
  <2>1. p \in Nat /\ e \in Nat /\ c = 0 /\ phase = "dump"
    BY DEF AtEntry, IndInv, TypeOK
  <2>2. ~Reached(<<p, e>>)
    BY <2>1 DEF Reached
  <2> QED
    BY <2>1, <2>2 DEF IndInv, OffsetsFollowDump
<1>3. \A at : AtEntry /\ condOffsets' = MapPut(condOffsets, <<p, e>>, at) => CondsStick
  BY <1>2 DEF MapPut
<1>4. CASE RegisterTails
  <2>1. hashMap = <<>>
    BY <1>4 DEF RegisterTails, IndInv, TailsRegistered
  <2>2. DOMAIN hashMap = {}
    BY <2>1
  <2> QED
    BY <1>4, <2>2 DEF RegisterTails
<1>5. CASE ShareBody
  <2>1. AtEntry /\ UNCHANGED hashMap
        /\ \E at : condOffsets' = MapPut(condOffsets, <<p, e>>, at)
    BY <1>5, Zenon DEF ShareBody
  <2> QED
    BY <1>3, <2>1
<1>6. CASE OpenBody
  <2> DEFINE own == Hash(p, e, 1)
  <2>1. AtEntry /\ \E at : condOffsets' = MapPut(condOffsets, <<p, e>>, at)
    BY <1>6, Zenon DEF OpenBody
  <2>2. \/ hashMap' = hashMap
        \/ hashMap[own] = NoOffset /\ \E at : hashMap' = [hashMap EXCEPT ![own] = at]
    <3>1. CASE ~job.classic /\ own # <<>>
      BY <1>6, <3>1, Zenon DEF OpenBody
    <3>2. CASE ~(~job.classic /\ own # <<>>)
      BY <1>6, <3>2, Zenon DEF OpenBody
    <3> QED
      BY <3>1, <3>2
  <2> HIDE DEF own
  <2>3. HashesStick
    BY <2>2
  <2> QED
    BY <1>3, <2>1, <2>3
<1>7. CASE EmitCondact
  <2>1. hashMap' = TailOffsets /\ UNCHANGED condOffsets
    BY <1>7, Zenon DEF EmitCondact
  <2> QED
    BY <2>1, TailOffsetsProperty
<1>8. CASE SkipCondact \/ CloseBody \/ NextProcess \/ StartRows
  BY <1>1, <1>8 DEF SkipCondact, CloseBody, NextProcess, StartRows
<1>9. CASE WriteRow \/ EndRows \/ StartVector \/ WriteVector
  BY <1>1, <1>9 DEF WriteRow, EndRows, StartVector, WriteVector
<1>10. CASE Finish \/ Done \/ UNCHANGED vars
  BY <1>1, <1>10 DEF Finish, Done, vars
<1> QED
  BY <1>4, <1>5, <1>6, <1>7, <1>8, <1>9, <1>10 DEF Next

(* Once a tail or an entry has an address it keeps it: rows, later sharers *)
(* and srcmap records written from it cannot go stale.                     *)
THEOREM OffsetsNeverMove == Spec => OffsetsStick
<1>1. IndInv /\ [Next]_vars =>
        [/\ \A h \in DOMAIN hashMap :
              hashMap[h] # NoOffset => hashMap'[h] = hashMap[h]
         /\ \A x \in DOMAIN condOffsets : condOffsets'[x] = condOffsets[x]]_vars
  BY OffsetsStickStep
<1> QED
  BY Invariance, <1>1, PTL DEF Spec, OffsetsStick

-----------------------------------------------------------------------------
(* Every entry is found, whoever wrote its bytes.                          *)

(* The body of any entry is condacts, and its code is bytes from each.     *)
LEMMA BodyAndCode ==
  ASSUME IsJob(job), NEW x \in EntryIds
  PROVE  /\ Body(x[1], x[2]) \in Seq(CONDACT)
         /\ Len(Body(x[1], x[2])) \in Nat
         /\ DOMAIN Body(x[1], x[2]) = 1..Len(Body(x[1], x[2]))
         /\ \A i \in DOMAIN Body(x[1], x[2]) : Body(x[1], x[2])[i] \in CONDACT
         /\ Code(x) \in [1 .. Len(Body(x[1], x[2])) + 1 -> Seq(Bytes)]
         /\ Code(x)[1] \in Seq(Bytes)
         /\ Meaning(x) = Code(x)[1]
<1> DEFINE ROW == [Verb : 0..255, Noun : 0..255, condacts : Seq(CONDACT)]
           b == Body(x[1], x[2])
<1>1. PICK q, f : q \in 1..Len(job.procs) /\ f \in 1..Len(job.procs[q]) /\ x = <<q, f>>
  BY EntryIdsProperty
<1>2. job.procs \in Seq(Seq(ROW))
  BY DEF IsJob
<1>3. Entry(q, f) \in ROW
  <2> HIDE DEF ROW
  <2>1. job.procs[q] \in Seq(ROW)
    BY <1>1, <1>2, ElementOfSeq
  <2>2. QED
    BY <1>1, <2>1, ElementOfSeq DEF Entry
<1>4. b \in Seq(CONDACT)
  <2>1. b = Entry(q, f).condacts
    BY <1>1 DEF Body
  <2>2. QED
    BY <1>3, <2>1
<1>5. Code(x) \in [1 .. Len(b) + 1 -> Seq(Bytes)]
  <2> HIDE DEF b
  <2>1. TailBytes(b, job.debug, job.classic) \in [1 .. Len(b) + 1 -> Seq(Bytes)]
    BY <1>4, TailBytesEquation
  <2>2. QED
    BY <2>1, Zenon DEF Code, b
<1>6. Len(b) \in Nat /\ DOMAIN b = 1..Len(b) /\ \A i \in DOMAIN b : b[i] \in CONDACT
  <2> HIDE DEF b
  <2>1. QED
    BY <1>4, LenProperties, ElementOfSeq
<1>7. 1 \in 1 .. Len(b) + 1
  <2> HIDE DEF b
  <2>1. QED
    BY <1>6
<1>8. Meaning(x) = Code(x)[1]
  BY Zenon DEF Meaning, EntryBytes, Code
<1>9. QED
  BY <1>4, <1>5, <1>6, <1>7, <1>8, Zenon

(* What stands in a file stands in what the file grows to.                 *)
LEMMA StaysStanding ==
  ASSUME IsJob(job), NEW file \in Seq(Bytes), NEW more \in Seq(Bytes),
         NEW code \in Seq(Bytes), NEW at, Stands(file, at, code)
  PROVE  Stands(file \o more, at, code)
<1> DEFINE from == at - job.base
           n == Len(code)
<1>1. from \in Nat /\ n \in Nat
  BY LenProperties DEF Stands
<1>2. from + n <= Len(file) /\ SubSeq(file, from + 1, from + n) = code
  BY DEF Stands
<1> HIDE DEF from, n
<1>3. /\ from + n <= Len(file \o more)
      /\ SubSeq(file \o more, from + 1, from + n) = SubSeq(file, from + 1, from + n)
  BY <1>1, <1>2, PartStays
<1>4. QED
  BY <1>1, <1>2, <1>3 DEF Stands, from, n

(* What is appended to a file stands at its old end.                       *)
LEMMA AppendedStands ==
  ASSUME IsJob(job), NEW file \in Seq(Bytes), NEW code \in Seq(Bytes),
         NEW at, at = job.base + Len(file)
  PROVE  Stands(file \o code, at, code)
<1>1. /\ Len(file) \in Nat /\ Len(code) \in Nat
      /\ Len(file \o code) = Len(file) + Len(code)
  BY ConcatBytes
<1>2. SubSeq(file \o code, Len(file) + 1, Len(file) + Len(code)) = code
  BY PartAppended
<1> DEFINE from == at - job.base
<1>3. from = Len(file)
  BY <1>1 DEF IsJob
<1> HIDE DEF from
<1>4. /\ from \in Nat /\ from + Len(code) <= Len(file \o code)
      /\ SubSeq(file \o code, from + 1, from + Len(code)) = code
  BY <1>1, <1>2, <1>3
<1>5. QED
  BY <1>4, Zenon DEF Stands, from

(* An entry that stands is read back by an interpreter.                    *)
LEMMA StandsIsRead ==
  ASSUME IsJob(job), out \in Seq(Bytes), NEW code \in Seq(Bytes), NEW at
  PROVE  Stands(out, at, code) => ReadAt(at, Len(code)) = code
<1> DEFINE from == at - job.base
<1> SUFFICES ASSUME Stands(out, at, code) PROVE ReadAt(at, Len(code)) = code
  OBVIOUS
<1>1. Len(code) \in Nat /\ Len(out) \in Nat
  BY LenProperties
<1>2. /\ from \in Nat /\ from + Len(code) <= Len(out)
      /\ SubSeq(out, from + 1, from + Len(code)) = code
  BY DEF Stands
<1> HIDE DEF from
<1>3. from \in 0 .. Len(out) - Len(code)
  BY <1>1, <1>2
<1>4. QED
  BY <1>2, <1>3, Zenon DEF ReadAt, from

(* Nothing of a job changes, so neither does what its entries mean.        *)
LEMMA CodeKept ==
  ASSUME job' = job
  PROVE  /\ \A x : Code(x)' = Code(x)
         /\ \A q, f : Body(q, f)' = Body(q, f)
         /\ \A q, f, i : Hash(q, f, i)' = Hash(q, f, i)
         /\ EntryIds' = EntryIds
         /\ HashesTell' = HashesTell
         /\ \A file, at, code : Stands(file, at, code)' = Stands(file, at, code)
<1>1. \A q, f : Body(q, f)' = Body(q, f)
  BY DEF Body, Entry
<1>2. job'.debug = job.debug /\ job'.classic = job.classic
  OBVIOUS
<1>3. EntryIds' = EntryIds
  BY EntryIdsKept
<1>4. \A x : Code(x)' = Code(x)
  BY DEF Code, Body, Entry
<1>5. HashesTell' = HashesTell
  BY <1>3 DEF HashesTell, Body, Entry
<1>6. \A file, at, code : Stands(file, at, code)' = Stands(file, at, code)
  BY DEF Stands
<1>7. QED
  BY <1>1, <1>3, <1>4, <1>5, <1>6, HashKept

(* The rest of the next state's entry, in terms of its own cursor.         *)
LEMMA RestNext ==
  ASSUME job' = job, NEW q, NEW f, NEW i, p' = q, e' = f, c' = i
  PROVE  Rest' = IF i > 0 THEN Code(<<q, f>>)[i] ELSE <<>>
BY DEF Rest, Code, Body, Entry

(* The rest of the entry being dumped is bytes, and nothing between two.   *)
LEMMA RestTyped ==
  ASSUME IndInv, CursorInBody
  PROVE  /\ Rest \in Seq(Bytes) /\ Promised \in Seq(Bytes)
         /\ c = 0 => Rest = <<>> /\ Promised = out
         /\ c > 0 => /\ <<p, e>> \in EntryIds
                     /\ c \in 1 .. Len(Body(p, e)) + 1
                     /\ Rest = Code(<<p, e>>)[c]
<1>1. /\ IsJob(job) /\ out \in Seq(Bytes) /\ c \in Nat
      /\ p \in Nat \ {0} /\ e \in Nat \ {0}
  BY DEF IndInv, TypeOK
<1>2. CASE c = 0
  <2>1. Rest = <<>>
    BY <1>2 DEF Rest
  <2>2. <<>> \in Seq(Bytes) /\ out \o <<>> = out
    BY <1>1, ConcatEmptySeq
  <2>3. QED
    BY <1>1, <1>2, <2>1, <2>2 DEF Promised
<1>3. CASE c > 0
  <2>1. InEntry
    BY <1>3 DEF IndInv, OffsetsFollowDump
  <2>2. <<p, e>> \in EntryIds
    BY <1>1, <2>1, CurrentEntry
  <2>3. /\ Code(<<p, e>>) \in [1 .. Len(Body(p, e)) + 1 -> Seq(Bytes)]
        /\ Len(Body(p, e)) \in Nat
    BY <1>1, <2>2, BodyAndCode
  <2>4. c \in 1 .. Len(Body(p, e)) + 1
    BY <1>1, <1>3, <2>3 DEF CursorInBody
  <2>5. Rest = Code(<<p, e>>)[c]
    BY <1>3 DEF Rest
  <2>6. Rest \in Seq(Bytes)
    BY <2>3, <2>4, <2>5
  <2>7. Promised \in Seq(Bytes)
    BY <1>1, <2>6, ConcatBytes DEF Promised
  <2>8. QED
    BY <1>3, <2>2, <2>4, <2>5, <2>6, <2>7
<1>4. QED
  BY <1>1, <1>2, <1>3

(* The code of an entry, one condact at a time.                            *)
LEMMA CodeUnfolds ==
  ASSUME IsJob(job), NEW x \in EntryIds
  PROVE  /\ Code(x)[Len(Body(x[1], x[2])) + 1] = <<EndMark>>
         /\ \A i \in 1..Len(Body(x[1], x[2])) :
              Code(x)[i] = Continued(Body(x[1], x[2])[i], job.debug, job.classic,
                                     Code(x)[i + 1])
<1> DEFINE b == Body(x[1], x[2])
<1>1. b \in Seq(CONDACT)
  BY BodyAndCode
<1> HIDE DEF b
<1>2. /\ TailBytes(b, job.debug, job.classic)[Len(b) + 1] = <<EndMark>>
      /\ \A i \in 1..Len(b) :
           TailBytes(b, job.debug, job.classic)[i] =
             Continued(b[i], job.debug, job.classic,
                       TailBytes(b, job.debug, job.classic)[i + 1])
  BY <1>1, TailBytesEquation
<1>3. QED
  BY <1>2, Zenon DEF b, Code

(* What the tables push is bytes behind those that are there.              *)
LEMMA TablesAppend ==
  ASSUME IndInv,
         \/ StartRows \/ WriteRow \/ EndRows \/ StartVector \/ WriteVector
  PROVE  \E s \in Seq(Bytes) : out' = out \o s
<1>1. /\ IsJob(job) /\ out \in Seq(Bytes) /\ addr \in Nat /\ addr + 1 \in Nat
      /\ p \in Nat \ {0} /\ e \in Nat \ {0}
  BY DEF IndInv, TypeOK
<1>2. PadBytes(addr) \in Seq(Bytes) /\ PadBytes(addr + 1) \in Seq(Bytes)
  BY <1>1, PaddingCounted
<1>3. CASE StartRows \/ StartVector
  BY <1>2, <1>3 DEF StartRows, StartVector
<1>4. CASE WriteRow
  <2> DEFINE verbNoun == <<Entry(p, e).Verb % 256, Entry(p, e).Noun % 256>>
             off == U16(condOffsets[<<p, e>>])
  <2>1. verbNoun \in Seq(Bytes)
    <3>1. Entry(p, e).Verb \in Nat /\ Entry(p, e).Noun \in Nat
      BY <1>1, <1>4, CurrentEntry DEF WriteRow
    <3>2. QED
      BY <3>1 DEF Bytes
  <2>2. off \in Seq(Bytes)
    <3>1. <<p, e>> \in DOMAIN condOffsets
      BY <1>1, <1>4, CurrentEntry DEF IndInv, OffsetsFollowDump, WriteRow
    <3>2. QED
      BY <3>1, U16IsTwoBytes DEF IndInv, TypeOK
  <2>3. out' = (out \o verbNoun) \o off
    BY <1>4 DEF WriteRow
  <2> HIDE DEF verbNoun, off
  <2>4. out' = out \o (verbNoun \o off) /\ verbNoun \o off \in Seq(Bytes)
    BY <1>1, <2>1, <2>2, <2>3, ConcatAssociative, ConcatBytes
  <2>5. QED
    BY <2>4
<1>5. CASE EndRows
  <2>1. out' = (out \o <<0>>) \o PadBytes(addr + 1)
    BY <1>5 DEF EndRows
  <2>2. <<0>> \in Seq(Bytes)
    BY DEF Bytes
  <2>3. /\ out' = out \o (<<0>> \o PadBytes(addr + 1))
        /\ <<0>> \o PadBytes(addr + 1) \in Seq(Bytes)
    BY <1>1, <1>2, <2>1, <2>2, ConcatAssociative, ConcatBytes, SMTT(30)
  <2>4. QED
    BY <2>3
<1>6. CASE WriteVector
  <2>1. U16(procOffsets[p]) \in Seq(Bytes)
    <3>1. p \in DOMAIN procOffsets
      BY <1>1, <1>6 DEF IndInv, OffsetsFollowDump, WriteVector
    <3>2. QED
      BY <3>1, U16IsTwoBytes DEF IndInv, TypeOK
  <2>2. QED
    BY <1>6, <2>1 DEF WriteVector
<1>7. QED
  BY <1>3, <1>4, <1>5, <1>6

(* The file and the promised file only grow: what a step writes is what    *)
(* was promised, unless it makes a promise of its own.                     *)
LEMMA PromiseGrows ==
  ASSUME IndInv, CursorInBody, [Next]_vars
  PROVE  /\ CursorInBody'
         /\ \E s \in Seq(Bytes) : out' = out \o s
         /\ \E t \in Seq(Bytes) : Promised' = Promised \o t
         /\ c' = 0 => Promised' = out'
<1> DEFINE x == <<p, e>>
           b == Body(p, e)
           Grows == /\ \E s \in Seq(Bytes) : out' = out \o s
                    /\ \E t \in Seq(Bytes) : Promised' = Promised \o t
<1>1. /\ IsJob(job) /\ out \in Seq(Bytes) /\ c \in Nat /\ job' = job
      /\ addr \in Nat /\ out' \in Seq(Bytes)
      /\ p \in Nat \ {0} /\ e \in Nat \ {0}
  BY JobKept, BytesStep DEF IndInv, TypeOK
<1>2. /\ Rest \in Seq(Bytes) /\ Promised = out \o Rest /\ Promised \in Seq(Bytes)
      /\ c = 0 => Promised = out
      /\ c > 0 => x \in EntryIds /\ c \in 1 .. Len(b) + 1 /\ Rest = Code(x)[c]
  BY RestTyped DEF Promised
<1>3. \A s \in Seq(Bytes) : s \o <<>> = s /\ <<>> \in Seq(Bytes)
  BY ConcatEmptySeq
<1>4. /\ Promised' = out' \o Rest'
      /\ \A q, f : Body(q, f)' = Body(q, f)
  BY <1>1, CodeKept DEF Promised
<1>5. c' = 0 => Rest' = <<>> /\ Promised' = out' /\ CursorInBody'
  <2> SUFFICES ASSUME c' = 0 PROVE Rest' = <<>> /\ Promised' = out' /\ CursorInBody'
    OBVIOUS
  <2>1. Rest' = <<>>
    BY DEF Rest
  <2>2. Promised' = out'
    BY <1>1, <1>3, <1>4, <2>1
  <2>3. QED
    BY <2>1, <2>2 DEF CursorInBody
<1>6. \A q, f, i : p' = q /\ e' = f /\ c' = i /\ i > 0 => Rest' = Code(<<q, f>>)[i]
  BY <1>1, RestNext
<1> HIDE DEF x
<1>7. ASSUME c = 0, c' = 0, NEW s \in Seq(Bytes), out' = out \o s PROVE Grows
  BY <1>2, <1>5, <1>7
<1>8. CASE OpenBody
  <2> DEFINE pads == job.classic \/ Hash(p, e, 1) # <<>>
             pad == IF pads THEN PadBytes(addr) ELSE <<>>
  <2>1. pad \in Seq(Bytes) /\ out' = out \o pad
    <3>1. PadBytes(addr) \in Seq(Bytes)
      BY <1>1, PaddingCounted
    <3>2. out' = IF pads THEN out \o PadBytes(addr) ELSE out
      BY <1>8, Zenon DEF OpenBody
    <3>3. QED
      BY <1>1, <1>3, <3>1, <3>2
  <2> HIDE DEF pad
  <2>2. c = 0 /\ c' = 1 /\ p' = p /\ e' = e /\ InEntry
    BY <1>8 DEF OpenBody, AtEntry
  <2>3. x \in EntryIds /\ b \in Seq(CONDACT) /\ Code(x)[1] \in Seq(Bytes)
    BY <1>1, <2>2, CurrentEntry, BodyAndCode DEF x
  <2>4. Rest' = Code(x)[1]
    BY <1>6, <2>2 DEF x
  <2> DEFINE code == Code(x)[1]
  <2> HIDE DEF code
  <2>5. Promised' = out \o (pad \o code) /\ pad \o code \in Seq(Bytes)
    <3>1. Promised' = (out \o pad) \o code /\ code \in Seq(Bytes)
      BY <1>4, <2>1, <2>3, <2>4 DEF code
    <3>2. QED
      BY <1>1, <2>1, <3>1, ConcatAssociative, ConcatBytes, SMTT(30)
  <2>6. Grows
    BY <1>2, <2>1, <2>2, <2>5
  <2>7. CursorInBody'
    <3>1. Len(b) \in Nat
      BY <2>3, LenProperties
    <3>2. (Body(p, e))' = b
      BY <1>4, <2>2, Zenon DEF Body, Entry
    <3> HIDE DEF b
    <3>3. QED
      BY <2>2, <3>1, <3>2 DEF CursorInBody
  <2>8. QED
    BY <1>5, <2>2, <2>6, <2>7
<1>9. ASSUME c > 0
      PROVE  /\ b \in Seq(CONDACT) /\ Len(b) \in Nat
             /\ Code(x)[Len(b) + 1] = <<EndMark>>
             /\ \A i \in 1..Len(b) :
                  /\ b[i] \in CONDACT
                  /\ CondactBytes(b[i]) \in Seq(Bytes)
                  /\ Code(x)[i + 1] \in Seq(Bytes)
                  /\ Code(x)[i] = Continued(b[i], job.debug, job.classic, Code(x)[i + 1])
  <2>1. x \in EntryIds
    BY <1>2, <1>9
  <2>2. Body(x[1], x[2]) = b
    BY DEF x
  <2>3. /\ b \in Seq(CONDACT) /\ Len(b) \in Nat
        /\ \A i \in 1..Len(b) : b[i] \in CONDACT
        /\ Code(x) \in [1 .. Len(b) + 1 -> Seq(Bytes)]
    BY <1>1, <2>1, <2>2, BodyAndCode
  <2>4. /\ Code(x)[Len(b) + 1] = <<EndMark>>
        /\ \A i \in 1..Len(b) :
             Code(x)[i] = Continued(b[i], job.debug, job.classic, Code(x)[i + 1])
    BY <1>1, <2>1, <2>2, CodeUnfolds
  <2> HIDE DEF b
  <2>5. \A i \in 1..Len(b) : Code(x)[i + 1] \in Seq(Bytes)
    <3>1. \A i \in 1..Len(b) : i + 1 \in 1 .. Len(b) + 1
      BY <2>3
    <3>2. QED
      BY <2>3, <3>1
  <2>6. \A i \in 1..Len(b) : CondactBytes(b[i]) \in Seq(Bytes)
    BY <2>3, CondactBytesCounted
  <2>7. QED
    BY <2>3, <2>4, <2>5, <2>6
<1>10. ASSUME c > 0, c <= Len(b), c' = c + 1, p' = p, e' = e
       PROVE  Rest' = Code(x)[c + 1] /\ CursorInBody' /\ c \in 1..Len(b)
  <2>1. Rest' = Code(x)[c + 1]
    <3>1. c + 1 > 0
      BY <1>1
    <3>2. QED
      BY <1>6, <1>10, <3>1 DEF x
  <2>2. CursorInBody'
    <3>1. Len(b) \in Nat
      BY <1>9, <1>10
    <3>2. (Body(p, e))' = b
      BY <1>4, <1>10, Zenon DEF Body, Entry
    <3> HIDE DEF b
    <3>3. QED
      BY <1>1, <1>10, <3>1, <3>2 DEF CursorInBody
  <2>3. c \in 1..Len(b)
    BY <1>1, <1>9, <1>10
  <2>4. QED
    BY <2>1, <2>2, <2>3
<1>11. CASE SkipCondact
  <2>1. /\ c > 0 /\ c <= Len(b) /\ c' = c + 1 /\ p' = p /\ e' = e /\ out' = out
        /\ EmitsNothing(b[c], job.debug)
    BY <1>11, Zenon DEF SkipCondact, InBody
  <2>2. Rest' = Code(x)[c + 1] /\ CursorInBody' /\ c \in 1..Len(b)
    BY <1>10, <2>1
  <2>3. Code(x)[c] = Code(x)[c + 1]
    BY <1>9, <2>1, <2>2, Zenon DEF Continued
  <2>4. Promised' = Promised
    BY <1>2, <1>4, <2>1, <2>2, <2>3
  <2>5. c' # 0
    BY <1>1, <2>1
  <2>6. QED
    BY <1>1, <1>2, <1>3, <2>1, <2>2, <2>4, <2>5
<1>12. CASE EmitCondact
  <2> DEFINE k == b[c]
             bytes == CondactBytes(k)
  <2>1. /\ c > 0 /\ c <= Len(b) /\ p' = p
        /\ ~EmitsNothing(k, job.debug) /\ out' = out \o bytes
    BY <1>12, Zenon DEF EmitCondact, InBody
  <2>2. c \in 1..Len(b)
    BY <1>1, <1>9, <2>1
  <2>3. bytes \in Seq(Bytes) /\ Code(x)[c + 1] \in Seq(Bytes)
    BY <1>9, <2>1, <2>2
  <2>4. CASE ~job.classic /\ IsTerminator(k)
    <3>1. c' = 0
      BY <1>12, <2>4, Zenon DEF EmitCondact
    <3>2. Code(x)[c] = bytes
      BY <1>9, <2>1, <2>2, <2>4, Zenon DEF Continued
    <3>3. Promised' = Promised
      BY <1>2, <1>5, <2>1, <3>1, <3>2
    <3>4. QED
      BY <1>2, <1>3, <1>5, <2>1, <2>3, <3>1, <3>3
  <2>5. CASE ~(~job.classic /\ IsTerminator(k))
    <3>1. c' = c + 1 /\ e' = e
      BY <1>12, <2>5, Zenon DEF EmitCondact
    <3>2. Rest' = Code(x)[c + 1] /\ CursorInBody'
      BY <1>10, <2>1, <3>1
    <3>3. Code(x)[c] = bytes \o Code(x)[c + 1]
      BY <1>9, <2>1, <2>2, <2>5, Zenon DEF Continued
    <3> DEFINE more == Code(x)[c + 1]
    <3>4. Promised' = (out \o bytes) \o more /\ Promised = out \o (bytes \o more)
      BY <1>2, <1>4, <2>1, <3>2, <3>3
    <3>5. more \in Seq(Bytes)
      BY <2>3
    <3>6. Promised' = Promised
      <4> HIDE DEF bytes, more
      <4>1. out \in Seq(Bytes)
        BY <1>1
      <4>2. (out \o bytes) \o more = out \o (bytes \o more)
        BY <2>3, <3>5, <4>1, ConcatAssociative, SMTT(30)
      <4>3. QED
        BY <3>4, <4>2, Zenon
    <3>7. c' # 0
      BY <1>1, <3>1
    <3>8. QED
      BY <1>2, <1>3, <2>1, <2>3, <3>2, <3>6, <3>7
  <2>6. QED
    BY <2>4, <2>5
<1>13. CASE CloseBody
  <2>1. c > 0 /\ c = Len(b) + 1 /\ c' = 0 /\ out' = Append(out, EndMark)
    BY <1>13 DEF CloseBody, InBody
  <2>2. <<EndMark>> \in Seq(Bytes) /\ out' = out \o <<EndMark>>
    BY <1>1, <2>1 DEF EndMark, Bytes
  <2>3. Rest = <<EndMark>>
    BY <1>2, <1>9, <2>1
  <2>4. Promised' = Promised
    BY <1>2, <1>5, <2>1, <2>2, <2>3
  <2>5. QED
    BY <1>2, <1>3, <1>5, <2>1, <2>2, <2>4
<1>14. CASE StartRows \/ WriteRow \/ EndRows \/ StartVector \/ WriteVector
  <2>1. c' = c
    BY <1>14 DEF StartRows, WriteRow, EndRows, StartVector, WriteVector
  <2>2. c = 0
    BY <1>1, <1>14 DEF IndInv, OffsetsFollowDump, InEntry, StartRows, WriteRow,
                       EndRows, StartVector, WriteVector
  <2>3. \E s \in Seq(Bytes) : out' = out \o s
    BY <1>14, TablesAppend
  <2>4. QED
    BY <1>5, <1>7, <2>1, <2>2, <2>3
<1>15. CASE RegisterTails \/ ShareBody \/ NextProcess \/ Finish \/ Done
  <2>1. c' = c /\ out' = out
    BY <1>15 DEF RegisterTails, ShareBody, NextProcess, Finish, Done, vars
  <2>2. CASE c = 0
    BY <1>1, <1>3, <1>5, <1>7, <2>1, <2>2
  <2>3. CASE c > 0
    <3>1. phase = "dump" /\ InEntry
      BY <2>3 DEF IndInv, OffsetsFollowDump
    <3>2. p <= Len(job.procs) /\ ~(e > Len(job.procs[p]))
      <4>1. Len(job.procs) \in Nat /\ \A q \in 1..Len(job.procs) : Len(job.procs[q]) \in Nat
        BY <1>1, ProcsAreSequences
      <4>2. QED
        BY <1>1, <3>1, <4>1 DEF InEntry
    <3>3. FALSE
      BY <1>15, <2>3, <3>1, <3>2 DEF RegisterTails, ShareBody, AtEntry, NextProcess,
                                     Finish, Done
    <3>4. QED
      BY <3>3
  <2>4. QED
    BY <1>1, <2>2, <2>3
<1>16. CASE UNCHANGED vars
  <2>1. UNCHANGED <<p, e, c, out>>
    BY <1>16 DEF vars
  <2>2. Rest' = Rest /\ CursorInBody'
    BY <1>16 DEF vars, Rest, Code, Body, Entry, CursorInBody
  <2>3. Promised' = Promised
    BY <1>4, <2>1, <2>2 DEF Promised
  <2>4. QED
    BY <1>1, <1>2, <1>3, <1>5, <2>1, <2>2, <2>3
<1>17. QED
  BY <1>8, <1>11, <1>12, <1>13, <1>14, <1>15, <1>16 DEF Next

(* What was promised stays promised.                                       *)
LEMMA PromiseKept ==
  ASSUME IndInv, CursorInBody, [Next]_vars, NEW x \in EntryIds,
         NEW i \in 1 .. Len(Body(x[1], x[2])) + 1, NEW at
  PROVE  /\ Stands(Promised, at, Code(x)[i]) => Stands(Promised', at, Code(x)[i])
         /\ Stands(out, at, Code(x)[i]) => Stands(out', at, Code(x)[i])
<1>1. IsJob(job) /\ out \in Seq(Bytes) /\ Promised \in Seq(Bytes)
  BY RestTyped DEF IndInv, TypeOK
<1>2. Code(x)[i] \in Seq(Bytes)
  BY <1>1, BodyAndCode
<1>3. PICK s \in Seq(Bytes) : out' = out \o s
  BY PromiseGrows
<1>4. PICK t \in Seq(Bytes) : Promised' = Promised \o t
  BY PromiseGrows
<1>5. QED
  BY <1>1, <1>2, <1>3, <1>4, StaysStanding

(* The tail a step starts to write stands at the address it notes.         *)
LEMMA TailStands ==
  ASSUME IndInv, CursorInBody, EmitCondact
  PROVE  /\ <<p, e>> \in EntryIds
         /\ c \in DOMAIN Body(p, e)
         /\ Stands(Promised, addr, Code(<<p, e>>)[c])
<1>1. /\ c > 0 /\ c <= Len(Body(p, e)) /\ c \in Nat
      /\ IsJob(job) /\ out \in Seq(Bytes) /\ addr = job.base + Len(out)
  BY DEF EmitCondact, InBody, IndInv, TypeOK, AddrCountsBytes
<1>2. /\ <<p, e>> \in EntryIds /\ c \in 1 .. Len(Body(p, e)) + 1
      /\ Rest = Code(<<p, e>>)[c] /\ Rest \in Seq(Bytes)
  BY <1>1, RestTyped
<1>3. c \in DOMAIN Body(p, e)
  <2>1. DOMAIN Body(p, e) = 1..Len(Body(p, e)) /\ Len(Body(p, e)) \in Nat
    BY <1>1, <1>2, BodyAndCode
  <2>2. QED
    BY <1>1, <2>1
<1>4. Stands(out \o Rest, addr, Rest)
  BY <1>1, <1>2, AppendedStands
<1>5. QED
  BY <1>2, <1>3, <1>4 DEF Promised

(* The body a step opens stands, promised, at the address it notes.        *)
LEMMA BodyStands ==
  ASSUME IndInv, CursorInBody, OpenBody, NEW at,
         at = IF job.classic \/ Hash(p, e, 1) # <<>> THEN PaddedAddr(addr) ELSE addr
  PROVE  /\ <<p, e>> \in EntryIds
         /\ Stands(Promised', at, Code(<<p, e>>)[1])
<1> DEFINE pads == job.classic \/ Hash(p, e, 1) # <<>>
           code == Code(<<p, e>>)[1]
<1>1. /\ IsJob(job) /\ out \in Seq(Bytes) /\ addr \in Nat
      /\ addr = job.base + Len(out) /\ job' = job
      /\ InEntry /\ c' = 1 /\ p' = p /\ e' = e
      /\ p \in Nat \ {0} /\ e \in Nat \ {0}
  BY DEF OpenBody, AtEntry, IndInv, TypeOK, AddrCountsBytes
<1>2. <<p, e>> \in EntryIds /\ code \in Seq(Bytes)
  BY <1>1, CurrentEntry, BodyAndCode
<1>3. Rest' = code
  <2>1. 1 > 0
    OBVIOUS
  <2>2. QED
    BY <1>1, <2>1, RestNext
<1>4. Promised' = out' \o code
  BY <1>3 DEF Promised
<1>5. out' \in Seq(Bytes) /\ at = job.base + Len(out')
  <2>1. out' = IF pads THEN out \o PadBytes(addr) ELSE out
    BY Zenon DEF OpenBody
  <2>2. /\ PadBytes(addr) \in Seq(Bytes)
        /\ PaddedAddr(addr) = addr + Len(PadBytes(addr))
    BY <1>1, PaddingCounted
  <2>3. /\ out \o PadBytes(addr) \in Seq(Bytes)
        /\ Len(out \o PadBytes(addr)) = Len(out) + Len(PadBytes(addr))
        /\ Len(out) \in Nat /\ Len(PadBytes(addr)) \in Nat
    BY <1>1, <2>2, ConcatBytes
  <2>4. job.base \in Nat
    BY <1>1 DEF IsJob
  <2>5. CASE pads
    BY <1>1, <2>1, <2>2, <2>3, <2>4, <2>5
  <2>6. CASE ~pads
    BY <1>1, <2>1, <2>6
  <2>7. QED
    BY <2>5, <2>6
<1> HIDE DEF code
<1>6. Stands(out' \o code, at, code)
  BY <1>1, <1>2, <1>5, AppendedStands
<1>7. QED
  BY <1>2, <1>4, <1>6 DEF code

(* Every hash with an offset leads to its bytes.                           *)
LEMMA HashesLeadStep ==
  ASSUME IndInv, CodeInv, [Next]_vars
  PROVE  HashesLead'
<1> DEFINE Leads(h, at) == \E x \in EntryIds : \E i \in DOMAIN Body(x[1], x[2]) :
                             /\ Hash(x[1], x[2], i) = h
                             /\ Stands(Promised', at, Code(x)[i])
<1>1. /\ IsJob(job) /\ job' = job /\ CursorInBody /\ HashesLead
      /\ EntryIds' = EntryIds
  BY JobKept, EntryIdsKept DEF IndInv, TypeOK, CodeInv
<1>2. ASSUME \A h \in DOMAIN hashMap' : hashMap'[h] # NoOffset => Leads(h, hashMap'[h])
      PROVE  HashesLead'
  <2> SUFFICES ASSUME NEW h \in DOMAIN hashMap', hashMap'[h] # NoOffset
               PROVE  \E x \in EntryIds : \E i \in DOMAIN Body(x[1], x[2])' :
                        /\ Hash(x[1], x[2], i)' = h
                        /\ Stands(Promised, hashMap[h], Code(x)[i])'
    BY <1>1 DEF HashesLead
  <2>1. PICK x, i :
          /\ x \in EntryIds /\ i \in DOMAIN Body(x[1], x[2])
          /\ Hash(x[1], x[2], i) = h /\ Stands(Promised', hashMap'[h], Code(x)[i])
    BY <1>2
  <2>2. /\ Body(x[1], x[2])' = Body(x[1], x[2])
        /\ Hash(x[1], x[2], i)' = Hash(x[1], x[2], i)
        /\ Code(x)' = Code(x)
    BY <1>1, CodeKept
  <2>3. Stands(Promised, hashMap[h], Code(x)[i])'
    BY <1>1, <2>1, <2>2 DEF Stands
  <2>4. QED
    BY <2>1, <2>2, <2>3
<1>3. ASSUME NEW h \in DOMAIN hashMap, hashMap[h] # NoOffset
      PROVE  Leads(h, hashMap[h])
  <2>1. PICK x, i :
          /\ x \in EntryIds /\ i \in DOMAIN Body(x[1], x[2])
          /\ Hash(x[1], x[2], i) = h /\ Stands(Promised, hashMap[h], Code(x)[i])
    BY <1>1, <1>3 DEF HashesLead
  <2>2. i \in 1 .. Len(Body(x[1], x[2])) + 1
    <3>1. /\ DOMAIN Body(x[1], x[2]) = 1..Len(Body(x[1], x[2]))
          /\ Len(Body(x[1], x[2])) \in Nat
      BY <1>1, <2>1, BodyAndCode
    <3>2. QED
      BY <2>1, <3>1
  <2>3. Stands(Promised', hashMap[h], Code(x)[i])
    BY <1>1, <2>1, <2>2, PromiseKept
  <2>4. QED
    BY <2>1, <2>3
<1> HIDE DEF Leads
<1>4. ASSUME UNCHANGED hashMap PROVE HashesLead'
  BY <1>2, <1>3, <1>4
<1>5. CASE RegisterTails
  <2>1. \A h \in DOMAIN hashMap' : hashMap'[h] = NoOffset
    <3>1. CASE job.classic
      <4>1. hashMap' = <<>>
        BY <1>5, <3>1, Zenon DEF RegisterTails
      <4>2. QED
        BY <4>1
    <3>2. CASE ~job.classic
      <4>1. hashMap' = [h \in TailHashes \ {<<>>} |-> NoOffset]
        BY <1>5, <3>2, Zenon DEF RegisterTails
      <4>2. QED
        BY <4>1
    <3>3. QED
      BY <3>1, <3>2
  <2>2. QED
    BY <1>2, <2>1
<1>6. CASE OpenBody
  <2> DEFINE own == Hash(p, e, 1)
             at == IF job.classic \/ own # <<>> THEN PaddedAddr(addr) ELSE addr
  <2>1. CASE hashMap' = hashMap
    BY <1>4, <2>1
  <2>2. CASE hashMap' # hashMap
    <3>1. own # <<>> /\ hashMap' = [hashMap EXCEPT ![own] = at]
      <4>1. CASE ~job.classic /\ own # <<>>
        BY <1>6, <4>1, Zenon DEF OpenBody
      <4>2. CASE ~(~job.classic /\ own # <<>>)
        BY <1>6, <2>2, <4>2, Zenon DEF OpenBody
      <4>3. QED
        BY <4>1, <4>2
    <3>2. 1 \in DOMAIN Body(p, e)
      BY <3>1 DEF Hash, CondactsHash
    <3>3. <<p, e>> \in EntryIds /\ Stands(Promised', at, Code(<<p, e>>)[1])
      BY <1>1, <1>6, BodyStands
    <3>4. Leads(own, at)
      <4> HIDE DEF at
      <4>1. <<p, e>>[1] = p /\ <<p, e>>[2] = e
        OBVIOUS
      <4>2. QED
        BY <3>2, <3>3, <4>1 DEF Leads
    <3> HIDE DEF own, at
    <3>5. \A h \in DOMAIN hashMap' :
           /\ h \in DOMAIN hashMap
           /\ \/ h = own /\ hashMap'[h] = at
              \/ hashMap'[h] = hashMap[h]
      BY <3>1
    <3>6. \A h \in DOMAIN hashMap' : hashMap'[h] # NoOffset => Leads(h, hashMap'[h])
      <4> SUFFICES ASSUME NEW h \in DOMAIN hashMap', hashMap'[h] # NoOffset
                   PROVE  Leads(h, hashMap'[h])
        OBVIOUS
      <4>1. CASE h = own /\ hashMap'[h] = at
        BY <3>4, <3>5, <4>1
      <4>2. CASE hashMap'[h] = hashMap[h]
        <5>1. h \in DOMAIN hashMap /\ hashMap[h] # NoOffset
          BY <3>5, <4>2
        <5>2. Leads(h, hashMap[h])
          BY <1>3, <5>1, Zenon
        <5>3. QED
          BY <4>2, <5>2
      <4>3. QED
        BY <3>4, <3>5, <4>1, <4>2
    <3>7. QED
      BY <1>2, <3>6
  <2>3. QED
    BY <2>1, <2>2
<1>7. CASE EmitCondact
  <2> DEFINE own == Hash(p, e, c)
  <2>1. hashMap' = hashMap \/ hashMap' = [hashMap EXCEPT ![own] = addr]
    BY <1>7, Zenon DEF EmitCondact, TailOffsets
  <2>2. Leads(own, addr)
    <3>1. /\ <<p, e>> \in EntryIds /\ c \in DOMAIN Body(p, e)
          /\ Stands(Promised, addr, Code(<<p, e>>)[c])
      BY <1>1, <1>7, TailStands
    <3>2. c \in 1 .. Len(Body(p, e)) + 1
      <4>1. c > 0
        BY <1>7 DEF EmitCondact, InBody
      <4>2. QED
        BY <1>1, <4>1, RestTyped
    <3>3. <<p, e>>[1] = p /\ <<p, e>>[2] = e
      OBVIOUS
    <3>4. Stands(Promised', addr, Code(<<p, e>>)[c])
      <4> DEFINE x == <<p, e>>
      <4>1. x \in EntryIds /\ c \in 1 .. Len(Body(x[1], x[2])) + 1
            /\ Stands(Promised, addr, Code(x)[c])
        BY <3>1, <3>2, <3>3
      <4> HIDE DEF x
      <4>2. Stands(Promised', addr, Code(x)[c])
        BY <1>1, <4>1, PromiseKept
      <4>3. QED
        BY <4>2 DEF x
    <3>5. QED
      BY <3>1, <3>3, <3>4 DEF Leads
  <2> HIDE DEF own
  <2>3. \A h \in DOMAIN hashMap' :
           /\ h \in DOMAIN hashMap
           /\ \/ h = own /\ hashMap'[h] = addr
              \/ hashMap'[h] = hashMap[h]
    BY <2>1
  <2>4. \A h \in DOMAIN hashMap' : hashMap'[h] # NoOffset => Leads(h, hashMap'[h])
    <3> SUFFICES ASSUME NEW h \in DOMAIN hashMap', hashMap'[h] # NoOffset
                 PROVE  Leads(h, hashMap'[h])
      OBVIOUS
    <3>1. CASE h = own /\ hashMap'[h] = addr
      BY <2>2, <2>3, <3>1
    <3>2. CASE hashMap'[h] = hashMap[h]
      <4>1. h \in DOMAIN hashMap /\ hashMap[h] # NoOffset
        BY <2>3, <3>2
      <4>2. Leads(h, hashMap[h])
        BY <1>3, <4>1, Zenon
      <4>3. QED
        BY <3>2, <4>2
    <3>3. QED
      BY <2>2, <2>3, <3>1, <3>2
  <2>5. QED
    BY <1>2, <2>4
<1>8. CASE ShareBody \/ SkipCondact \/ CloseBody \/ NextProcess \/ StartRows
  BY <1>4, <1>8 DEF ShareBody, SkipCondact, CloseBody, NextProcess, StartRows
<1>9. CASE WriteRow \/ EndRows \/ StartVector \/ WriteVector \/ Finish
  BY <1>4, <1>9 DEF WriteRow, EndRows, StartVector, WriteVector, Finish
<1>10. CASE Done \/ UNCHANGED vars
  BY <1>4, <1>10 DEF Done, vars
<1>11. QED
  BY <1>5, <1>6, <1>7, <1>8, <1>9, <1>10 DEF Next

(* An entry that shares a tail's address shares the tail's bytes: they are *)
(* its own, because its condacts print the same numbers.                   *)
LEMMA SharedStands ==
  ASSUME IndInv, CodeInv, HashesTell, ShareBody
  PROVE  /\ <<p, e>> \in EntryIds
         /\ Stands(Promised, hashMap[Hash(p, e, 1)], Code(<<p, e>>)[1])
<1> DEFINE own == Hash(p, e, 1)
           x == <<p, e>>
           b == Body(p, e)
<1>1. /\ AtEntry /\ ~job.classic /\ own # <<>> /\ hashMap[own] # NoOffset
  BY Zenon DEF ShareBody
<1>2. /\ IsJob(job) /\ InEntry /\ p \in Nat \ {0} /\ e \in Nat \ {0} /\ HashesLead
  BY <1>1 DEF AtEntry, IndInv, TypeOK, CodeInv
<1>3. x \in EntryIds /\ b \in Seq(CONDACT) /\ x[1] = p /\ x[2] = e
  BY <1>2, CurrentEntry
<1>4. own \in DOMAIN hashMap
  BY <1>1, HashRegistered
<1>5. PICK y, i : /\ y \in EntryIds /\ i \in DOMAIN Body(y[1], y[2])
                  /\ Hash(y[1], y[2], i) = own
                  /\ Stands(Promised, hashMap[own], Code(y)[i])
  BY <1>1, <1>2, <1>4, Zenon DEF HashesLead
<1> DEFINE d == Body(y[1], y[2])
<1>6. d \in Seq(CONDACT) /\ DOMAIN d = 1..Len(d) /\ Len(d) \in Nat
  BY <1>2, <1>5, BodyAndCode
<1>7. TailHash(d, job.debug)[i] = TailHash(b, job.debug)[1]
  <2>1. 1 \in DOMAIN b
    BY <1>1 DEF Hash, CondactsHash
  <2>2. own = TailHash(b, job.debug)[1]
    BY <2>1, Zenon DEF Hash, CondactsHash
  <2>3. Hash(y[1], y[2], i) = TailHash(d, job.debug)[i]
    BY <1>5, Zenon DEF Hash, CondactsHash
  <2>4. QED
    BY <1>5, <2>2, <2>3
<1>8. HashTells(d, b, job.debug)
  <2>1. HashTells(Body(y[1], y[2]), Body(x[1], x[2]), job.debug)
    BY <1>3, <1>5, Zenon DEF HashesTell
  <2>2. QED
    BY <1>3, <2>1
<1>9. i \in 1 .. Len(d) + 1 /\ 1 \in 1 .. Len(b) + 1
  <2> HIDE DEF b, d
  <2>1. i \in 1..Len(d)
    BY <1>5, <1>6 DEF d
  <2>2. Len(b) \in Nat
    BY <1>3, LenProperties
  <2>3. QED
    BY <1>6, <2>1, <2>2
<1>10. Code(y)[i] = Code(x)[1]
  <2> HIDE DEF b, d
  <2>1. TailBytes(d, job.debug, job.classic)[i] = TailBytes(b, job.debug, job.classic)[1]
    BY <1>3, <1>6, <1>7, <1>8, <1>9, SameHashSameBytes
  <2>2. QED
    BY <1>3, <2>1, Zenon DEF Code, b, d
<1>11. QED
  BY <1>3, <1>5, <1>10, Zenon

(* Every offset of an entry leads to the entry's code.                     *)
LEMMA OffsetsLeadStep ==
  ASSUME IndInv, CodeInv, HashesTell, [Next]_vars
  PROVE  OffsetsLead'
<1> DEFINE x0 == <<p, e>>
           Sound(x) == /\ Stands(Promised', condOffsets'[x], Code(x)[1])
                       /\ (Placed(x))' => Stands(out', condOffsets'[x], Code(x)[1])
<1>1. /\ IsJob(job) /\ job' = job /\ CursorInBody /\ OffsetsLead
      /\ p \in Nat \ {0} /\ e \in Nat \ {0} /\ c \in Nat
      /\ DOMAIN condOffsets \subseteq EntryIds
  BY JobKept DEF IndInv, TypeOK, CodeInv, OffsetsFollowDump
<1>2. c' = 0 => Promised' = out'
  BY <1>1, PromiseGrows
<1>3. ASSUME \A x \in DOMAIN condOffsets' : Sound(x)
      PROVE  OffsetsLead'
  <2> SUFFICES ASSUME NEW x \in DOMAIN condOffsets'
               PROVE  /\ Stands(Promised, condOffsets[x], Code(x)[1])'
                      /\ (Placed(x))' => Stands(out, condOffsets[x], Code(x)[1])'
    BY DEF OffsetsLead
  <2>1. Code(x)' = Code(x)
    BY <1>1, CodeKept
  <2>2. /\ Stands(Promised, condOffsets[x], Code(x)[1])' <=>
              Stands(Promised', condOffsets'[x], Code(x)[1])
        /\ Stands(out, condOffsets[x], Code(x)[1])' <=>
              Stands(out', condOffsets'[x], Code(x)[1])
    BY <1>1, <2>1 DEF Stands
  <2>3. Sound(x)
    BY <1>3
  <2>4. QED
    BY <2>2, <2>3
<1>4. ASSUME NEW x \in DOMAIN condOffsets
      PROVE  /\ Stands(Promised', condOffsets[x], Code(x)[1])
             /\ Placed(x) => Stands(out', condOffsets[x], Code(x)[1])
  <2>1. 1 \in 1 .. Len(Body(x[1], x[2])) + 1 /\ x \in EntryIds
    <3>1. Len(Body(x[1], x[2])) \in Nat
      BY <1>1, BodyAndCode
    <3>2. QED
      BY <1>1, <3>1
  <2>2. /\ Stands(Promised, condOffsets[x], Code(x)[1])
        /\ Placed(x) => Stands(out, condOffsets[x], Code(x)[1])
    BY <1>1, Zenon DEF OffsetsLead
  <2>3. QED
    BY <1>1, <2>1, <2>2, PromiseKept
<1>5. ASSUME NEW x \in DOMAIN condOffsets, condOffsets'[x] = condOffsets[x],
             c' = 0 \/ ((Placed(x))' => Placed(x))
      PROVE  Sound(x)
  <2>1. CASE c' = 0
    BY <1>2, <1>4, <1>5, <2>1
  <2>2. CASE (Placed(x))' => Placed(x)
    BY <1>4, <1>5, <2>2
  <2>3. QED
    BY <1>5, <2>1, <2>2
<1>6. ASSUME UNCHANGED condOffsets, c' = 0 \/ (c > 0 /\ p' = p /\ e' = e)
      PROVE  OffsetsLead'
  <2> SUFFICES ASSUME NEW x \in DOMAIN condOffsets' PROVE Sound(x)
    BY <1>3
  <2>1. x \in DOMAIN condOffsets /\ condOffsets'[x] = condOffsets[x]
    BY <1>6
  <2>2. c' = 0 \/ ((Placed(x))' => Placed(x))
    <3>1. CASE c' = 0
      BY <3>1
    <3>2. CASE c' # 0 /\ c > 0 /\ p' = p /\ e' = e
      <4>1. c' > 0
        <5>1. c' \in Nat
          BY ControlStep DEF IndInv, Control
        <5>2. QED
          BY <3>2, <5>1
      <4>2. QED
        BY <2>1, <3>2, <4>1 DEF Placed
    <3>3. QED
      BY <1>6, <3>1, <3>2
  <2> HIDE DEF Sound
  <2>3. QED
    BY <1>5, <2>1, <2>2
<1> HIDE DEF Sound
<1>7. CASE ShareBody
  <2> DEFINE at == hashMap[Hash(p, e, 1)]
  <2>1. condOffsets' = MapPut(condOffsets, x0, at) /\ c' = c /\ c = 0
    BY <1>7, Zenon DEF ShareBody, AtEntry
  <2>2. x0 \in EntryIds /\ Stands(Promised, at, Code(x0)[1])
    BY <1>7, SharedStands
  <2>3. Stands(Promised', at, Code(x0)[1]) /\ Promised' = out'
    <3>1. Len(Body(x0[1], x0[2])) \in Nat
      BY <1>1, <2>2, BodyAndCode
    <3>2. 1 \in 1 .. Len(Body(x0[1], x0[2])) + 1
      BY <3>1
    <3> HIDE DEF at, x0
    <3>3. QED
      BY <1>1, <1>2, <2>1, <2>2, <3>2, PromiseKept
  <2> HIDE DEF at, x0
  <2>4. \A x \in DOMAIN condOffsets' :
          \/ x = x0 /\ condOffsets'[x] = at
          \/ x \in DOMAIN condOffsets /\ condOffsets'[x] = condOffsets[x]
    BY <2>1 DEF MapPut
  <2>5. \A x \in DOMAIN condOffsets' : Sound(x)
    <3> SUFFICES ASSUME NEW x \in DOMAIN condOffsets' PROVE Sound(x)
      OBVIOUS
    <3>1. CASE x = x0 /\ condOffsets'[x] = at
      BY <2>3, <3>1 DEF Sound
    <3>2. CASE x \in DOMAIN condOffsets /\ condOffsets'[x] = condOffsets[x]
      BY <1>5, <2>1, <3>2
    <3>3. QED
      BY <2>4, <3>1, <3>2
  <2>6. QED
    BY <1>3, <2>5
<1>8. CASE OpenBody
  <2> DEFINE hashes == job.classic \/ Hash(p, e, 1) # <<>>
             at == IF hashes THEN PaddedAddr(addr) ELSE addr
  <2>1. /\ condOffsets' = MapPut(condOffsets, x0, at)
        /\ c = 0 /\ c' = 1 /\ p' = p /\ e' = e
    BY <1>8, Zenon DEF OpenBody, AtEntry
  <2>2. x0 \in EntryIds /\ Stands(Promised', at, Code(x0)[1])
    BY <1>1, <1>8, BodyStands
  <2>3. \A x : x = x0 => ~(Placed(x))'
    BY <2>1 DEF Placed
  <2> HIDE DEF at
  <2>4. \A x \in DOMAIN condOffsets' :
          \/ x = x0 /\ condOffsets'[x] = at
          \/ x \in DOMAIN condOffsets /\ condOffsets'[x] = condOffsets[x]
    <3> HIDE DEF x0
    <3>1. QED
      BY <2>1 DEF MapPut
  <2>5. \A x \in DOMAIN condOffsets : Placed(x)
    BY <2>1 DEF Placed
  <2>6. \A x \in DOMAIN condOffsets' : Sound(x)
    <3> SUFFICES ASSUME NEW x \in DOMAIN condOffsets' PROVE Sound(x)
      OBVIOUS
    <3>1. CASE x = x0 /\ condOffsets'[x] = at
      BY <2>2, <2>3, <3>1 DEF Sound
    <3>2. CASE x \in DOMAIN condOffsets /\ condOffsets'[x] = condOffsets[x]
      BY <1>5, <2>5, <3>2
    <3>3. QED
      BY <2>4, <3>1, <3>2
  <2>7. QED
    BY <1>3, <2>6
<1>9. CASE SkipCondact \/ EmitCondact \/ CloseBody
  <2>1. /\ UNCHANGED condOffsets
        /\ c' = 0 \/ (c > 0 /\ p' = p /\ e' = e)
    BY <1>9, Zenon DEF SkipCondact, EmitCondact, CloseBody, InBody
  <2>2. QED
    BY <1>6, <2>1
<1>10. CASE UNCHANGED vars
  <2>1. /\ UNCHANGED condOffsets /\ p' = p /\ e' = e /\ c' = c
    BY <1>10 DEF vars
  <2>2. QED
    BY <1>1, <1>6, <2>1
<1>11. ASSUME UNCHANGED <<condOffsets, c>>, phase # "dump" \/ ~InEntry
       PROVE  OffsetsLead'
  <2>1. c = 0
    BY <1>1, <1>11 DEF IndInv, OffsetsFollowDump
  <2>2. QED
    BY <1>6, <1>11, <2>1
<1>12. CASE NextProcess
  <2>1. ~(e <= Len(job.procs[p]))
    <3>1. Len(job.procs) \in Nat /\ \A q \in 1..Len(job.procs) : Len(job.procs[q]) \in Nat
      BY <1>1, ProcsAreSequences
    <3>2. QED
      BY <1>1, <1>12, <3>1 DEF NextProcess
  <2>2. QED
    BY <1>11, <1>12, <2>1 DEF NextProcess, InEntry
<1>13. CASE StartRows
  <2>1. ~(p <= Len(job.procs))
    <3>1. Len(job.procs) \in Nat
      BY <1>1, ProcsAreSequences
    <3>2. QED
      BY <1>1, <1>13, <3>1 DEF StartRows
  <2>2. QED
    BY <1>11, <1>13, <2>1 DEF StartRows, InEntry
<1>14. CASE RegisterTails \/ WriteRow \/ EndRows \/ StartVector \/ WriteVector
            \/ Finish
  BY <1>11, <1>14 DEF RegisterTails, WriteRow, EndRows, StartVector, WriteVector,
                      Finish
<1>15. CASE Done
  BY <1>10, <1>15 DEF Done
<1>16. QED
  BY <1>7, <1>8, <1>9, <1>10, <1>12, <1>13, <1>14, <1>15 DEF Next

(* Nothing is dumped at the start.                                         *)
LEMMA CodeInvInit == Init => CodeInv
<1> SUFFICES ASSUME Init PROVE CodeInv
  OBVIOUS
<1>1. DOMAIN hashMap = {} /\ DOMAIN condOffsets = {} /\ c = 0
  <2>1. DOMAIN <<>> = {}
    OBVIOUS
  <2>2. QED
    BY <2>1 DEF Init
<1>2. QED
  BY <1>1 DEF CodeInv, CursorInBody, HashesLead, OffsetsLead

(* No hash of a job can be read in two ways where opcodes tell how many    *)
(* parameters follow: so what holds while HashesTell holds of every job    *)
(* without #db bytes, on DAAD v2 without an XMES beside an EXTERN.         *)
THEOREM AritiesTell == Spec => [](AritiesFixed => HashesTell)
<1>1. IndInv /\ AritiesFixed => HashesTell
  <2> SUFFICES ASSUME IndInv, AritiesFixed, NEW x \in EntryIds, NEW y \in EntryIds
               PROVE  HashTells(Body(x[1], x[2]), Body(y[1], y[2]), job.debug)
    BY DEF HashesTell
  <2>1. /\ Body(x[1], x[2]) \in Seq(CONDACT) /\ Body(y[1], y[2]) \in Seq(CONDACT)
    BY BodyAndCode DEF IndInv, TypeOK
  <2>2. Determined(Body(x[1], x[2]), Body(y[1], y[2]), job.debug)
    BY DEF AritiesFixed
  <2>3. QED
    BY <2>1, <2>2, DeterminedTells
<1>2. QED
  BY Invariance, <1>1, PTL

(* Every step keeps what is known of the dumped bytes.                     *)
LEMMA CodeInvStep == IndInv /\ CodeInv /\ HashesTell /\ [Next]_vars => CodeInv'
<1> SUFFICES ASSUME IndInv, CodeInv, HashesTell, [Next]_vars PROVE CodeInv'
  OBVIOUS
<1>1. CursorInBody'
  BY PromiseGrows DEF CodeInv
<1>2. QED
  BY <1>1, HashesLeadStep, OffsetsLeadStep DEF CodeInv

(* The bytes behind each offset are known in every reachable state.        *)
LEMMA CodeInvariance == HashesTell /\ Spec => [](IndInv /\ CodeInv /\ HashesTell)
<1>1. HashesTell /\ [Next]_vars => HashesTell'
  BY JobKept, CodeKept
<1>2. QED
  BY IndInvInit, IndInvStep, CodeInvInit, CodeInvStep, <1>1, PTL DEF Spec

(* What stands at the offset of an entry is what is read there.            *)
LEMMA CodeIsRead == IndInv /\ CodeInv => EntriesReadBack
<1> SUFFICES ASSUME IndInv, CodeInv, NEW x \in DOMAIN condOffsets, Placed(x)
             PROVE  ReadAt(condOffsets[x], Len(Meaning(x))) = Meaning(x)
  BY DEF EntriesReadBack
<1>1. IsJob(job) /\ out \in Seq(Bytes) /\ x \in EntryIds
  BY DEF IndInv, TypeOK, OffsetsFollowDump
<1>2. Code(x)[1] \in Seq(Bytes) /\ Meaning(x) = Code(x)[1]
  BY <1>1, BodyAndCode
<1>3. Stands(out, condOffsets[x], Code(x)[1])
  BY Zenon DEF CodeInv, OffsetsLead
<1>4. QED
  BY <1>1, <1>2, <1>3, StandsIsRead

(* An interpreter that follows an entry's offset reads the entry's own     *)
(* condacts up to its terminator or end mark, however much of them was     *)
(* written for another entry, as soon as the dump is past the entry and    *)
(* for ever after.  Only jobs where a hash could be read in two ways are   *)
(* left out, which finding 1 (README) is about.                            *)
THEOREM EntriesFound == HashesTell /\ Spec => []EntriesReadBack
<1>1. IndInv /\ CodeInv /\ HashesTell => EntriesReadBack
  BY CodeIsRead
<1>2. QED
  BY CodeInvariance, <1>1, PTL

-----------------------------------------------------------------------------
(* The dump implements Placement, fairness apart.                          *)

(* The table of Placement in terms of what has been placed alone.          *)
Meanings == [x \in EntryIds |-> Meaning(x)]
Table == [x \in EntryIds |-> IF Placed(x) THEN Meaning(x) ELSE <<>>]
TableFound == [x \in EntryIds |->
                 IF Placed(x) THEN ReadAt(condOffsets[x], Len(Meaning(x)))
                 ELSE <<>>]

(* The refinement mapping and that table say the same.                     *)
LEMMA TableIsFound == IndInv /\ CodeInv => TableFound = Table
<1>1. EntriesReadBack => TableFound = Table
  BY Zenon DEF Table, TableFound, EntriesReadBack, Placed
<1>2. QED
  BY <1>1, CodeIsRead

(* The meaning of an entry depends on the job alone.                       *)
LEMMA MeaningKept ==
  ASSUME job' = job
  PROVE  \A x : Meaning(x)' = Meaning(x)
BY DEF Meaning, Body, Entry

(* When one more entry is placed, it is an entry placed in Placement.      *)
LEMMA OneMorePlaced ==
  ASSUME job' = job, NEW y \in EntryIds, ~Placed(y),
         \A x \in EntryIds : (Placed(x))' <=> Placed(x) \/ x = y
  PROVE  /\ Table[y] = <<>>
         /\ Table' = [Table EXCEPT ![y] = Meanings[y]]
<1>1. EntryIds' = EntryIds /\ \A x : Meaning(x)' = Meaning(x)
  BY EntryIdsKept, MeaningKept
<1>2. Table[y] = <<>> /\ Meanings[y] = Meaning(y)
  BY DEF Table, Meanings
<1>3. Table' = [x \in EntryIds |-> IF (Placed(x))' THEN Meaning(x) ELSE <<>>]
  BY <1>1, Zenon DEF Table
<1>4. [Table EXCEPT ![y] = Meanings[y]]
        = [x \in EntryIds |-> IF x = y THEN Meaning(y) ELSE Table[x]]
  BY <1>2 DEF Table
<1>5. \A x \in EntryIds : (IF (Placed(x))' THEN Meaning(x) ELSE <<>>)
                            = (IF x = y THEN Meaning(y) ELSE Table[x])
  BY Zenon DEF Table
<1>6. QED
  BY <1>2, <1>3, <1>4, <1>5, Zenon

(* An entry shared, or finished, is placed; every other step is a stutter. *)
LEMMA StepPlaces ==
  ASSUME IndInv, CodeInv, [Next]_vars
  PROVE  /\ UNCHANGED Meanings
         /\ \/ UNCHANGED Table
            \/ \E y \in EntryIds :
                 /\ Table[y] = <<>>
                 /\ Table' = [Table EXCEPT ![y] = Meanings[y]]
<1> DEFINE x0 == <<p, e>>
           Result == \/ UNCHANGED Table
                     \/ \E y \in EntryIds :
                          /\ Table[y] = <<>>
                          /\ Table' = [Table EXCEPT ![y] = Meanings[y]]
<1>1. /\ IsJob(job) /\ job' = job /\ p \in Nat \ {0} /\ e \in Nat \ {0} /\ c \in Nat
      /\ EntryIds' = EntryIds /\ \A x : Meaning(x)' = Meaning(x)
      /\ DOMAIN condOffsets \subseteq EntryIds
  BY JobKept, EntryIdsKept, MeaningKept DEF IndInv, TypeOK, OffsetsFollowDump
<1>2. UNCHANGED Meanings
  BY <1>1, Zenon DEF Meanings
<1> SUFFICES Result
  BY <1>2
<1>3. ASSUME \A x \in EntryIds : (Placed(x))' <=> Placed(x) PROVE Result
  <2>1. UNCHANGED Table
    BY <1>1, <1>3, Zenon DEF Table
  <2>2. QED
    BY <2>1
<1>4. ASSUME x0 \in EntryIds, ~Placed(x0),
             \A x \in EntryIds : (Placed(x))' <=> Placed(x) \/ x = x0
      PROVE  Result
  <2> HIDE DEF x0
  <2>1. Table[x0] = <<>> /\ Table' = [Table EXCEPT ![x0] = Meanings[x0]]
    BY <1>1, <1>4, OneMorePlaced
  <2>2. QED
    BY <1>4, <2>1
<1> HIDE DEF Result
<1>5. AtEntry => x0 \in EntryIds /\ x0 \notin DOMAIN condOffsets
  <2> SUFFICES ASSUME AtEntry PROVE x0 \in EntryIds /\ x0 \notin DOMAIN condOffsets
    OBVIOUS
  <2>1. c = 0 /\ phase = "dump" /\ InEntry
    BY DEF AtEntry
  <2>2. x0 \in EntryIds
    BY <1>1, <2>1, CurrentEntry
  <2>3. ~Reached(x0)
    BY <1>1, <2>1 DEF Reached
  <2>4. QED
    BY <2>1, <2>2, <2>3 DEF IndInv, OffsetsFollowDump
<1>6. CASE ShareBody
  <2>1. /\ AtEntry /\ c = 0 /\ c' = 0
        /\ \E at : condOffsets' = MapPut(condOffsets, x0, at)
    BY <1>6, Zenon DEF ShareBody, AtEntry
  <2>2. DOMAIN condOffsets' = DOMAIN condOffsets \cup {x0}
    BY <2>1 DEF MapPut
  <2>3. /\ \A x \in EntryIds : (Placed(x))' <=> Placed(x) \/ x = x0
        /\ ~Placed(x0)
    BY <1>5, <2>1, <2>2 DEF Placed
  <2>4. QED
    BY <1>4, <1>5, <2>1, <2>3
<1>7. CASE OpenBody
  <2>1. /\ AtEntry /\ c = 0 /\ c' = 1 /\ p' = p /\ e' = e
        /\ \E at : condOffsets' = MapPut(condOffsets, x0, at)
    BY <1>7, Zenon DEF OpenBody, AtEntry
  <2>2. DOMAIN condOffsets' = DOMAIN condOffsets \cup {x0}
    BY <2>1 DEF MapPut
  <2>3. \A x \in EntryIds : (Placed(x))' <=> Placed(x)
    BY <1>5, <2>1, <2>2 DEF Placed
  <2>4. QED
    BY <1>3, <2>3
<1>8. ASSUME UNCHANGED condOffsets, c > 0, InEntry, c' = 0
      PROVE  Result
  <2>1. x0 \in EntryIds
    BY <1>1, <1>8, CurrentEntry
  <2>2. x0 \in DOMAIN condOffsets
    <3>1. phase = "dump" /\ Reached(x0)
      BY <1>1, <1>8 DEF Reached, IndInv, OffsetsFollowDump
    <3>2. QED
      BY <2>1, <3>1 DEF IndInv, OffsetsFollowDump
  <2>3. /\ \A x \in EntryIds : (Placed(x))' <=> Placed(x) \/ x = x0
        /\ ~Placed(x0)
    BY <1>8, <2>2 DEF Placed
  <2>4. QED
    BY <1>4, <2>1, <2>3
<1>9. ASSUME UNCHANGED <<condOffsets, p, e>>, c > 0, c' > 0 PROVE Result
  <2>1. \A x \in EntryIds : (Placed(x))' <=> Placed(x)
    BY <1>9 DEF Placed
  <2>2. QED
    BY <1>3, <2>1
<1>10. CASE SkipCondact \/ EmitCondact \/ CloseBody
  <2>1. /\ UNCHANGED condOffsets /\ c > 0 /\ InEntry
        /\ c' = 0 \/ (c' = c + 1 /\ p' = p /\ e' = e)
    BY <1>10, Zenon DEF SkipCondact, EmitCondact, CloseBody, InBody
  <2>2. c + 1 > 0
    BY <1>1
  <2>3. QED
    BY <1>8, <1>9, <2>1, <2>2
<1>11. ASSUME UNCHANGED <<condOffsets, c>>, c = 0 PROVE Result
  <2>1. \A x \in EntryIds : (Placed(x))' <=> Placed(x)
    BY <1>11 DEF Placed
  <2>2. QED
    BY <1>3, <2>1
<1>12. CASE UNCHANGED vars
  <2>1. \A x \in EntryIds : (Placed(x))' <=> Placed(x)
    BY <1>12 DEF Placed, vars
  <2>2. QED
    BY <1>3, <2>1
<1>13. ASSUME UNCHANGED <<condOffsets, c>>, phase # "dump" \/ ~InEntry PROVE Result
  <2>1. c = 0
    BY <1>1, <1>13 DEF IndInv, OffsetsFollowDump
  <2>2. QED
    BY <1>11, <1>13, <2>1
<1>14. /\ Len(job.procs) \in Nat
       /\ \A q \in 1..Len(job.procs) : Len(job.procs[q]) \in Nat
  BY <1>1, ProcsAreSequences
<1>15. CASE NextProcess \/ StartRows
  <2>1. ~InEntry
    BY <1>1, <1>14, <1>15 DEF InEntry, NextProcess, StartRows
  <2>2. QED
    BY <1>13, <1>15, <2>1 DEF NextProcess, StartRows
<1>16. CASE RegisterTails \/ WriteRow \/ EndRows \/ StartVector \/ WriteVector
            \/ Finish
  BY <1>13, <1>16 DEF RegisterTails, WriteRow, EndRows, StartVector, WriteVector,
                      Finish
<1>17. QED
  BY <1>6, <1>7, <1>10, <1>12, <1>15, <1>16 DEF Next, Done

(* Every step of the dump is, for its entries, a step of Placement or      *)
(* none: entries become readable one by one, each as it was meant, and     *)
(* stay readable while the tables are written behind them.                 *)
THEOREM EntriesArePlaced == HashesTell /\ Spec => PlacesEntries
<1>1. Init => EntryTable!Init
  <2> SUFFICES ASSUME Init PROVE EntryTable!Init
    OBVIOUS
  <2>1. DOMAIN condOffsets = {}
    <3>1. DOMAIN <<>> = {}
      OBVIOUS
    <3>2. QED
      BY <3>1 DEF Init
  <2>2. QED
    BY <2>1 DEF EntryTable!Init, Placed
<1>2. ASSUME IndInv, CodeInv, IndInv', CodeInv', [Next]_vars
      PROVE  [EntryTable!Next]_EntryTable!vars
  <2>1. TableFound = Table
    BY <1>2, TableIsFound
  <2>2. TableFound' = Table'
    <3>1. (IndInv /\ CodeInv => TableFound = Table)'
      BY TableIsFound, PTL
    <3>2. QED
      BY <1>2, <3>1
  <2>3. /\ UNCHANGED Meanings
        /\ \/ UNCHANGED Table
           \/ \E y \in EntryIds :
                /\ Table[y] = <<>>
                /\ Table' = [Table EXCEPT ![y] = Meanings[y]]
    BY <1>2, StepPlaces
  <2>4. DOMAIN Meanings = EntryIds
    BY DEF Meanings
  <2>5. /\ UNCHANGED Meanings
        /\ \/ UNCHANGED TableFound
           \/ \E y \in DOMAIN Meanings :
                /\ TableFound[y] = <<>>
                /\ TableFound' = [TableFound EXCEPT ![y] = Meanings[y]]
    BY <2>1, <2>2, <2>3, <2>4, Zenon
  <2>6. QED
    BY <2>5, Zenon DEF EntryTable!Next, EntryTable!Place, EntryTable!vars, Meanings,
                       TableFound
<1>3. QED
  BY <1>1, <1>2, CodeInvariance, PTL DEF Spec, PlacesEntries

-----------------------------------------------------------------------------
(* The tables.                                                             *)

(* A row is four bytes.                                                    *)
LEMMA RowIsFourBytes ==
  ASSUME IndInv, NEW x \in EntryIds, condOffsets[x] \in Nat
  PROVE  /\ RowBytes(x) \in Seq(Bytes) /\ Len(RowBytes(x)) = 4
         /\ RowBytes(x)[1] = Entry(x[1], x[2]).Verb
         /\ RowBytes(x)[2] = Entry(x[1], x[2]).Noun
         /\ RowBytes(x)[3] = U16(condOffsets[x])[1]
         /\ RowBytes(x)[4] = U16(condOffsets[x])[2]
<1> DEFINE ROW == [Verb : 0..255, Noun : 0..255, condacts : Seq(CONDACT)]
           v == Entry(x[1], x[2]).Verb
           n == Entry(x[1], x[2]).Noun
           head == <<v % 256, n % 256>>
           off == U16(condOffsets[x])
<1>1. PICK q, f : q \in 1..Len(job.procs) /\ f \in 1..Len(job.procs[q]) /\ x = <<q, f>>
  BY EntryIdsProperty
<1>2. Entry(q, f) \in ROW
  <2>1. job.procs \in Seq(Seq(ROW))
    BY DEF IndInv, TypeOK, IsJob
  <2> HIDE DEF ROW
  <2>2. job.procs[q] \in Seq(ROW)
    BY <1>1, <2>1, ElementOfSeq
  <2>3. QED
    BY <1>1, <2>2, ElementOfSeq DEF Entry
<1>3. v \in 0..255 /\ n \in 0..255
  <2>1. x[1] = q /\ x[2] = f
    BY <1>1
  <2>2. QED
    BY <1>2, <2>1, Zenon
<1> HIDE DEF v, n
<1>4. head \in Seq(Bytes) /\ Len(head) = 2 /\ head[1] = v /\ head[2] = n
  <2>1. v % 256 = v /\ n % 256 = n
    BY <1>3
  <2>2. QED
    BY <1>3, <2>1 DEF Bytes
<1>5. off \in Seq(Bytes) /\ Len(off) = 2
  BY U16IsTwoBytes
<1>6. RowBytes(x) = head \o off
  BY Zenon DEF RowBytes, v, n
<1> HIDE DEF head, off
<1>7. /\ head \o off \in Seq(Bytes)
      /\ Len(head) \in Nat /\ Len(off) \in Nat
      /\ Len(head \o off) = Len(head) + Len(off)
      /\ \A k \in 1..Len(head) : (head \o off)[k] = head[k]
      /\ \A k \in 1..Len(off) : (head \o off)[Len(head) + k] = off[k]
  <2>1. head \in Seq(Bytes) /\ off \in Seq(Bytes)
    BY <1>4, <1>5
  <2>2. QED
    BY <2>1, Concat
<1>8. 1 \in 1..2 /\ 2 \in 1..2 /\ 2 + 1 = 3 /\ 2 + 2 = 4
  OBVIOUS
<1>9. /\ (head \o off)[1] = v /\ (head \o off)[2] = n
      /\ (head \o off)[3] = off[1] /\ (head \o off)[4] = off[2]
      /\ Len(head \o off) = 4
  BY <1>4, <1>5, <1>7, <1>8, Zenon
<1>10. QED
  BY <1>6, <1>7, <1>9 DEF v, n, off

(* A row that was written stays written while the file grows and none of   *)
(* its offsets moves.                                                      *)
LEMMA RowStays ==
  ASSUME IndInv, job' = job, NEW x \in EntryIds, RowWritten(x),
         x \in DOMAIN condOffsets,
         NEW s \in Seq(Bytes), out' = out \o s, addr' \in Nat, addr <= addr',
         x \in DOMAIN rowAddr',
         rowAddr'[x] = rowAddr[x], procOffsets'[x[1]] = procOffsets[x[1]],
         condOffsets'[x] = condOffsets[x]
  PROVE  (RowWritten(x))'
<1> DEFINE at == procOffsets[x[1]] + 4 * (x[2] - 1)
<1>1. /\ IsJob(job) /\ out \in Seq(Bytes) /\ condOffsets[x] \in Nat /\ addr \in Nat
  BY DEF IndInv, TypeOK
<1>2. rowAddr[x] = at /\ Stands(out, at, RowBytes(x)) /\ condOffsets[x] < addr
  BY Zenon DEF RowWritten
<1>3. RowBytes(x) \in Seq(Bytes)
  BY <1>1, RowIsFourBytes
<1> HIDE DEF at
<1>4. Stands(out', at, RowBytes(x))
  BY <1>1, <1>2, <1>3, StaysStanding
<1>5. RowBytes(x)' = RowBytes(x)
  <2>1. condOffsets'[x] = condOffsets[x] /\ job' = job
    OBVIOUS
  <2>2. QED
    BY ONLY <2>1 DEF RowBytes, Entry, U16
<1>6. Stands(out, at, RowBytes(x))'
  <2>1. at' = at
    BY Zenon DEF at
  <2>2. Stands(out, at, RowBytes(x))' <=> Stands(out', at, RowBytes(x))
    BY <1>5, <2>1 DEF Stands
  <2>3. QED
    BY <1>4, <2>2
<1>7. (condOffsets[x] < addr)'
  BY <1>1, <1>2
<1>8. (rowAddr[x] = at)'
  <2>1. at' = at
    BY Zenon DEF at
  <2>2. QED
    BY <1>2, <2>1
<1>9. QED
  BY <1>6, <1>7, <1>8, Zenon DEF RowWritten, at

(* So do the ends of rows.                                                 *)
LEMMA EndStays ==
  ASSUME IndInv, job' = job, NEW q \in 1..Len(job.procs), EndWritten(q),
         NEW s \in Seq(Bytes), out' = out \o s, procOffsets'[q] = procOffsets[q]
  PROVE  (EndWritten(q))'
<1> DEFINE at == procOffsets[q] + 4 * Len(job.procs[q])
<1>1. IsJob(job) /\ out \in Seq(Bytes) /\ <<0>> \in Seq(Bytes)
  BY DEF IndInv, TypeOK, Bytes
<1>2. Stands(out, at, <<0>>)
  BY Zenon DEF EndWritten
<1> HIDE DEF at
<1>3. Stands(out', at, <<0>>)
  BY <1>1, <1>2, StaysStanding
<1>4. Stands(out, at, <<0>>)'
  <2>1. at' = at
    BY Zenon DEF at
  <2>2. QED
    BY <1>3, <2>1 DEF Stands
<1>5. QED
  BY <1>4, Zenon DEF EndWritten, at

(* The code of an entry begins before the end of the file.                 *)
LEMMA OffsetsBelow ==
  ASSUME IndInv, CodeInv, c = 0, NEW x \in DOMAIN condOffsets
  PROVE  condOffsets[x] <= addr
<1> DEFINE code == Code(x)[1]
<1>1. /\ IsJob(job) /\ x \in EntryIds /\ addr = job.base + Len(out) /\ out \in Seq(Bytes)
      /\ condOffsets[x] \in Nat
  BY DEF IndInv, TypeOK, AddrCountsBytes, OffsetsFollowDump
<1>2. Stands(out, condOffsets[x], code)
  <2>1. Placed(x)
    BY DEF Placed
  <2>2. QED
    BY <2>1, Zenon DEF CodeInv, OffsetsLead
<1>3. Len(code) \in Nat
  <2>1. code \in Seq(Bytes)
    BY <1>1, BodyAndCode
  <2>2. QED
    BY <2>1, LenProperties
<1>4. condOffsets[x] - job.base + Len(code) <= Len(out)
  BY <1>2, Zenon DEF Stands
<1>5. Len(out) \in Nat /\ job.base \in Nat
  BY <1>1, LenProperties DEF IsJob
<1>6. QED
  BY <1>1, <1>3, <1>4, <1>5

(* The row just written is one of the finished file's rows.                *)
LEMMA NewRow ==
  ASSUME IndInv, CodeInv, WriteRow, addr = procOffsets[p] + 4 * (e - 1),
         NEW x, x = <<p, e>>
  PROVE  /\ (RowWritten(x))'
         /\ \E s \in Seq(Bytes) : out' = out \o s
<1>1. /\ IsJob(job) /\ out \in Seq(Bytes) /\ addr \in Nat /\ p \in Nat \ {0}
      /\ e \in Nat \ {0} /\ addr = job.base + Len(out)
  BY DEF IndInv, TypeOK, AddrCountsBytes
<1>2. /\ InEntry /\ phase = "rows" /\ addr' = addr + 4 /\ job' = job
      /\ rowAddr' = MapPut(rowAddr, x, addr)
      /\ condOffsets' = condOffsets /\ procOffsets' = procOffsets
  BY Zenon DEF WriteRow
<1>3. /\ x \in EntryIds /\ x \in DOMAIN condOffsets /\ condOffsets[x] \in Nat /\ c = 0
  BY <1>1, <1>2, CurrentEntry DEF IndInv, OffsetsFollowDump, TypeOK
<1> DEFINE verbNoun == <<Entry(p, e).Verb % 256, Entry(p, e).Noun % 256>>
           off == U16(condOffsets[x])
<1>4. out' = (out \o verbNoun) \o off
  BY DEF WriteRow
<1>5. x[1] = p /\ x[2] = e
  OBVIOUS
<1>6. RowBytes(x) = verbNoun \o off
  BY <1>5 DEF RowBytes
<1>7. verbNoun \in Seq(Bytes)
  <2>1. Entry(p, e).Verb \in Nat /\ Entry(p, e).Noun \in Nat
    BY <1>1, <1>2, CurrentEntry
  <2>2. QED
    BY <2>1 DEF Bytes
<1>8. off \in Seq(Bytes)
  BY <1>3, U16IsTwoBytes
<1>9. RowBytes(x) \in Seq(Bytes)
  BY <1>3, RowIsFourBytes
<1> HIDE DEF verbNoun, off
<1>10. out' = out \o RowBytes(x)
  <2>1. out \in Seq(Bytes)
    BY <1>1
  <2>2. (out \o verbNoun) \o off = out \o (verbNoun \o off)
    BY <1>7, <1>8, <2>1, ConcatAssociative
  <2>3. QED
    BY <1>4, <1>6, <2>2
<1>11. Stands(out', addr, RowBytes(x))
  BY <1>1, <1>9, <1>10, AppendedStands
<1>12. condOffsets'[x] < addr'
  <2>1. condOffsets[x] <= addr
    BY <1>3, OffsetsBelow
  <2>2. QED
    BY <1>1, <1>2, <1>3, <2>1
<1>13. x \in DOMAIN rowAddr' /\ rowAddr'[x] = addr
  BY <1>2 DEF MapPut
<1>14. RowBytes(x)' = RowBytes(x)
  <2>1. condOffsets'[x] = condOffsets[x] /\ job' = job
    BY <1>2
  <2>2. QED
    BY ONLY <2>1 DEF RowBytes, Entry, U16
<1>15. procOffsets'[x[1]] + 4 * (x[2] - 1) = addr
  BY <1>2, <1>5
<1>16. (RowWritten(x))'
  <2> DEFINE at == procOffsets[x[1]] + 4 * (x[2] - 1)
  <2>1. at' = addr
    BY <1>15
  <2>2. Stands(out, at, RowBytes(x))' <=> Stands(out', at', RowBytes(x))
    BY <1>14, <1>2 DEF Stands
  <2> HIDE DEF at
  <2>3. Stands(out, at, RowBytes(x))'
    BY <1>11, <2>1, <2>2
  <2>4. QED
    BY <1>12, <1>13, <2>1, <2>3, Zenon DEF RowWritten, at
<1>17. QED
  BY <1>9, <1>10, <1>16

(* A step of the tables that writes no row leaves the rows written.        *)
LEMMA RowsStay ==
  ASSUME IndInv, job' = job, NEW s \in Seq(Bytes), out' = out \o s,
         addr' \in Nat, addr <= addr', DOMAIN condOffsets = EntryIds,
         rowAddr' = rowAddr, condOffsets' = condOffsets,
         NEW x \in EntryIds, RowWritten(x), procOffsets'[x[1]] = procOffsets[x[1]]
  PROVE  (RowWritten(x))'
<1>1. x \in DOMAIN rowAddr' /\ x \in DOMAIN condOffsets
  BY DEF RowWritten
<1>2. rowAddr'[x] = rowAddr[x] /\ condOffsets'[x] = condOffsets[x]
  OBVIOUS
<1>3. QED
  BY <1>1, <1>2, RowStays

(* A row written is followed by the next row, or by the end of the rows.   *)
LEMMA WriteRowKeeps ==
  ASSUME IndInv, CodeInv, RowsInv, WriteRow
  PROVE  RowsInv'
<1> DEFINE N == Len(job.procs)
           Rows(q) == Len(job.procs[q])
<1>1. /\ IsJob(job) /\ job' = job /\ EntryIds' = EntryIds
      /\ addr \in Nat /\ addr' \in Nat /\ p \in Nat \ {0} /\ e \in Nat \ {0}
      /\ DOMAIN condOffsets = EntryIds
  BY EntryIdsKept, BytesStep DEF IndInv, TypeOK, OffsetsFollowDump, WriteRow, Next
<1>2. N \in Nat /\ \A q \in 1..N : Rows(q) \in Nat
  BY <1>1, ProcsAreSequences
<1>3. \A x \in EntryIds : x[1] \in 1..N /\ x[2] \in 1..Rows(x[1]) /\ x = <<x[1], x[2]>>
  BY EntryIdsProperty
<1>4. /\ InEntry /\ phase = "rows" /\ phase' = phase
      /\ p' = p /\ condOffsets' = condOffsets /\ procOffsets' = procOffsets
      /\ e' = e + 1 /\ addr' = addr + 4 /\ rowAddr' = MapPut(rowAddr, <<p, e>>, addr)
  BY Zenon DEF WriteRow
<1>5. /\ p <= N /\ e <= Rows(p) /\ p \in 1..N
      /\ addr = procOffsets[p] + 4 * (e - 1)
      /\ \A x \in EntryIds : x[1] < p \/ (x[1] = p /\ x[2] < e) => RowWritten(x)
      /\ \A q \in 1..N : q < p => EndWritten(q)
      /\ procOffsets[p] \in Nat
  <2>1. p <= N /\ e <= Rows(p) /\ p \in 1..N
    BY <1>1, <1>2, <1>4 DEF InEntry
  <2>2. p \in DOMAIN procOffsets
    BY <1>4, <2>1 DEF IndInv, OffsetsFollowDump
  <2>3. procOffsets[p] \in Nat
    BY <2>2 DEF IndInv, TypeOK
  <2>4. /\ addr = procOffsets[p] + 4 * (e - 1)
        /\ \A x \in EntryIds : x[1] < p \/ (x[1] = p /\ x[2] < e) => RowWritten(x)
        /\ \A q \in 1..N : q < p => EndWritten(q)
    BY <1>4, <2>1, Zenon DEF RowsInv
  <2>5. QED
    BY <2>1, <2>3, <2>4
<1>6. PICK s \in Seq(Bytes) : out' = out \o s
  BY <1>5, NewRow
<1>7. ASSUME NEW x \in EntryIds, x[1] < p \/ (x[1] = p /\ x[2] < e)
      PROVE  (RowWritten(x))'
  <2>1. RowWritten(x) /\ x \in DOMAIN condOffsets
    BY <1>1, <1>5, <1>7
  <2>2. x # <<p, e>>
    BY <1>1, <1>7
  <2>3. x \in DOMAIN rowAddr
    BY <2>1 DEF RowWritten
  <2>4. x \in DOMAIN rowAddr' /\ rowAddr'[x] = rowAddr[x]
    BY <1>4, <2>2, <2>3 DEF MapPut
  <2>5. addr <= addr'
    BY <1>1, <1>4
  <2>6. procOffsets'[x[1]] = procOffsets[x[1]] /\ condOffsets'[x] = condOffsets[x]
    BY <1>4
  <2>7. QED
    BY <1>1, <1>6, <2>1, <2>4, <2>5, <2>6, RowStays
<1>8. ASSUME NEW x \in EntryIds, x[1] < p' \/ (x[1] = p' /\ x[2] < e')
      PROVE  (RowWritten(x))'
  <2>1. CASE x[1] = p /\ x[2] = e
    <3>1. x = <<p, e>>
      BY <1>3, <2>1
    <3>2. QED
      BY <1>5, <3>1, NewRow
  <2>2. CASE ~(x[1] = p /\ x[2] = e)
    <3>1. x[1] < p \/ (x[1] = p /\ x[2] < e)
      BY <1>1, <1>2, <1>3, <1>4, <1>8, <2>2
    <3>2. QED
      BY <1>7, <3>1
  <2>3. QED
    BY <2>1, <2>2
<1>9. ASSUME NEW q \in 1..N, q < p'
      PROVE  (EndWritten(q))'
  <2>1. EndWritten(q) /\ procOffsets'[q] = procOffsets[q]
    BY <1>4, <1>5, <1>9
  <2>2. QED
    BY <1>1, <1>6, <2>1, EndStays
<1>10. /\ p' <= N + 1 /\ e' <= Rows(p') + 1
       /\ addr' = procOffsets'[p'] + 4 * (e' - 1)
  BY <1>1, <1>2, <1>4, <1>5, SMTT(30)
<1>11. /\ Len(job'.procs) = N
       /\ Len(job'.procs[p']) = Rows(p')
  BY <1>1
<1>12. QED
  BY <1>1, <1>8, <1>9, <1>10, <1>11, Zenon DEF RowsInv

(* The first row of the first process begins where the dump has ended.      *)
LEMMA StartRowsKeeps ==
  ASSUME IndInv, StartRows
  PROVE  RowsInv'
<1> DEFINE N == Len(job.procs)
           Rows(q) == Len(job.procs[q])
<1>1. /\ IsJob(job) /\ job' = job /\ EntryIds' = EntryIds /\ addr \in Nat
      /\ p' = 1 /\ e' = 1 /\ addr' = PaddedAddr(addr)
  BY EntryIdsKept DEF IndInv, TypeOK, StartRows
<1>2. N \in Nat /\ \A q \in 1..N : Rows(q) \in Nat
  BY <1>1, ProcsAreSequences
<1>3. \A x \in EntryIds : x[1] \in 1..N /\ x[2] \in 1..Rows(x[1])
  BY EntryIdsProperty
<1>4. addr' \in Nat
  BY <1>1, PaddingCounted
<1>5. N >= 1 => procOffsets'[1] = addr'
  <2> SUFFICES ASSUME N >= 1 PROVE procOffsets'[1] = addr'
    OBVIOUS
  <2>1. job.procs # <<>>
    OBVIOUS
  <2>2. procOffsets' = MapPut(procOffsets, 1, addr')
    BY <1>1, <2>1, Zenon DEF StartRows
  <2>3. QED
    BY <2>2 DEF MapPut
<1>6. /\ p' <= N + 1
      /\ p' <= N => e' <= Rows(p') + 1 /\ addr' = procOffsets'[p'] + 4 * (e' - 1)
  BY <1>1, <1>2, <1>4, <1>5
<1>7. \A x \in EntryIds : ~(x[1] < p' \/ (x[1] = p' /\ x[2] < e'))
  BY <1>1, <1>2, <1>3
<1>8. \A q \in 1..N : ~(q < p')
  BY <1>1, <1>2
<1>9. Len(job'.procs) = N /\ Len(job'.procs[p']) = Rows(p')
  BY <1>1
<1>10. QED
  BY <1>1, <1>6, <1>7, <1>8, <1>9, Zenon DEF RowsInv

(* The zero byte ends a process's rows; the next process follows them.     *)
LEMMA EndRowsKeeps ==
  ASSUME IndInv, RowsInv, EndRows
  PROVE  RowsInv'
<1> DEFINE N == Len(job.procs)
           Rows(q) == Len(job.procs[q])
           pad == PadBytes(addr + 1)
<1>1. /\ IsJob(job) /\ job' = job /\ EntryIds' = EntryIds
      /\ addr \in Nat /\ p \in Nat \ {0} /\ e \in Nat \ {0}
      /\ phase = "rows" /\ p <= N /\ e > Rows(p)
      /\ p' = p + 1 /\ e' = 1 /\ rowAddr' = rowAddr /\ condOffsets' = condOffsets
      /\ addr' = PaddedAddr(addr + 1) /\ addr = job.base + Len(out)
      /\ out \in Seq(Bytes) /\ out' = (out \o <<0>>) \o pad
      /\ DOMAIN condOffsets = EntryIds
  BY EntryIdsKept
     DEF IndInv, TypeOK, EndRows, AddrCountsBytes, OffsetsFollowDump
<1>2. N \in Nat /\ p \in 1..N /\ \A q \in 1..N : Rows(q) \in Nat
  BY <1>1, ProcsAreSequences
<1>3. \A x \in EntryIds : x[1] \in 1..N /\ x[2] \in 1..Rows(x[1])
  BY EntryIdsProperty
<1>4. /\ e <= Rows(p) + 1 /\ addr = procOffsets[p] + 4 * (e - 1)
      /\ \A x \in EntryIds : x[1] < p \/ (x[1] = p /\ x[2] < e) => RowWritten(x)
      /\ \A q \in 1..N : q < p => EndWritten(q)
  BY <1>1, Zenon DEF RowsInv
<1>5. addr = procOffsets[p] + 4 * Rows(p)
  <2>1. Rows(p) \in Nat
    BY <1>1, <1>2
  <2>2. e \in Nat /\ e > Rows(p) /\ e <= Rows(p) + 1
    BY <1>1, <1>4, Zenon
  <2> HIDE DEF Rows
  <2>3. e - 1 = Rows(p)
    BY ONLY <2>1, <2>2
  <2>4. QED
    BY <1>4, <2>3
<1>6. addr' \in Nat /\ addr <= addr' /\ pad \in Seq(Bytes)
  <2>1. addr + 1 \in Nat
    BY <1>1
  <2>2. pad \in Seq(Bytes) /\ addr' \in Nat /\ addr' = addr + 1 + Len(pad)
    BY <1>1, <2>1, PaddingCounted
  <2>3. Len(pad) \in Nat
    BY <2>2, LenProperties
  <2>4. QED
    BY <1>1, <2>2, <2>3
<1> HIDE DEF pad
<1>7. <<0>> \in Seq(Bytes)
  BY DEF Bytes
<1>8. /\ out' = out \o (<<0>> \o pad)
      /\ <<0>> \o pad \in Seq(Bytes)
      /\ out \o <<0>> \in Seq(Bytes)
  <2>1. out \in Seq(Bytes)
    BY <1>1
  <2>2. (out \o <<0>>) \o pad = out \o (<<0>> \o pad)
    BY <1>6, <1>7, <2>1, ConcatAssociative
  <2>3. out \o <<0>> \in Seq(Bytes) /\ <<0>> \o pad \in Seq(Bytes)
    BY <1>6, <1>7, <2>1, ConcatBytes
  <2>4. QED
    BY <1>1, <2>2, <2>3
<1>9. \A q \in 1..N : q <= p => procOffsets'[q] = procOffsets[q]
  <2> SUFFICES ASSUME NEW q \in 1..N, q <= p
               PROVE  procOffsets'[q] = procOffsets[q]
    OBVIOUS
  <2>1. CASE p = N
    BY <2>1, Zenon DEF EndRows
  <2>2. CASE p # N
    <3>1. procOffsets' = MapPut(procOffsets, p + 1, addr')
      BY <1>1, <2>2, Zenon DEF EndRows
    <3>2. q \in DOMAIN procOffsets
      BY <1>1, <1>2 DEF IndInv, OffsetsFollowDump
    <3>3. q # p + 1
      BY <1>2
    <3>4. QED
      BY <3>1, <3>2, <3>3 DEF MapPut
  <2>3. QED
    BY <2>1, <2>2
<1>10. ASSUME NEW x \in EntryIds, x[1] < p' \/ (x[1] = p' /\ x[2] < e')
       PROVE  (RowWritten(x))'
  <2>1. x[1] <= p /\ x[1] \in 1..N
    BY <1>1, <1>2, <1>3, <1>10
  <2>2. RowWritten(x)
    <3>1. x[1] < p \/ (x[1] = p /\ x[2] < e)
      BY <1>1, <1>2, <1>3, <1>10, SMTT(30)
    <3>2. QED
      BY <1>4, <3>1
  <2>3. procOffsets'[x[1]] = procOffsets[x[1]]
    BY <1>9, <2>1
  <2>4. QED
    BY <1>1, <1>6, <1>8, <2>2, <2>3, RowsStay
<1>11. ASSUME NEW q \in 1..N, q < p'
       PROVE  (EndWritten(q))'
  <2>1. q <= p
    BY <1>1, <1>2, <1>11
  <2>2. CASE q < p
    BY <1>1, <1>4, <1>8, <1>9, <2>1, <2>2, EndStays
  <2>3. CASE q = p
    <3>1. Stands(out \o <<0>>, addr, <<0>>)
      BY <1>1, <1>7, AppendedStands
    <3>2. Stands(out', addr, <<0>>)
      BY <1>1, <1>6, <1>7, <1>8, <3>1, StaysStanding
    <3>3. procOffsets'[q] + 4 * Len(job'.procs[q]) = addr
      BY <1>1, <1>5, <1>9, <2>1, <2>3
    <3>4. QED
      BY <1>1, <3>2, <3>3 DEF EndWritten, Stands
  <2>4. QED
    BY <1>2, <2>1, <2>2, <2>3
<1>12. p' <= N => procOffsets'[p'] = addr'
  <2> SUFFICES ASSUME p' <= N PROVE procOffsets'[p'] = addr'
    OBVIOUS
  <2>1. p # N /\ p' = p + 1
    BY <1>1, <1>2
  <2>2. procOffsets' = MapPut(procOffsets, p', addr')
    BY <1>1, <2>1, Zenon DEF EndRows
  <2>3. QED
    BY <2>2 DEF MapPut
<1>13. /\ p' <= N + 1
       /\ p' <= N => e' <= Rows(p') + 1 /\ addr' = procOffsets'[p'] + 4 * (e' - 1)
  BY <1>1, <1>2, <1>6, <1>12, SMTT(30)
<1>14. Len(job'.procs) = N /\ Len(job'.procs[p']) = Rows(p')
  BY <1>1
<1>15. QED
  BY <1>1, <1>10, <1>11, <1>13, <1>14, Zenon DEF RowsInv

(* A stutter keeps what the tables hold.                                   *)
LEMMA TablesUnchanged ==
  ASSUME UNCHANGED <<job, p, e, c, out, addr, hashMap, condOffsets, procOffsets,
                     extvec, rowAddr, conds>>
  PROVE  /\ \A x : RowWritten(x)' = RowWritten(x)
         /\ \A q : EndWritten(q)' = EndWritten(q)
         /\ \A q : WordWritten(q)' = WordWritten(q)
<1>1. /\ job' = job /\ out' = out /\ addr' = addr /\ p' = p
      /\ rowAddr' = rowAddr /\ procOffsets' = procOffsets
      /\ condOffsets' = condOffsets
  BY DEF vars
<1>3. \A x : RowBytes(x)' = RowBytes(x)
  BY <1>1 DEF RowBytes, Entry, U16
<1>4. ASSUME NEW x PROVE RowWritten(x)' = RowWritten(x)
  BY <1>1, <1>3 DEF RowWritten, Stands
<1>5. ASSUME NEW q PROVE EndWritten(q)' = EndWritten(q)
  BY <1>1 DEF EndWritten, Stands
<1>6. ASSUME NEW q PROVE WordWritten(q)' = WordWritten(q)
  BY <1>1 DEF WordWritten, Stands, U16
<1>7. QED
  BY <1>4, <1>5, <1>6

(* Those are the steps inside the rows.                                    *)
LEMMA RowsStep ==
  ASSUME IndInv, CodeInv, RowsInv, [Next]_vars
  PROVE  RowsInv'
<1>1. CASE StartRows
  BY <1>1, StartRowsKeeps
<1>2. CASE WriteRow
  BY <1>2, WriteRowKeeps
<1>3. CASE EndRows
  BY <1>3, EndRowsKeeps
<1>4. ASSUME phase' # "rows"
      PROVE  RowsInv'
  BY <1>4, Zenon DEF RowsInv
<1>5. CASE UNCHANGED vars
  BY <1>5, TablesUnchanged, EntryIdsKept, Zenon DEF vars, RowsInv
<1>6. CASE \/ RegisterTails \/ ShareBody \/ OpenBody \/ SkipCondact
           \/ EmitCondact \/ CloseBody \/ NextProcess
  <2>1. phase' = "dump"
    BY <1>6 DEF RegisterTails, ShareBody, OpenBody, SkipCondact, EmitCondact,
                CloseBody, NextProcess, AtEntry, InBody
  <2>2. QED
    BY <1>4, <2>1
<1>7. CASE StartVector \/ WriteVector \/ Finish
  <2>1. phase' # "rows"
    BY <1>7 DEF StartVector, WriteVector, Finish
  <2>2. QED
    BY <1>4, <2>1
<1>8. QED
  BY <1>1, <1>2, <1>3, <1>5, <1>6, <1>7, Zenon DEF Next, Done

(* The vector.                                                             *)

(* The rows and their ends are all there when the vector starts.           *)
LEMMA StartVectorKeeps ==
  ASSUME IndInv, RowsInv, StartVector
  PROVE  VectorInv'
<1> DEFINE N == Len(job.procs)
           pad == PadBytes(addr)
<1>1. /\ IsJob(job) /\ job' = job /\ EntryIds' = EntryIds
      /\ addr \in Nat /\ p \in Nat \ {0} /\ phase = "rows" /\ phase' = "vector"
      /\ p > N /\ p' = 1 /\ rowAddr' = rowAddr /\ condOffsets' = condOffsets
      /\ procOffsets' = procOffsets /\ addr' = PaddedAddr(addr)
      /\ out' = out \o pad /\ DOMAIN condOffsets = EntryIds
  BY EntryIdsKept DEF IndInv, TypeOK, StartVector, OffsetsFollowDump
<1>2. N \in Nat
  BY <1>1, ProcsAreSequences
<1>3. \A x \in EntryIds : x[1] \in 1..N
  BY EntryIdsProperty
<1>4. addr' \in Nat /\ addr <= addr' /\ pad \in Seq(Bytes)
  <2>1. pad \in Seq(Bytes) /\ addr' \in Nat /\ addr' = addr + Len(pad)
    BY <1>1, PaddingCounted
  <2>2. Len(pad) \in Nat
    BY <2>1, LenProperties
  <2>3. QED
    BY <1>1, <2>1, <2>2
<1> HIDE DEF pad
<1>5. ASSUME NEW x \in EntryIds PROVE (RowWritten(x))'
  <2>1. x[1] < p
    BY <1>1, <1>2, <1>3
  <2>2. RowWritten(x)
    BY <1>1, <2>1, Zenon DEF RowsInv
  <2>3. procOffsets'[x[1]] = procOffsets[x[1]]
    BY <1>1
  <2>4. QED
    BY <1>1, <1>4, <2>2, <2>3, RowsStay
<1>6. ASSUME NEW q \in 1..N PROVE (EndWritten(q))'
  <2>1. q < p
    BY <1>1, <1>2
  <2>2. EndWritten(q)
    BY <1>1, <2>1, Zenon DEF RowsInv
  <2>3. procOffsets'[q] = procOffsets[q]
    BY <1>1
  <2>4. QED
    BY <1>1, <1>4, <2>2, <2>3, EndStays
<1>7. \A q \in 1..N : ~(q < p') /\ q < p /\ q \in DOMAIN procOffsets'
  BY <1>1, <1>2 DEF IndInv, OffsetsFollowDump
<1>8. /\ p' <= N + 1 /\ phase' # "done" /\ 1..N \subseteq DOMAIN procOffsets'
  BY <1>1, <1>2, <1>7
<1>9. Len(job'.procs) = N
  BY <1>1
<1>10. QED
  BY <1>1, <1>5, <1>6, <1>7, <1>8, <1>9, Zenon DEF VectorInv

(* Each word of it stays where it is, counted from its end.                *)
LEMMA WriteVectorKeeps ==
  ASSUME IndInv, VectorInv, WriteVector
  PROVE  VectorInv'
<1> DEFINE N == Len(job.procs)
           word == U16(procOffsets[p])
<1>1. /\ IsJob(job) /\ job' = job /\ EntryIds' = EntryIds
      /\ addr \in Nat /\ p \in Nat \ {0} /\ phase = "vector" /\ phase' = phase
      /\ p <= N /\ p' = p + 1 /\ rowAddr' = rowAddr /\ condOffsets' = condOffsets
      /\ procOffsets' = procOffsets /\ addr' = addr + 2
      /\ out \in Seq(Bytes) /\ addr = job.base + Len(out)
      /\ out' = out \o word /\ DOMAIN condOffsets = EntryIds
  BY EntryIdsKept DEF IndInv, TypeOK, WriteVector, OffsetsFollowDump, AddrCountsBytes
<1>2. N \in Nat /\ p \in 1..N
  BY <1>1, ProcsAreSequences
<1>3. /\ 1..N \subseteq DOMAIN procOffsets
      /\ \A x \in EntryIds : RowWritten(x)
      /\ \A q \in 1..N : EndWritten(q)
      /\ \A q \in 1..N : q < p => WordWritten(q)
  BY <1>1, Zenon DEF VectorInv
<1>4. \A q \in 1..N : procOffsets[q] \in Nat
  BY <1>3 DEF IndInv, TypeOK
<1>5. word \in Seq(Bytes) /\ addr' \in Nat /\ addr <= addr'
  BY <1>1, <1>2, <1>4, U16IsTwoBytes
<1>6. \A x \in EntryIds : x[1] \in 1..N
  BY EntryIdsProperty
<1> HIDE DEF word
<1>7. ASSUME NEW x \in EntryIds PROVE (RowWritten(x))'
  <2>1. RowWritten(x) /\ procOffsets'[x[1]] = procOffsets[x[1]]
    BY <1>1, <1>3
  <2>2. QED
    BY <1>1, <1>5, <2>1, RowsStay
<1>8. ASSUME NEW q \in 1..N PROVE (EndWritten(q))'
  <2>1. EndWritten(q) /\ procOffsets'[q] = procOffsets[q]
    BY <1>1, <1>3
  <2>2. QED
    BY <1>1, <1>5, <2>1, EndStays
<1>9. ASSUME NEW q \in 1..N, q < p' PROVE (WordWritten(q))'
  <2> DEFINE at == addr - 2 * (p - q)
             bytes == U16(procOffsets[q])
  <2>1. (addr - 2 * (p - q))' = at
    BY <1>1
  <2>2. bytes \in Seq(Bytes)
    BY <1>4, U16IsTwoBytes
  <2>3. Stands(out', at, bytes)
    <3>1. CASE q < p
      <4>1. Stands(out, at, bytes)
        BY <1>3, <3>1, Zenon DEF WordWritten
      <4> HIDE DEF at, bytes
      <4>2. QED
        BY <1>1, <1>5, <2>2, <4>1, StaysStanding
    <3>2. CASE q = p
      <4>1. at = addr /\ bytes = word
        BY <1>1, <3>2 DEF word
      <4> HIDE DEF at, bytes
      <4>2. Stands(out', addr, word)
        BY <1>1, <1>5, AppendedStands
      <4>3. QED
        BY <4>1, <4>2
    <3>3. QED
      BY <1>1, <1>2, <1>9, <3>1, <3>2
  <2>4. U16(procOffsets[q])' = bytes
    BY <1>1 DEF U16
  <2>5. Stands(out, addr - 2 * (p - q), U16(procOffsets[q]))' <=> Stands(out', at, bytes)
    BY <1>1, <2>1, <2>4 DEF Stands
  <2> HIDE DEF at, bytes
  <2>6. QED
    BY <2>3, <2>5, Zenon DEF WordWritten
<1>10. /\ p' <= N + 1 /\ phase' # "done" /\ 1..N \subseteq DOMAIN procOffsets'
  BY <1>1, <1>2, <1>3
<1>11. Len(job'.procs) = N
  BY <1>1
<1>12. QED
  BY <1>1, <1>7, <1>8, <1>9, <1>10, <1>11, Zenon DEF VectorInv

(* Those are the steps inside the vector.                                  *)
LEMMA VectorStep ==
  ASSUME IndInv, RowsInv, VectorInv, [Next]_vars
  PROVE  VectorInv'
<1>1. CASE StartVector
  BY <1>1, StartVectorKeeps
<1>2. CASE WriteVector
  BY <1>2, WriteVectorKeeps
<1>3. CASE Finish
  <2>1. /\ UNCHANGED <<job, p, e, c, out, addr, hashMap, condOffsets, procOffsets,
                       extvec, rowAddr, conds>>
        /\ phase = "vector" /\ phase' = "done" /\ p > Len(job.procs)
    BY <1>3, Zenon DEF Finish
  <2>2. /\ \A x : RowWritten(x)' = RowWritten(x)
        /\ \A q : EndWritten(q)' = EndWritten(q)
        /\ \A q : WordWritten(q)' = WordWritten(q)
    BY <2>1, TablesUnchanged
  <2>3. p <= Len(job.procs) + 1 /\ p \in Nat /\ Len(job.procs) \in Nat
    BY <2>1, ProcsAreSequences DEF VectorInv, IndInv, TypeOK
  <2>4. p' = Len(job'.procs) + 1 /\ p' <= Len(job'.procs) + 1
    BY <2>1, <2>3
  <2>5. EntryIds' = EntryIds
    BY <2>1, EntryIdsKept
  <2>6. QED
    BY <2>1, <2>2, <2>4, <2>5, Zenon DEF VectorInv
<1>4. CASE UNCHANGED vars
  BY <1>4, TablesUnchanged, EntryIdsKept, Zenon DEF vars, VectorInv
<1>5. CASE \/ RegisterTails \/ ShareBody \/ OpenBody \/ SkipCondact
           \/ EmitCondact \/ CloseBody \/ NextProcess
           \/ StartRows \/ WriteRow \/ EndRows
  <2>1. phase' \in {"dump", "rows"}
    BY <1>5 DEF RegisterTails, ShareBody, OpenBody, SkipCondact, EmitCondact,
                CloseBody, NextProcess, AtEntry, InBody, StartRows, WriteRow, EndRows
  <2>2. phase' \notin {"vector", "done"}
    BY <2>1
  <2>3. QED
    BY <2>2, Zenon DEF VectorInv
<1>6. QED
  BY <1>1, <1>2, <1>3, <1>4, <1>5, Zenon DEF Next, Done

(* No row is written at the start.                                         *)
LEMMA TablesInit == Init => RowsInv /\ VectorInv
BY DEF Init, RowsInv, VectorInv

(* The inductive invariant of the tables.                                  *)
LEMMA TablesInvariance ==
  HashesTell /\ Spec => [](IndInv /\ CodeInv /\ RowsInv /\ VectorInv)
<1>1. /\ IndInv /\ CodeInv /\ HashesTell /\ RowsInv /\ VectorInv /\ [Next]_vars
      => RowsInv' /\ VectorInv'
  BY RowsStep, VectorStep
<1>2. QED
  BY CodeInvariance, TablesInit, <1>1, PTL DEF Spec

(* Reading what stands in the file.                                        *)
LEMMA BytesRead ==
  ASSUME IsJob(job), out \in Seq(Bytes), NEW bytes \in Seq(Bytes), NEW at \in Nat,
         Stands(out, at, bytes), NEW k \in 1..Len(bytes)
  PROVE  ByteAt(at + (k - 1)) = bytes[k]
<1> DEFINE from == at - job.base
           n == Len(bytes)
<1>1. from \in Nat /\ from + n <= Len(out) /\ SubSeq(out, from + 1, from + n) = bytes
  BY Zenon DEF Stands
<1>2. n \in Nat
  BY LenProperties
<1>3. job.base \in Nat
  BY DEF IsJob
<1>4. at + (k - 1) - job.base + 1 = from + k
  BY <1>2, <1>3
<1> HIDE DEF from
<1>5. \A i \in 1..n : SubSeq(out, from + 1, from + n)[i] = out[from + i]
  BY <1>1, <1>2, Part
<1>6. bytes[k] = out[from + k]
  BY <1>1, <1>5
<1>7. ByteAt(at + (k - 1)) = out[from + k]
  <2> DEFINE a == at + (k - 1)
             b == a - job.base + 1
  <2>1. ByteAt(a) = out[b]
    BY DEF ByteAt
  <2>2. b = from + k
    BY <1>2, <1>3, <1>4 DEF from
  <2> HIDE DEF b
  <2>3. QED
    BY <2>1, <2>2
<1>8. QED
  BY <1>6, <1>7

(* A word below 64K is read as it was pushed, in either byte order.        *)
LEMMA WordIsRead ==
  ASSUME IsJob(job), NEW v \in Nat, v < 65536, NEW a,
         ByteAt(a) = U16(v)[1], ByteAt(a + 1) = U16(v)[2]
  PROVE  WordAt(a) = v
<1>1. /\ v % 256 \in 0..255 /\ (v \div 256) % 256 \in 0..255
      /\ (v % 256) + 256 * ((v \div 256) % 256) = v % 65536
  BY TwoBytes
<1>2. v % 65536 = v
  OBVIOUS
<1> DEFINE lo == v % 256
           hi == (v \div 256) % 256
<1>3. U16(v) = IF job.bigEndian THEN <<hi, lo>> ELSE <<lo, hi>>
  BY DEF U16
<1>4. lo \in Nat /\ hi \in Nat /\ lo + 256 * hi = v
  BY <1>1, <1>2
<1> HIDE DEF lo, hi
<1>5. CASE job.bigEndian
  BY <1>3, <1>4, <1>5 DEF WordAt
<1>6. CASE ~job.bigEndian
  BY <1>3, <1>4, <1>6 DEF WordAt
<1>7. QED
  BY <1>5, <1>6

(* The words at the end of the file lead to the rows.                      *)
LEMMA VectorLeads ==
  ASSUME IndInv, VectorInv, phase = "done", AddressesFit,
         NEW q \in 1..Len(job.procs)
  PROVE  /\ procOffsets[q] \in Nat
         /\ WordAt(addr - 2 * Len(job.procs) + 2 * (q - 1)) = procOffsets[q]
<1> DEFINE N == Len(job.procs)
           v == procOffsets[q]
           at == addr - 2 * N + 2 * (q - 1)
           end == v + 4 * Len(job.procs[q])
<1>1. /\ IsJob(job) /\ out \in Seq(Bytes) /\ addr \in Nat
      /\ addr = job.base + Len(out) /\ p \in Nat /\ addr <= 65536
  <2>1. IsJob(job) /\ out \in Seq(Bytes) /\ addr \in Nat /\ p \in Nat
    BY DEF IndInv, TypeOK
  <2>2. addr = job.base + Len(out)
    BY DEF IndInv, AddrCountsBytes
  <2>3. QED
    BY <2>1, <2>2 DEF AddressesFit
<1>2. /\ p = N + 1 /\ q \in DOMAIN procOffsets
      /\ EndWritten(q) /\ (q < p => WordWritten(q))
  BY Zenon DEF VectorInv
<1>3. N \in Nat /\ Len(job.procs[q]) \in Nat /\ job.base \in Nat /\ Len(out) \in Nat
  BY <1>1, ProcsAreSequences, LenProperties DEF IsJob
<1>4. v \in Nat
  BY <1>2 DEF IndInv, TypeOK
<1>5. v < 65536
  <2>1. Stands(out, end, <<0>>)
    BY <1>2, Zenon DEF EndWritten
  <2>2. end - job.base + Len(<<0>>) <= Len(out)
    BY <2>1, Zenon DEF Stands
  <2>3. Len(<<0>>) = 1
    OBVIOUS
  <2>4. QED
    BY <1>1, <1>3, <1>4, <2>2, <2>3, SMTT(30)
<1>6. Stands(out, at, U16(v)) /\ at \in Nat
  <2>1. q < p /\ addr - 2 * (p - q) = at
    BY <1>1, <1>2, <1>3, SMTT(30)
  <2>2. Stands(out, addr - 2 * (p - q), U16(v))
    BY <1>2, <2>1, Zenon DEF WordWritten
  <2>3. Stands(out, at, U16(v))
    BY <2>1, <2>2
  <2>4. at - job.base \in Nat
    BY <2>3, Zenon DEF Stands
  <2>5. at \in Int
    BY <1>1, <1>3, SMTT(30)
  <2> HIDE DEF at
  <2>6. at \in Nat
    BY <1>3, <2>4, <2>5
  <2>7. QED
    BY <2>3, <2>6
<1>7. U16(v) \in Seq(Bytes) /\ Len(U16(v)) = 2
  BY <1>4, U16IsTwoBytes
<1> HIDE DEF v, at
<1>8. ByteAt(at + (1 - 1)) = U16(v)[1] /\ ByteAt(at + (2 - 1)) = U16(v)[2]
  <2>1. 1 \in 1..Len(U16(v)) /\ 2 \in 1..Len(U16(v))
    BY <1>7
  <2>2. IsJob(job) /\ out \in Seq(Bytes)
    BY <1>1
  <2> DEFINE bytes == U16(v)
  <2>3. /\ bytes \in Seq(Bytes) /\ at \in Nat /\ Stands(out, at, bytes)
        /\ 1 \in 1..Len(bytes) /\ 2 \in 1..Len(bytes)
    BY <1>6, <1>7, <2>1
  <2> HIDE DEF bytes
  <2>4. \A k \in 1..Len(bytes) : ByteAt(at + (k - 1)) = bytes[k]
    BY <2>2, <2>3, BytesRead
  <2>5. QED
    BY <2>3, <2>4 DEF bytes
<1>9. at + (1 - 1) = at /\ at + (2 - 1) = at + 1
  BY <1>6
<1>10. WordAt(at) = v
  BY <1>1, <1>4, <1>5, <1>8, <1>9, WordIsRead
<1>11. QED
  BY <1>4, <1>10 DEF v, at

(* A row leads to its entry's code.                                        *)
LEMMA RowLeads ==
  ASSUME IndInv, CodeInv, AddressesFit, phase = "done",
         NEW x \in EntryIds, RowWritten(x), NEW at \in Nat,
         at = procOffsets[x[1]] + 4 * (x[2] - 1)
  PROVE  /\ ByteAt(at) = Entry(x[1], x[2]).Verb
         /\ ByteAt(at + 1) = Entry(x[1], x[2]).Noun
         /\ ReadAt(WordAt(at + 2), Len(Meaning(x))) = Meaning(x)
         /\ rowAddr[x] = at
<1>1. /\ IsJob(job) /\ out \in Seq(Bytes) /\ addr \in Nat /\ addr <= 65536 /\ c = 0
      /\ c \in Nat /\ DOMAIN condOffsets = EntryIds
  BY DEF IndInv, TypeOK, AddressesFit, OffsetsFollowDump
<1>2. condOffsets[x] \in Nat /\ Placed(x)
  BY <1>1 DEF IndInv, TypeOK, Placed
<1>3. rowAddr[x] = at /\ Stands(out, at, RowBytes(x)) /\ condOffsets[x] < addr
  BY Zenon DEF RowWritten
<1>4. /\ RowBytes(x) \in Seq(Bytes) /\ Len(RowBytes(x)) = 4
      /\ RowBytes(x)[1] = Entry(x[1], x[2]).Verb
      /\ RowBytes(x)[2] = Entry(x[1], x[2]).Noun
      /\ RowBytes(x)[3] = U16(condOffsets[x])[1]
      /\ RowBytes(x)[4] = U16(condOffsets[x])[2]
  BY <1>2, RowIsFourBytes
<1>5. \A k \in 1..4 : ByteAt(at + (k - 1)) = RowBytes(x)[k]
  <2> DEFINE bytes == RowBytes(x)
  <2>1. IsJob(job) /\ out \in Seq(Bytes)
    BY <1>1
  <2>2. bytes \in Seq(Bytes) /\ Stands(out, at, bytes)
    BY <1>3, <1>4
  <2> HIDE DEF bytes
  <2>3. \A k \in 1..Len(bytes) : ByteAt(at + (k - 1)) = bytes[k]
    BY <2>1, <2>2, BytesRead
  <2>4. QED
    BY <1>4, <2>3 DEF bytes
<1>6. /\ ByteAt(at) = RowBytes(x)[1] /\ ByteAt(at + 1) = RowBytes(x)[2]
      /\ ByteAt(at + 2) = RowBytes(x)[3] /\ ByteAt(at + 2 + 1) = RowBytes(x)[4]
  <2>1. /\ ByteAt(at + (1 - 1)) = RowBytes(x)[1] /\ ByteAt(at + (2 - 1)) = RowBytes(x)[2]
        /\ ByteAt(at + (3 - 1)) = RowBytes(x)[3] /\ ByteAt(at + (4 - 1)) = RowBytes(x)[4]
    BY <1>5
  <2>2. /\ at + (1 - 1) = at /\ at + (2 - 1) = at + 1
        /\ at + (3 - 1) = at + 2 /\ at + (4 - 1) = at + 2 + 1
    OBVIOUS
  <2>3. QED
    BY <2>1, <2>2
<1>7. WordAt(at + 2) = condOffsets[x]
  <2>1. condOffsets[x] < 65536
    BY <1>1, <1>2, <1>3
  <2>2. QED
    BY <1>1, <1>2, <1>4, <1>6, <2>1, WordIsRead
<1>8. ReadAt(condOffsets[x], Len(Meaning(x))) = Meaning(x)
  BY <1>2, CodeIsRead, Zenon DEF EntriesReadBack, Placed
<1>9. QED
  BY <1>3, <1>4, <1>6, <1>7, <1>8

(* What the invariant says of a finished file is that it reads back.       *)
LEMMA TablesAreRead ==
  IndInv /\ CodeInv /\ VectorInv /\ AddressesFit => TablesReadBack
<1> SUFFICES ASSUME IndInv, CodeInv, VectorInv, AddressesFit, phase = "done"
             PROVE  TablesReadBack
  BY Zenon DEF TablesReadBack
<1> DEFINE N == Len(job.procs)
           RowOf(x) == WordAt(addr - 2 * N + 2 * (x[1] - 1)) + 4 * (x[2] - 1)
<1>1. /\ IsJob(job) /\ out \in Seq(Bytes)
  BY DEF IndInv, TypeOK
<1>2. N \in Nat /\ \A q \in 1..N : Len(job.procs[q]) \in Nat
  BY <1>1, ProcsAreSequences
<1>3. /\ \A x \in EntryIds : RowWritten(x)
      /\ \A q \in 1..N : EndWritten(q)
  BY Zenon DEF VectorInv
<1>4. ASSUME NEW x, x[1] \in 1..N
      PROVE  /\ RowOf(x) = procOffsets[x[1]] + 4 * (x[2] - 1)
             /\ procOffsets[x[1]] \in Nat
  BY <1>4, VectorLeads
<1>5. ASSUME NEW x \in EntryIds
      PROVE  /\ ByteAt(RowOf(x)) = Entry(x[1], x[2]).Verb
             /\ ByteAt(RowOf(x) + 1) = Entry(x[1], x[2]).Noun
             /\ ReadAt(WordAt(RowOf(x) + 2), Len(Meaning(x))) = Meaning(x)
             /\ rowAddr[x] = RowOf(x)
  <2>1. x[1] \in 1..N /\ x[2] \in 1..Len(job.procs[x[1]])
    BY EntryIdsProperty
  <2>2. /\ RowOf(x) = procOffsets[x[1]] + 4 * (x[2] - 1)
        /\ procOffsets[x[1]] \in Nat
    BY <1>4, <2>1
  <2> HIDE DEF RowOf
  <2>3. RowOf(x) \in Nat
    BY <1>2, <2>1, <2>2
  <2>4. RowWritten(x)
    BY <1>3
  <2>5. QED
    BY <2>2, <2>3, <2>4, RowLeads
<1>6. ASSUME NEW q \in 1..N
      PROVE  ByteAt(RowOf(<<q, Len(job.procs[q]) + 1>>)) = 0
  <2> DEFINE x == <<q, Len(job.procs[q]) + 1>>
             at == procOffsets[q] + 4 * Len(job.procs[q])
  <2>1. x[1] = q /\ x[2] - 1 = Len(job.procs[q])
    BY <1>2
  <2>2. RowOf(x) = at /\ at \in Nat
    <3> HIDE DEF x, RowOf
    <3>1. RowOf(x) = procOffsets[x[1]] + 4 * (x[2] - 1) /\ procOffsets[q] \in Nat
      BY <1>4, <2>1
    <3>2. QED
      BY <1>2, <2>1, <3>1, SMTT(30)
  <2>3. Stands(out, at, <<0>>)
    BY <1>3, Zenon DEF EndWritten
  <2> HIDE DEF at, RowOf
  <2>4. ByteAt(at + (1 - 1)) = <<0>>[1]
    <3>1. <<0>> \in Seq(Bytes) /\ 1 \in 1..Len(<<0>>)
      BY DEF Bytes
    <3>2. QED
      BY <1>1, <2>2, <2>3, <3>1, BytesRead
  <2>5. at + (1 - 1) = at /\ <<0>>[1] = 0
    BY <2>2
  <2>6. QED
    BY <2>2, <2>4, <2>5
<1>7. QED
  BY <1>5, <1>6, Zenon DEF TablesReadBack

(* Following a finished file from the process vector at its end reaches    *)
(* every entry's verb, noun and code, and every process's end: whatever    *)
(* was shared, padded or cut, as long as the file ends below 64K.          *)
THEOREM TablesFound == HashesTell /\ Spec => [](AddressesFit => TablesReadBack)
<1>1. IndInv /\ CodeInv /\ RowsInv /\ VectorInv => (AddressesFit => TablesReadBack)
  BY TablesAreRead
<1>2. QED
  BY TablesInvariance, <1>1, PTL

-----------------------------------------------------------------------------
(* User pointers.                                                          *)

(* The address counted is where the condact at the cursor will stand, or   *)
(* the mark behind the last.                                               *)
BodyInPlace ==
  c > 0 => /\ c <= Len(Body(p, e)) + 1
           /\ addr = condOffsets[<<p, e>>] + Displacement(Body(p, e), c, job.debug)

(* The cursor moves over a body by the size of what it passes.             *)
LEMMA PlaceStep ==
  IndInv /\ BodyInPlace /\ [Next]_vars => BodyInPlace'
<1> SUFFICES ASSUME IndInv, BodyInPlace, [Next]_vars, c' > 0 PROVE BodyInPlace'
  BY DEF BodyInPlace
<1>1. /\ IsJob(job) /\ job' = job /\ addr \in Nat /\ c \in Nat
      /\ p \in Nat \ {0} /\ e \in Nat \ {0}
  BY JobKept DEF IndInv, TypeOK
<1>2. /\ \A q, f : Body(q, f)' = Body(q, f)
  BY <1>1, CodeKept
<1>3. c > 0 => phase = "dump" /\ InEntry
  BY DEF IndInv, OffsetsFollowDump
<1>4. CASE OpenBody
  <2> DEFINE h == Hash(p, e, 1)
             pads == job.classic \/ h # <<>>
             at == IF pads THEN PaddedAddr(addr) ELSE addr
  <2>1. /\ AtEntry /\ c' = 1 /\ p' = p /\ e' = e /\ addr' = at
        /\ condOffsets' = MapPut(condOffsets, <<p, e>>, at)
    BY <1>4, Zenon DEF OpenBody
  <2>2. at \in Nat
    BY <1>1, PaddingCounted
  <2> HIDE DEF at
  <2>3. condOffsets'[<<p, e>>] = at
    BY <2>1 DEF MapPut
  <2>4. /\ Body(p, e) \in Seq(CONDACT) /\ Len(Body(p, e)) \in Nat
    BY <1>1, <2>1, CurrentEntry DEF AtEntry
  <2>5. Displacement(Body(p, e), 1, job.debug) = 0
    BY <2>4, DisplacementsAdd
  <2>6. QED
    BY <1>1, <1>2, <2>1, <2>2, <2>3, <2>4, <2>5 DEF BodyInPlace
<1>5. CASE SkipCondact \/ EmitCondact
  <2> DEFINE b == Body(p, e)
             k == b[c]
  <2>1. /\ InBody /\ c <= Len(b) /\ c' = c + 1 /\ p' = p /\ e' = e
        /\ condOffsets' = condOffsets
        /\ addr' = addr + SizeOf(k, job.debug)
    <3>1. CASE SkipCondact
      <4>1. /\ InBody /\ c <= Len(b) /\ c' = c + 1
            /\ UNCHANGED <<p, e, addr, condOffsets>> /\ EmitsNothing(k, job.debug)
        BY <3>1, Zenon DEF SkipCondact
      <4>2. addr' = addr + 0
        BY <1>1, <4>1
      <4>3. QED
        BY <4>1, <4>2, Zenon DEF SizeOf
    <3>2. CASE EmitCondact
      <4>1. /\ InBody /\ c <= Len(b) /\ ~EmitsNothing(k, job.debug)
            /\ addr' = addr + EmittedSize(k)
            /\ UNCHANGED <<p, condOffsets>>
            /\ \/ e' = e + 1 /\ c' = 0
               \/ e' = e /\ c' = c + 1
        BY <3>2, Zenon DEF EmitCondact
      <4>2. QED
        BY <4>1 DEF SizeOf
    <3>3. QED
      BY <1>5, <3>1, <3>2
  <2>2. b \in Seq(CONDACT) /\ Len(b) \in Nat
    BY <1>1, <1>3, <2>1, CurrentEntry DEF InBody
  <2>3. c \in 1..Len(b) /\ c > 0
    BY <1>1, <2>1, <2>2 DEF InBody
  <2>4. /\ Displacement(b, c, job.debug) \in Nat
        /\ Displacement(b, c + 1, job.debug)
             = Displacement(b, c, job.debug) + SizeOf(k, job.debug)
        /\ Displacement(b, c + 1, job.debug) \in Nat
    <3>1. c \in 1 .. Len(b) + 1 /\ c + 1 \in 1 .. Len(b) + 1
      BY <2>2, <2>3
    <3>2. QED
      BY <2>2, <2>3, <3>1, DisplacementsAdd
  <2>5. condOffsets[<<p, e>>] \in Nat
    BY <1>3, <2>1, <2>3, <1>1, CurrentEntry DEF IndInv, TypeOK, OffsetsFollowDump, Reached
  <2>6. addr = condOffsets[<<p, e>>] + Displacement(b, c, job.debug)
    BY <2>3 DEF BodyInPlace
  <2>7. SizeOf(k, job.debug) \in Nat
    <3>1. k \in CONDACT
      BY <2>2, <2>3, ElementOfSeq
    <3>2. QED
      BY <3>1, CondactBytesCounted DEF SizeOf
  <2>8. Body(p, e)' = b
    BY <1>2, <2>1
  <2> HIDE DEF b, k
  <2>9. addr' = condOffsets'[<<p', e'>>] + Displacement(b, c', job'.debug)
    BY <1>1, <2>1, <2>4, <2>5, <2>6, <2>7
  <2>10. c' <= Len(b) + 1
    BY <2>1, <2>2, <2>3
  <2>11. QED
    BY <2>8, <2>9, <2>10 DEF BodyInPlace
<1>6. CASE CloseBody \/ ShareBody
  <2>1. c' = 0
    BY <1>6 DEF CloseBody, ShareBody, AtEntry
  <2>2. QED
    BY <2>1
<1>7. CASE NextProcess
  <2>1. c' = c /\ ~InEntry
    BY <1>1, <1>7 DEF NextProcess, InEntry
  <2>2. QED
    BY <1>3, <2>1
<1>8. CASE \/ RegisterTails \/ StartRows \/ WriteRow \/ EndRows \/ StartVector
           \/ WriteVector \/ Finish
  <2>1. c' = c
    BY <1>8 DEF RegisterTails, StartRows, WriteRow, EndRows, StartVector,
                WriteVector, Finish
  <2>2. c = 0
    BY <1>1, <1>3, <1>8 DEF RegisterTails, StartRows, WriteRow, EndRows,
             StartVector, WriteVector, Finish, InEntry
  <2>3. QED
    BY <2>1, <2>2
<1>9. CASE UNCHANGED vars
  BY <1>2, <1>9 DEF vars, BodyInPlace
<1>10. QED
  BY <1>4, <1>5, <1>6, <1>7, <1>8, <1>9, Zenon DEF Next, Done

(* The dump stands at no condact behind a terminator it has printed.       *)
CursorReaches == c > 0 => Reaches(Body(p, e), c, job.debug, job.classic)

(* A hash has an offset only through a tail the dump has reached.          *)
TailReached(h) ==
  \E y \in DOMAIN condOffsets : \E i \in DOMAIN Body(y[1], y[2]) :
    Reaches(Body(y[1], y[2]), i, job.debug, job.classic) /\ Hash(y[1], y[2], i) = h

OffsetsReached ==
  \A h \in DOMAIN hashMap : hashMap[h] # NoOffset => TailReached(h)

(* Nothing of a job changes, so neither do the marks of its bodies.        *)
LEMMA MarksKept ==
  ASSUME job' = job
  PROVE  /\ \A x, i, k : MarksSlot(x, i, k)' <=> MarksSlot(x, i, k)
         /\ \A x : HashedBefore(x)' <=> HashedBefore(x)
<1>1. /\ \A q, f : Body(q, f)' = Body(q, f)
      /\ \A q, f, i : Hash(q, f, i)' = Hash(q, f, i)
      /\ EntryIds' = EntryIds
  BY CodeKept
<1>2. \A x, i, k : MarksSlot(x, i, k)' <=> MarksSlot(x, i, k)
  BY <1>1 DEF MarksSlot
<1>3. \A x : HashedBefore(x)' <=> HashedBefore(x)
  BY <1>1 DEF HashedBefore
<1>4. QED
  BY <1>2, <1>3

(* A body is opened at its first condact and the walk leaves it at a       *)
(* terminator.                                                             *)
LEMMA ReachesStep ==
  IndInv /\ CursorReaches /\ [Next]_vars => CursorReaches'
<1> SUFFICES ASSUME IndInv, CursorReaches, [Next]_vars, c' > 0
             PROVE  CursorReaches'
  BY DEF CursorReaches
<1>a. SUFFICES Reaches(Body(p', e'), c', job.debug, job.classic)
  <2>1. job' = job
    BY JobKept
  <2>2. Body(p, e)' = Body(p', e')
    BY <2>1 DEF Body, Entry
  <2>3. QED
    BY <2>1, <2>2 DEF CursorReaches
<1>1. /\ IsJob(job) /\ c \in Nat /\ p \in Nat \ {0} /\ e \in Nat \ {0}
      /\ c > 0 => phase = "dump" /\ InEntry
  BY DEF IndInv, TypeOK, OffsetsFollowDump
<1>2. CASE OpenBody
  <2>1. c' = 1 /\ p' = p /\ e' = e /\ AtEntry
    BY <1>2, Zenon DEF OpenBody
  <2>2. DOMAIN Body(p, e) = 1..Len(Body(p, e)) /\ Len(Body(p, e)) \in Nat
    BY <1>1, <2>1, CurrentEntry DEF AtEntry
  <2>3. QED
    BY <2>1, <2>2 DEF Reaches
<1>3. CASE SkipCondact \/ EmitCondact
  <2> DEFINE b == Body(p, e)
  <2>1. /\ InBody /\ c' = c + 1 /\ p' = p /\ e' = e
        /\ EmitsNothing(b[c], job.debug) \/ job.classic \/ ~IsTerminator(b[c])
    <3>1. CASE SkipCondact
      BY <3>1, Zenon DEF SkipCondact
    <3>2. CASE EmitCondact
      <4>1. /\ InBody /\ p' = p
            /\ IF ~job.classic /\ IsTerminator(b[c]) THEN c' = 0
               ELSE e' = e /\ c' = c + 1
        BY <3>2, Zenon DEF EmitCondact
      <4>2. QED
        BY <4>1
    <3>3. QED
      BY <1>3, <3>1, <3>2
  <2>2. /\ DOMAIN b = 1..Len(b) /\ Len(b) \in Nat
        /\ Reaches(b, c, job.debug, job.classic)
    BY <1>1, <2>1, CurrentEntry DEF InBody, CursorReaches
  <2> HIDE DEF b
  <2>3. Reaches(b, c + 1, job.debug, job.classic)
    <3>1. \A k \in 1..Len(b) : k < c + 1 => k < c \/ k = c
      BY <1>1, <2>2
    <3>2. QED
      BY <2>1, <2>2, <3>1, Zenon DEF Reaches
  <2>4. QED
    BY <2>1, <2>3 DEF b
<1>4. CASE CloseBody \/ ShareBody
  BY <1>4 DEF CloseBody, ShareBody, AtEntry
<1>5. CASE NextProcess
  BY <1>1, <1>5 DEF NextProcess, InEntry
<1>6. CASE \/ RegisterTails \/ StartRows \/ WriteRow \/ EndRows \/ StartVector
           \/ WriteVector \/ Finish
  <2>1. c' = c
    BY <1>6 DEF RegisterTails, StartRows, WriteRow, EndRows, StartVector,
                WriteVector, Finish
  <2>2. c = 0
    BY <1>1, <1>6 DEF RegisterTails, StartRows, WriteRow, EndRows,
             StartVector, WriteVector, Finish, InEntry
  <2>3. QED
    BY <2>1, <2>2
<1>7. CASE UNCHANGED vars
  BY <1>7 DEF vars, CursorReaches
<1>8. QED
  BY <1>2, <1>3, <1>4, <1>5, <1>6, <1>7, Zenon DEF Next, Done

(* Entries keep their offsets and the dump adds one at a time.             *)
LEMMA OffsetsGrow ==
  ASSUME IndInv, [Next]_vars
  PROVE  /\ DOMAIN condOffsets \subseteq DOMAIN condOffsets'
         /\ \A x \in DOMAIN condOffsets : condOffsets'[x] = condOffsets[x]
         /\ \A x \in DOMAIN condOffsets' :
              x \in DOMAIN condOffsets \/ (x = <<p, e>> /\ (ShareBody \/ OpenBody))
<1>1. /\ DOMAIN condOffsets \subseteq DOMAIN condOffsets'
      /\ \A x \in DOMAIN condOffsets' :
           x \in DOMAIN condOffsets \/ (x = <<p, e>> /\ (ShareBody \/ OpenBody))
  <2>1. CASE ShareBody \/ OpenBody
    <3>1. \E at : condOffsets' = MapPut(condOffsets, <<p, e>>, at)
      BY <2>1, Zenon DEF ShareBody, OpenBody
    <3>2. QED
      BY <2>1, <3>1 DEF MapPut
  <2>2. CASE ~(ShareBody \/ OpenBody)
    <3>1. condOffsets' = condOffsets
      BY <2>2 DEF Next, vars, RegisterTails, SkipCondact, EmitCondact,
         CloseBody, NextProcess, StartRows, WriteRow, EndRows, StartVector,
         WriteVector, Finish, Done
    <3>2. QED
      BY <3>1
  <2>3. QED
    BY <2>1, <2>2
<1>2. QED
  BY <1>1, OffsetsStickStep

(* Only the tails of the entry being dumped gain an offset.                *)
LEMMA OffsetsReachedStep ==
  IndInv /\ CursorReaches /\ OffsetsReached /\ [Next]_vars => OffsetsReached'
<1> SUFFICES ASSUME IndInv, CursorReaches, OffsetsReached, [Next]_vars,
                    NEW h \in DOMAIN hashMap', hashMap'[h] # NoOffset
             PROVE  TailReached(h)'
  BY DEF OffsetsReached
<1>1. /\ IsJob(job) /\ job' = job /\ c \in Nat
      /\ p \in Nat \ {0} /\ e \in Nat \ {0}
  BY JobKept DEF IndInv, TypeOK
<1>2. /\ \A q, f : Body(q, f)' = Body(q, f)
      /\ \A q, f, i : Hash(q, f, i)' = Hash(q, f, i)
      /\ DOMAIN condOffsets \subseteq DOMAIN condOffsets'
  BY <1>1, CodeKept, OffsetsGrow
<1>3. ASSUME NEW y \in DOMAIN condOffsets', NEW i \in DOMAIN Body(y[1], y[2]),
             Reaches(Body(y[1], y[2]), i, job.debug, job.classic),
             Hash(y[1], y[2], i) = h
      PROVE  TailReached(h)'
  BY <1>1, <1>2, <1>3 DEF TailReached
<1>4. ASSUME TailReached(h) PROVE TailReached(h)'
  BY <1>2, <1>3, <1>4 DEF TailReached
<1>5. CASE hashMap' = hashMap
  BY <1>4, <1>5 DEF OffsetsReached
<1>6. CASE RegisterTails
  <2>1. \/ hashMap' = <<>>
        \/ hashMap' = [g \in TailHashes \ {<<>>} |-> NoOffset]
    BY <1>6, Zenon DEF RegisterTails
  <2>2. QED
    BY <2>1
<1>7. CASE OpenBody
  <2> DEFINE own == Hash(p, e, 1)
  <2>1. /\ AtEntry
        /\ \/ hashMap' = hashMap
           \/ /\ ~job.classic /\ own # <<>>
              /\ \E at : hashMap' = [hashMap EXCEPT ![own] = at]
        /\ \E at : condOffsets' = MapPut(condOffsets, <<p, e>>, at)
    BY <1>7, Zenon DEF OpenBody
  <2>2. CASE h = own /\ own # <<>>
    <3>1. PICK y : y = <<p, e>>
      OBVIOUS
    <3>2. y \in DOMAIN condOffsets'
      BY <2>1, <3>1 DEF MapPut
    <3>3. 1 \in DOMAIN Body(p, e)
      BY <2>2 DEF Hash, CondactsHash
    <3>4. DOMAIN Body(p, e) = 1..Len(Body(p, e)) /\ Len(Body(p, e)) \in Nat
      BY <1>1, <2>1, CurrentEntry DEF AtEntry
    <3>5. Reaches(Body(p, e), 1, job.debug, job.classic)
      BY <3>4 DEF Reaches
    <3>6. Hash(y[1], y[2], 1) = h /\ Body(y[1], y[2]) = Body(p, e)
      BY <2>2, <3>1
    <3>7. QED
      BY <1>3, <3>2, <3>3, <3>5, <3>6
  <2>3. CASE ~(h = own /\ own # <<>>)
    <3>1. h \in DOMAIN hashMap /\ hashMap'[h] = hashMap[h]
      BY <2>1, <2>3
    <3>2. QED
      BY <1>4, <3>1 DEF OffsetsReached
  <2>4. QED
    BY <2>2, <2>3
<1>8. CASE EmitCondact
  <2>1. InBody /\ c <= Len(Body(p, e)) /\ hashMap' = TailOffsets
    BY <1>8, Zenon DEF EmitCondact
  <2>2. /\ DOMAIN Body(p, e) = 1..Len(Body(p, e)) /\ Len(Body(p, e)) \in Nat
        /\ <<p, e>> \in EntryIds /\ c > 0
    BY <1>1, <2>1, CurrentEntry DEF InBody
  <2>3. /\ h \in DOMAIN hashMap
        /\ hashMap'[h] = hashMap[h] \/ h = Hash(p, e, c)
    BY <2>1, Zenon DEF TailOffsets
  <2>4. CASE hashMap'[h] = hashMap[h]
    BY <1>4, <2>3, <2>4 DEF OffsetsReached
  <2>5. CASE h = Hash(p, e, c)
    <3>1. PICK y : y = <<p, e>>
      OBVIOUS
    <3>2. y \in DOMAIN condOffsets'
      <4>1. <<p, e>> \in DOMAIN condOffsets
        BY <1>1, <2>1, <2>2 DEF IndInv, OffsetsFollowDump, Reached, InBody
      <4>2. QED
        BY <1>2, <3>1, <4>1
    <3>3. c \in DOMAIN Body(p, e) /\ Reaches(Body(p, e), c, job.debug, job.classic)
      BY <1>1, <2>1, <2>2 DEF CursorReaches
    <3>4. Hash(y[1], y[2], c) = h /\ Body(y[1], y[2]) = Body(p, e)
      BY <2>5, <3>1
    <3>5. QED
      BY <1>3, <3>2, <3>3, <3>4
  <2>6. QED
    BY <2>3, <2>4, <2>5
<1>9. \/ hashMap' = hashMap \/ RegisterTails \/ OpenBody \/ EmitCondact
  BY DEF Next, vars, ShareBody, SkipCondact, CloseBody, NextProcess, StartRows,
     WriteRow, EndRows, StartVector, WriteVector, Finish, Done
<1>10. QED
  BY <1>5, <1>6, <1>7, <1>8, <1>9

(* What the walk has passed stays passed, and it passes one #userptr at a  *)
(* time, unless it passes over an entry with the hash of an earlier tail.  *)
LEMMA PassedStep ==
  ASSUME IndInv, CursorReaches, OffsetsReached, [Next]_vars, NEW x \in EntryIds,
         NEW i \in DOMAIN Body(x[1], x[2]), NEW k
  PROVE  /\ Passed(x, i) => Passed(x, i)'
         /\ Passed(x, i)' /\ ~Passed(x, i) /\ MarksSlot(x, i, k) /\ ~HashedBefore(x) =>
              SkipCondact /\ x = <<p, e>> /\ i = c
<1> DEFINE b == Body(p, e)
<1>1. /\ IsJob(job) /\ c \in Nat /\ p \in Nat \ {0} /\ e \in Nat \ {0}
      /\ c > 0 => phase = "dump" /\ InEntry
      /\ DOMAIN condOffsets \subseteq DOMAIN condOffsets'
      /\ i \in Nat \ {0}
  <2>1. DOMAIN Body(x[1], x[2]) = 1..Len(Body(x[1], x[2])) /\ Len(Body(x[1], x[2])) \in Nat
    BY BodyAndCode DEF IndInv, TypeOK
  <2>2. /\ IsJob(job) /\ c \in Nat /\ p \in Nat \ {0} /\ e \in Nat \ {0}
        /\ c > 0 => phase = "dump" /\ InEntry
    BY DEF IndInv, TypeOK, OffsetsFollowDump
  <2>3. DOMAIN condOffsets \subseteq DOMAIN condOffsets'
    BY OffsetsGrow
  <2>4. i \in Nat \ {0}
    BY <2>1
  <2>5. QED
    BY <2>2, <2>3, <2>4
<1>2. CASE ShareBody
  <2>1. /\ AtEntry /\ ~job.classic /\ Hash(p, e, 1) # <<>>
        /\ hashMap[Hash(p, e, 1)] # NoOffset
        /\ e' = e + 1 /\ p' = p /\ c' = c
    BY <1>2, Zenon DEF ShareBody
  <2>2. /\ c = 0 /\ phase = "dump" /\ Hash(p, e, 1) \in DOMAIN hashMap
    BY <2>1, HashRegistered DEF AtEntry
  <2>3. PICK y \in DOMAIN condOffsets : \E j \in DOMAIN Body(y[1], y[2]) :
          /\ Reaches(Body(y[1], y[2]), j, job.debug, job.classic)
          /\ Hash(y[1], y[2], j) = Hash(p, e, 1)
    BY <2>1, <2>2 DEF OffsetsReached, TailReached
  <2>4. y \in EntryIds /\ (y[1] < p \/ (y[1] = p /\ y[2] < e))
    BY <2>2 DEF IndInv, OffsetsFollowDump, Reached
  <2>5. PICK z : z = <<p, e>>
    OBVIOUS
  <2>6. HashedBefore(z)
    <3>1. z[1] = p /\ z[2] = e
      BY <2>5
    <3>2. QED
      BY <2>1, <2>3, <2>4, <3>1 DEF HashedBefore
  <2>7. x # <<p, e>> => (x \in DOMAIN condOffsets' <=> x \in DOMAIN condOffsets)
    BY <1>1, OffsetsGrow
  <2>8. QED
    BY <1>1, <2>1, <2>2, <2>5, <2>6, <2>7 DEF Passed
<1>3. CASE OpenBody
  <2>1. AtEntry /\ c' = 1 /\ p' = p /\ e' = e
    BY <1>3, Zenon DEF OpenBody
  <2>2. c = 0 /\ <<p, e>> \notin DOMAIN condOffsets
    BY <1>1, <2>1 DEF AtEntry, IndInv, OffsetsFollowDump, Reached
  <2>3. x # <<p, e>> => (x \in DOMAIN condOffsets' <=> x \in DOMAIN condOffsets)
    BY <1>1, OffsetsGrow
  <2>4. QED
    BY <1>1, <2>1, <2>2, <2>3 DEF Passed
<1>4. CASE SkipCondact
  <2>1. InBody /\ c' = c + 1 /\ p' = p /\ e' = e /\ condOffsets' = condOffsets
    BY <1>4, Zenon DEF SkipCondact
  <2>2. QED
    BY <1>1, <1>4, <2>1 DEF Passed, InBody
<1>5. CASE EmitCondact
  <2>1. /\ InBody /\ c <= Len(b) /\ p' = p /\ condOffsets' = condOffsets
        /\ ~EmitsNothing(b[c], job.debug)
        /\ \/ e' = e /\ c' = c + 1
           \/ ~job.classic /\ IsTerminator(b[c]) /\ e' = e + 1 /\ c' = 0
    BY <1>5, Zenon DEF EmitCondact
  <2>2. b[c].Opcode # FakeUserPtr /\ c > 0
    BY <2>1 DEF EmitsNothing, InBody
  <2>3. c \in DOMAIN b
    BY <1>1, <2>1, <2>2, CurrentEntry DEF InBody
  <2>4. Passed(x, i) => Passed(x, i)'
    <3>1. CASE e' = e /\ c' = c + 1
      BY <1>1, <2>1, <2>2, <3>1 DEF Passed
    <3>2. CASE c' = 0
      BY <2>1, <3>2 DEF Passed
    <3>3. QED
      BY <2>1, <3>1, <3>2
  <2>5. ASSUME Passed(x, i)', ~Passed(x, i), MarksSlot(x, i, k) PROVE FALSE
    <3>1. x \in DOMAIN condOffsets /\ x = <<p, e>> /\ c <= i
      BY <1>1, <2>1, <2>5 DEF Passed
    <3>2. Body(x[1], x[2]) = b
      BY <3>1
    <3>3. b[i].Opcode = FakeUserPtr /\ Reaches(b, i, job.debug, job.classic)
      BY <2>5, <3>2 DEF MarksSlot
    <3>4. c < i
      BY <1>1, <2>2, <3>1, <3>3
    <3>5. ~job.classic /\ IsTerminator(b[c])
      <4>1. CASE e' = e /\ c' = c + 1
        BY <1>1, <2>1, <2>5, <3>1, <3>4, <4>1 DEF Passed
      <4>2. QED
        BY <2>1, <4>1
    <3> HIDE DEF b
    <3>6. QED
      BY <2>1, <2>3, <3>3, <3>4, <3>5 DEF Reaches
  <2>6. QED
    BY <2>4, <2>5
<1>6. CASE CloseBody
  <2>1. /\ InBody /\ c = Len(b) + 1 /\ p' = p /\ e' = e + 1 /\ c' = 0
        /\ condOffsets' = condOffsets
    BY <1>6, Zenon DEF CloseBody
  <2>2. DOMAIN b = 1..Len(b) /\ Len(b) \in Nat
    BY <1>1, <2>1, CurrentEntry DEF InBody
  <2>3. x = <<p, e>> => i < c
    <3>1. x = <<p, e>> => i \in DOMAIN b
      OBVIOUS
    <3> HIDE DEF b
    <3>2. QED
      BY <2>1, <2>2, <3>1
  <2>4. QED
    BY <2>1, <2>3 DEF Passed
<1>7. CASE NextProcess
  <2>1. c' = c /\ c = 0 /\ condOffsets' = condOffsets
    BY <1>1, <1>7 DEF NextProcess, InEntry
  <2>2. QED
    BY <2>1 DEF Passed
<1>8. CASE \/ RegisterTails \/ StartRows \/ WriteRow \/ EndRows \/ StartVector
           \/ WriteVector \/ Finish
  <2>1. c' = c /\ condOffsets' = condOffsets
    BY <1>8 DEF RegisterTails, StartRows, WriteRow, EndRows, StartVector,
                WriteVector, Finish
  <2>2. c = 0
    BY <1>1, <1>8 DEF RegisterTails, StartRows, WriteRow, EndRows,
             StartVector, WriteVector, Finish, InEntry
  <2>3. QED
    BY <2>1, <2>2 DEF Passed
<1>9. CASE UNCHANGED vars
  BY <1>9 DEF vars, Passed
<1>10. QED
  BY <1>2, <1>3, <1>4, <1>5, <1>6, <1>7, <1>8, <1>9, Zenon DEF Next, Done

(* The address is never 0, and #userptr puts it into its slot.             *)
LEMMA SlotWritten ==
  ASSUME IndInv, BodyInPlace, CursorReaches, SkipCondact, NEW k \in 0..12, 
         Body(p, e)[c].Opcode = FakeUserPtr, Body(p, e)[c].Params[1] = k
  PROVE  /\ extvec' = [extvec EXCEPT ![k] = addr] /\ addr \in Nat \ {0}
         /\ <<p, e>> \in DOMAIN condOffsets /\ c \in DOMAIN Body(p, e)
         /\ MarksSlot(<<p, e>>, c, k)
         /\ addr = condOffsets[<<p, e>>] + Displacement(Body(p, e), c, job.debug)
<1>1. /\ IsJob(job) /\ c \in Nat /\ p \in Nat \ {0} /\ e \in Nat \ {0}
      /\ addr = job.base + Len(out) /\ Len(out) \in Nat
  <2>1. Len(out) \in Nat
    BY LenProperties DEF IndInv, TypeOK
  <2>2. QED
    BY <2>1 DEF IndInv, TypeOK, AddrCountsBytes
<1>2. /\ InBody /\ c <= Len(Body(p, e))
      /\ extvec' = [extvec EXCEPT ![k] = addr]
  BY Zenon DEF SkipCondact
<1>3. /\ c > 0 /\ c \in DOMAIN Body(p, e) /\ <<p, e>> \in EntryIds /\ InEntry
      /\ phase = "dump"
  BY <1>1, <1>2, CurrentEntry DEF InBody
<1>4. <<p, e>> \in DOMAIN condOffsets
  BY <1>1, <1>3 DEF IndInv, OffsetsFollowDump, Reached
<1>5. addr \in Nat \ {0}
  BY <1>1 DEF IsJob
<1>6. MarksSlot(<<p, e>>, c, k)
  BY <1>3 DEF MarksSlot, CursorReaches
<1>7. QED
  BY <1>2, <1>3, <1>4, <1>5, <1>6 DEF BodyInPlace

(* A user pointer is set where its #userptr stands, and stays set.         *)
LEMMA UserPtrsStep ==
  /\ IndInv /\ BodyInPlace /\ CursorReaches /\ OffsetsReached
  /\ UserPtrsInBodies /\ [Next]_vars
  => UserPtrsInBodies'
<1> SUFFICES ASSUME IndInv, BodyInPlace, CursorReaches, OffsetsReached,
                    UserPtrsInBodies, [Next]_vars
             PROVE  UserPtrsInBodies'
  OBVIOUS
<1> DEFINE Place(x, i) == condOffsets[x] + Displacement(Body(x[1], x[2]), i, job.debug)
           Holds(k) == \E x \in DOMAIN condOffsets : \E i \in DOMAIN Body(x[1], x[2]) :
                         MarksSlot(x, i, k) /\ Passed(x, i) /\ extvec[k] = Place(x, i)
           Owed(x, i, k) == MarksSlot(x, i, k) /\ Passed(x, i) /\ ~HashedBefore(x)
           Known == /\ \A k \in DOMAIN extvec : extvec[k] # 0 => Holds(k)
                    /\ \A x \in EntryIds : \A i \in DOMAIN Body(x[1], x[2]) :
                         \A k \in DOMAIN extvec : Owed(x, i, k) => extvec[k] # 0
<1>1. /\ IsJob(job) /\ job' = job /\ EntryIds' = EntryIds
      /\ extvec \in [0..12 -> Nat] /\ extvec' \in [0..12 -> Nat]
      /\ DOMAIN condOffsets \subseteq EntryIds
  BY JobKept, EntryIdsKept, OffsetTypesStep
     DEF IndInv, TypeOK, OffsetsFollowDump, OffsetTypes
<1>2. /\ \A q, f : Body(q, f)' = Body(q, f)
      /\ \A x, i, k : MarksSlot(x, i, k)' <=> MarksSlot(x, i, k)
      /\ \A x : HashedBefore(x)' <=> HashedBefore(x)
  BY <1>1, CodeKept, MarksKept
<1>3. /\ DOMAIN condOffsets \subseteq DOMAIN condOffsets'
      /\ \A x \in DOMAIN condOffsets : condOffsets'[x] = condOffsets[x]
  BY OffsetsGrow
<1>4. /\ \A k \in DOMAIN extvec : extvec[k] # 0 => Holds(k)
      /\ \A x \in EntryIds : \A i \in DOMAIN Body(x[1], x[2]) :
           \A k \in DOMAIN extvec : Owed(x, i, k) => extvec[k] # 0
  BY DEF UserPtrsInBodies
<1>5. \A x \in DOMAIN condOffsets : \A i : Place(x, i)' = Place(x, i)
  BY <1>1, <1>2, <1>3
<1>6. SUFFICES Known'
  BY DEF UserPtrsInBodies
<1>7. ASSUME NEW k \in 0..12, NEW x \in DOMAIN condOffsets,
             NEW i \in DOMAIN Body(x[1], x[2]),
             MarksSlot(x, i, k), Passed(x, i)', extvec'[k] = Place(x, i)
      PROVE  Holds(k)'
  <2>1. /\ x \in DOMAIN condOffsets' /\ i \in DOMAIN Body(x[1], x[2])'
        /\ MarksSlot(x, i, k)' /\ Place(x, i)' = Place(x, i)
    BY <1>2, <1>3, <1>5, <1>7
  <2> HIDE DEF Place
  <2>2. QED
    BY <1>7, <2>1
<1> HIDE DEF Place
<1>8. ASSUME NEW k \in 0..12, extvec'[k] = extvec[k], extvec'[k] # 0
      PROVE  Holds(k)'
  <2>1. PICK x \in DOMAIN condOffsets : \E i \in DOMAIN Body(x[1], x[2]) :
          MarksSlot(x, i, k) /\ Passed(x, i) /\ extvec[k] = Place(x, i)
    BY <1>1, <1>4, <1>8
  <2>2. PICK i \in DOMAIN Body(x[1], x[2]) :
          MarksSlot(x, i, k) /\ Passed(x, i) /\ extvec[k] = Place(x, i)
    BY <2>1
  <2>3. x \in EntryIds
    BY <1>1
  <2>4. Passed(x, i)'
    BY <2>2, <2>3, PassedStep
  <2>5. QED
    BY <1>7, <1>8, <2>2, <2>4
<1> HIDE DEF Holds
<1>9. ASSUME NEW n \in 0..12, SkipCondact, extvec' = [extvec EXCEPT ![n] = addr],
             Body(p, e)[c].Opcode = FakeUserPtr, Body(p, e)[c].Params[1] = n
      PROVE  Holds(n)' /\ extvec'[n] # 0
  <2>1. PICK x, i : x = <<p, e>> /\ i = c
    OBVIOUS
  <2>2. /\ addr \in Nat \ {0} /\ x \in DOMAIN condOffsets
        /\ i \in DOMAIN Body(x[1], x[2]) /\ MarksSlot(x, i, n)
        /\ addr = Place(x, i)
    BY <1>9, <2>1, SlotWritten DEF Place
  <2>3. Passed(x, i)'
    <3>1. c' = c + 1 /\ c \in Nat
      BY <1>9 DEF SkipCondact, IndInv, TypeOK
    <3>2. x \in DOMAIN condOffsets'
      BY <1>3, <2>2
    <3>3. QED
      BY <2>1, <3>1, <3>2 DEF Passed
  <2>4. extvec'[n] = addr
    BY <1>1, <1>9
  <2>5. QED
    BY <1>7, <2>2, <2>3, <2>4
<1>10. ASSUME SkipCondact, extvec' # extvec
       PROVE  \E n \in 0..12 : /\ extvec' = [extvec EXCEPT ![n] = addr]
                               /\ Body(p, e)[c].Opcode = FakeUserPtr
                               /\ Body(p, e)[c].Params[1] = n
  BY <1>10, Zenon DEF SkipCondact
<1>11. SkipCondact \/ extvec' = extvec
  BY DEF Next, vars, RegisterTails, ShareBody, OpenBody, EmitCondact, CloseBody,
     NextProcess, StartRows, WriteRow, EndRows, StartVector, WriteVector, Finish,
     Done
<1>12. ASSUME NEW k \in 0..12
       PROVE  extvec'[k] = extvec[k] \/ (Holds(k)' /\ extvec'[k] # 0)
  <2>1. CASE extvec' = extvec
    BY <2>1
  <2>2. CASE extvec' # extvec
    <3>1. PICK n \in 0..12 : /\ extvec' = [extvec EXCEPT ![n] = addr]
                             /\ Body(p, e)[c].Opcode = FakeUserPtr
                             /\ Body(p, e)[c].Params[1] = n
      BY <1>10, <1>11, <2>2
    <3>2. Holds(n)' /\ extvec'[n] # 0
      BY <1>9, <1>11, <2>2, <3>1
    <3>3. k # n => extvec'[k] = extvec[k]
      BY <1>1, <3>1
    <3>4. QED
      BY <3>2, <3>3
  <2>3. QED
    BY <2>1, <2>2
<1>13. \A k \in DOMAIN extvec' : extvec'[k] # 0 => Holds(k)'
  BY <1>1, <1>8, <1>12
<1>14. ASSUME NEW x \in EntryIds, NEW i \in DOMAIN Body(x[1], x[2]), NEW k \in 0..12,
              MarksSlot(x, i, k), Passed(x, i)', ~HashedBefore(x)
       PROVE  extvec'[k] # 0
  <2>1. CASE Passed(x, i)
    BY <1>1, <1>4, <1>12, <1>14, <2>1
  <2>2. CASE ~Passed(x, i)
    <3>1. SkipCondact /\ x = <<p, e>> /\ i = c
      BY <1>14, <2>2, PassedStep
    <3>2. Body(p, e)[c].Opcode = FakeUserPtr /\ Body(p, e)[c].Params[1] = k
      BY <1>14, <3>1 DEF MarksSlot
    <3>3. extvec' = [extvec EXCEPT ![k] = addr]
      BY <3>1, <3>2, SlotWritten
    <3>4. QED
      BY <1>9, <3>1, <3>2, <3>3
  <2>3. QED
    BY <2>1, <2>2
<1>15. \A x \in EntryIds' : \A i \in DOMAIN Body(x[1], x[2])' :
         \A k \in DOMAIN extvec' : Owed(x, i, k)' => extvec'[k] # 0
  BY <1>1, <1>2, <1>14
<1>16. QED
  BY <1>13, <1>15 DEF Holds, Place

(* For every job a user pointer that is set holds the address its #userptr *)
(* stands at in a body, also where the condacts around it write nothing,   *)
(* two bytes or a prefix (emit_proc.c:749); and it is set once the dump is *)
(* past its #userptr, unless that entry has the hash of an earlier tail.   *)
THEOREM UserPtrsPlaced == Spec => []UserPtrsInBodies
<1> DEFINE Walk == BodyInPlace /\ CursorReaches /\ OffsetsReached /\ UserPtrsInBodies
<1>1. Init => Walk
  <2> SUFFICES ASSUME Init PROVE Walk
    OBVIOUS
  <2>1. c = 0 /\ hashMap = <<>> /\ condOffsets = <<>> /\ extvec = [k \in 0..12 |-> 0]
    BY DEF Init
  <2>2. DOMAIN <<>> = {}
    OBVIOUS
  <2>3. BodyInPlace /\ CursorReaches /\ OffsetsReached
    BY <2>1, <2>2 DEF BodyInPlace, CursorReaches, OffsetsReached
  <2>4. \A x, i : ~Passed(x, i)
    BY <2>1, <2>2 DEF Passed
  <2>5. UserPtrsInBodies
    BY <2>1, <2>4 DEF UserPtrsInBodies
  <2>6. QED
    BY <2>3, <2>5
<1>2. IndInv /\ Walk /\ [Next]_vars => Walk'
  BY PlaceStep, ReachesStep, OffsetsReachedStep, UserPtrsStep
<1>3. QED
  BY <1>1, <1>2, IndInvInit, IndInvStep, PTL DEF Spec

-----------------------------------------------------------------------------
(* The source map.                                                         *)

RECORD == [proc : Nat, entry : Nat, cond : Nat, addr : Nat]

(* What a condact may start with where a record points: its opcode, or the *)
(* INDIR before it.                                                        *)
Firsts(k) ==
  {EmittedOpcode(k) % 256} \cup (IF HasIndirPrefix(k) THEN {IndirOpcode} ELSE {})

(* The records that are right about a file.                                *)
NamedIn(file) ==
  {r \in RECORD :
     /\ r.addr - job.base + 1 \in 1..Len(file)
     /\ file[r.addr - job.base + 1] \in Firsts(Body(r.proc, r.entry)[r.cond])}

RecordsNamed == conds \in Seq(NamedIn(out))

(* A condact starts with its opcode, after the three bytes of an INDIR.    *)
LEMMA CondactStarts ==
  ASSUME NEW k \in CONDACT
  PROVE  /\ 1 \in 1..Len(CondactBytes(k)) /\ CondactBytes(k)[1] \in Firsts(k)
         /\ HasIndirPrefix(k) => /\ 3 \in 1..Len(CondactBytes(k))
                                 /\ CondactBytes(k)[3] \in Firsts(k)
<1> DEFINE P == k.Params
           n == Len(P)
           prefix == IF HasIndirPrefix(k) THEN <<IndirOpcode, P[2] % 256>>
                     ELSE <<>>
           op == <<EmittedOpcode(k) % 256>>
           params == [i \in 1..n |-> P[i] % 256]
<1>1. n \in Nat /\ \A i \in 1..n : P[i] \in Nat
  BY DEF CONDACT
<1>2. CondactBytes(k) = (prefix \o op) \o params
  BY DEF CondactBytes, NumParams
<1>3. op \in Seq(Int) /\ Len(op) = 1 /\ op[1] = EmittedOpcode(k) % 256
  <2>1. EmittedOpcode(k) \in Nat
    BY DEF EmittedOpcode, WithBit7, CONDACT
  <2>2. EmittedOpcode(k) % 256 \in Int
    BY <2>1
  <2>3. QED
    BY <2>2
<1> HIDE DEF P, n
<1>4. /\ prefix \in Seq(Int)
      /\ Len(prefix) = IF HasIndirPrefix(k) THEN 2 ELSE 0
      /\ HasIndirPrefix(k) => prefix[1] = IndirOpcode
  <2>1. CASE HasIndirPrefix(k)
    <3>1. P[2] \in Nat
      <4>1. n > 1
        BY <2>1 DEF HasIndirPrefix, NumParams, n, P
      <4>2. QED
        BY <1>1, <4>1
    <3>2. P[2] % 256 \in Int /\ IndirOpcode \in Int
      BY <3>1 DEF IndirOpcode
    <3>3. QED
      BY <2>1, <3>2
  <2>2. CASE ~HasIndirPrefix(k)
    BY <2>2
  <2>3. QED
    BY <2>1, <2>2
<1>5. params \in Seq(Int)
  <2>1. \A i \in 1..n : P[i] % 256 \in Int
    BY <1>1
  <2>2. QED
    BY <1>1, <2>1
<1> HIDE DEF prefix, op, params
<1>6. /\ prefix \o op \in Seq(Int) /\ Len(prefix \o op) = Len(prefix) + 1
      /\ \A i \in 1..Len(prefix) : (prefix \o op)[i] = prefix[i]
      /\ (prefix \o op)[Len(prefix) + 1] = op[1]
  <2>1. 1 \in 1..Len(op)
    BY <1>3
  <2>2. QED
    BY <1>3, <1>4, <2>1, Concat, SMTT(30)
<1>7. /\ Len(CondactBytes(k)) = Len(prefix) + 1 + Len(params) /\ Len(params) \in Nat
      /\ \A i \in 1 .. Len(prefix) + 1 : CondactBytes(k)[i] = (prefix \o op)[i]
  <2> DEFINE start == prefix \o op
  <2>1. start \in Seq(Int) /\ Len(start) = Len(prefix) + 1
    BY <1>6
  <2> HIDE DEF start
  <2>2. /\ Len(start \o params) = Len(start) + Len(params) /\ Len(params) \in Nat
        /\ \A i \in 1..Len(start) : (start \o params)[i] = start[i]
    BY <1>5, <2>1, Concat
  <2>3. CondactBytes(k) = start \o params
    BY <1>2 DEF start
  <2>4. QED
    BY <2>1, <2>2, <2>3 DEF start
<1>8. CASE HasIndirPrefix(k)
  <2>1. Len(prefix) = 2
    BY <1>4, <1>8
  <2>2. CondactBytes(k)[1] = IndirOpcode /\ CondactBytes(k)[3] = EmittedOpcode(k) % 256
    BY <1>3, <1>4, <1>6, <1>7, <1>8, <2>1
  <2>3. {1, 3} \subseteq 1..Len(CondactBytes(k))
    BY <1>7, <2>1
  <2>4. QED
    BY <1>8, <2>2, <2>3 DEF Firsts
<1>9. CASE ~HasIndirPrefix(k)
  <2>1. Len(prefix) = 0
    BY <1>4, <1>9
  <2>2. CondactBytes(k)[1] = EmittedOpcode(k) % 256
    <3>1. Len(prefix) + 1 = 1 /\ 1 \in 1..1
      BY <2>1
    <3>2. CondactBytes(k)[1] = (prefix \o op)[1]
      BY <1>7, <3>1
    <3>3. QED
      BY <1>3, <1>6, <3>1, <3>2
  <2>3. 1 \in 1..Len(CondactBytes(k))
    BY <1>7, <2>1
  <2>4. QED
    BY <1>9, <2>2, <2>3 DEF Firsts
<1>10. QED
  BY <1>8, <1>9

(* Each byte of what stands in a file is in it.                            *)
LEMMA StandingBytes ==
  ASSUME IsJob(job), NEW file \in Seq(Bytes), NEW at \in Nat,
         NEW bytes \in Seq(Bytes), Stands(file, at, bytes), NEW k \in 1..Len(bytes)
  PROVE  /\ at - job.base + k \in 1..Len(file)
         /\ file[at - job.base + k] = bytes[k]
<1> DEFINE from == at - job.base
           n == Len(bytes)
<1>1. from \in Nat /\ from + n <= Len(file) /\ SubSeq(file, from + 1, from + n) = bytes
  BY Zenon DEF Stands
<1>2. n \in Nat
  BY LenProperties
<1> HIDE DEF from
<1>3. \A i \in 1..n : SubSeq(file, from + 1, from + n)[i] = file[from + i]
  BY <1>1, <1>2, Part
<1>4. file[from + k] = bytes[k]
  BY <1>1, <1>3
<1>5. from + k \in 1..Len(file)
  BY <1>1, <1>2, LenProperties
<1>6. QED
  BY <1>4, <1>5 DEF from

(* The records of a condact that stands in a file are right about it.      *)
LEMMA CondactNamed ==
  ASSUME IsJob(job), NEW file \in Seq(Bytes), NEW at \in Nat,
         NEW q \in Nat, NEW f \in Nat, NEW i \in Nat, Body(q, f)[i] \in CONDACT,
         Stands(file, at, CondactBytes(Body(q, f)[i]))
  PROVE  CondRecords(q, f, i, at) \in Seq(NamedIn(file))
<1> DEFINE k == Body(q, f)[i]
           m == CondactBytes(k)
           r(a) == [proc |-> q, entry |-> f, cond |-> i, addr |-> a]
<1>1. k \in CONDACT /\ m \in Seq(Bytes)
  BY CondactBytesCounted
<1>2. /\ 1 \in 1..Len(m) /\ m[1] \in Firsts(k)
      /\ HasIndirPrefix(k) => 3 \in 1..Len(m) /\ m[3] \in Firsts(k)
  BY <1>1, CondactStarts
<1>3. job.base \in Nat
  BY DEF IsJob
<1> HIDE DEF m
<1>4. ASSUME NEW d \in Nat, d + 1 \in 1..Len(m), m[d + 1] \in Firsts(k)
      PROVE  r(at + d) \in NamedIn(file)
  <2> DEFINE rec == r(at + d)
             place == rec.addr - job.base + 1
  <2>1. rec \in RECORD
    BY DEF RECORD
  <2>2. /\ at - job.base + (d + 1) \in 1..Len(file)
        /\ file[at - job.base + (d + 1)] = m[d + 1]
    BY <1>1, <1>4, StandingBytes DEF m
  <2>3. place = at - job.base + (d + 1)
    BY <1>3
  <2>4. Body(rec.proc, rec.entry)[rec.cond] = k
    OBVIOUS
  <2> HIDE DEF rec, k
  <2>5. place \in 1..Len(file) /\ file[place] \in Firsts(k)
    BY <1>4, <2>2, <2>3, Zenon
  <2>6. QED
    BY <2>1, <2>4, <2>5, Zenon DEF NamedIn, rec
<1>5. r(at) \in NamedIn(file)
  <2>1. at + 0 = at /\ 0 + 1 = 1
    OBVIOUS
  <2>2. r(at + 0) \in NamedIn(file)
    BY <1>2, <1>4, <2>1
  <2>3. QED
    BY <2>1, <2>2
<1>6. CASE HasIndirPrefix(k)
  <2>1. r(at + 2) \in NamedIn(file)
    <3>1. 2 + 1 = 3
      OBVIOUS
    <3>2. QED
      BY <1>2, <1>4, <1>6, <3>1
  <2>2. CondRecords(q, f, i, at) = <<r(at), r(at + 2)>>
    BY <1>6 DEF CondRecords
  <2> HIDE DEF r
  <2>3. QED
    BY <1>5, <2>1, <2>2
<1>7. CASE ~HasIndirPrefix(k)
  <2>1. CondRecords(q, f, i, at) = <<r(at)>>
    BY <1>7 DEF CondRecords
  <2> HIDE DEF r
  <2>2. QED
    BY <1>5, <2>1
<1>8. QED
  BY <1>6, <1>7

(* What stands in the middle of what stands in a file.                     *)
LEMMA PartStands ==
  ASSUME IsJob(job), NEW file \in Seq(Bytes), NEW at \in Nat,
         NEW before \in Seq(Bytes), NEW m \in Seq(Bytes), NEW after \in Seq(Bytes),
         Stands(file, at, before \o (m \o after))
  PROVE  Stands(file, at + Len(before), m)
<1> DEFINE rest == m \o after
           whole == before \o rest
           from == at - job.base
           d == Len(before)
           n == Len(m)
           start == from + d
           part == SubSeq(file, start + 1, start + n)
<1>1. from \in Nat /\ from + Len(whole) <= Len(file)
  BY Zenon DEF Stands
<1>2. /\ rest \in Seq(Bytes) /\ n \in Nat /\ Len(after) \in Nat
      /\ Len(rest) = n + Len(after) /\ \A k \in 1..n : rest[k] = m[k]
  BY Concat
<1> HIDE DEF rest
<1>3. /\ whole \in Seq(Bytes) /\ d \in Nat /\ Len(whole) = d + Len(rest)
      /\ \A k \in 1..Len(rest) : whole[d + k] = rest[k]
  <2>1. /\ before \o rest \in Seq(Bytes) /\ Len(before) \in Nat
        /\ Len(before \o rest) = Len(before) + Len(rest)
        /\ \A k \in 1..Len(rest) : (before \o rest)[Len(before) + k] = rest[k]
    <3>1. rest \in Seq(Bytes) /\ before \in Seq(Bytes)
      BY <1>2
    <3>2. QED
      BY ONLY <3>1, Concat
  <2>2. QED
    BY <2>1, Zenon
<1>4. \A k \in 1..Len(whole) : file[from + k] = whole[k]
  <2> SUFFICES ASSUME NEW k \in 1..Len(whole) PROVE file[from + k] = whole[k]
    OBVIOUS
  <2>1. Stands(file, at, whole)
    BY DEF rest
  <2> HIDE DEF whole
  <2>2. QED
    BY <1>3, <2>1, StandingBytes
<1>5. start \in Nat /\ start + n <= Len(file)
  BY <1>1, <1>2, <1>3, LenProperties, SMTT(30)
<1> HIDE DEF from, d, n, whole, start
<1>6. /\ part \in Seq(Bytes) /\ Len(part) = n
      /\ \A k \in 1..n : part[k] = file[start + k]
  BY <1>2, <1>5, Part
<1>7. ASSUME NEW k \in 1..n PROVE part[k] = m[k]
  <2>1. k \in 1..Len(rest) /\ d + k \in 1..Len(whole) /\ from + (d + k) = start + k
    BY <1>1, <1>2, <1>3 DEF start
  <2>2. file[start + k] = whole[d + k]
    BY <1>4, <2>1
  <2>3. QED
    BY <1>2, <1>3, <1>6, <2>1, <2>2
<1> HIDE DEF part
<1>8. part = m
  BY <1>2, <1>6, <1>7, SeqEqual DEF n
<1> DEFINE place == at + d
<1>9. place - job.base = start
  <2>1. job.base \in Nat
    BY DEF IsJob
  <2>2. QED
    BY <1>3, <2>1 DEF from, start
<1> HIDE DEF place
<1>10. Stands(file, place, m)
  BY <1>5, <1>8, <1>9 DEF Stands, part, n
<1>11. QED
  BY <1>10 DEF d, place

(* The records of an entry laid over its own bytes, whoever wrote them.    *)
LEMMA SharedNamed ==
  ASSUME IsJob(job), NEW x \in EntryIds, NEW file \in Seq(Bytes), NEW at \in Nat,
         Stands(file, at, Code(x)[1])
  PROVE  SharedRecords(x[1], x[2], at) \in Seq(NamedIn(file))
<1> DEFINE b == Body(x[1], x[2])
           n == Len(b)
           S == Seq(NamedIn(file))
           walk == Dumped(b, job.debug, job.classic)
           Own(i) == CondRecords(x[1], x[2], i, at + Displacement(b, i, job.debug))
           Value(i, rest) == IF i \notin walk THEN rest ELSE Own(i) \o rest
           step == [y \in (1..n) \X S |-> Value(y[1], y[2])]
           Eq(f) == f = [i \in 1 .. n + 1 |-> IF i > n THEN <<>>
                                              ELSE Value(i, f[i + 1])]
           g == SharedFrom(x[1], x[2], at)
<1>1. /\ b \in Seq(CONDACT) /\ n \in Nat /\ DOMAIN b = 1..n
      /\ \A i \in 1..n : b[i] \in CONDACT
      /\ Code(x)[1] = EntryBytes(b, job.debug, job.classic)
      /\ x[1] \in Nat /\ x[2] \in Nat
  <2>1. x[1] \in Nat /\ x[2] \in Nat
    BY EntryIdsProperty, ProcsAreSequences
  <2>2. QED
    BY <2>1, BodyAndCode DEF Meaning
<1>2. \A i \in walk : i \in 1..n
  BY <1>1 DEF Dumped
<1>3. ASSUME NEW i \in walk PROVE Own(i) \in S
  <2>1. PICK before \in Seq(Bytes) : \E after \in Seq(Bytes) :
           /\ Len(before) = Displacement(b, i, job.debug)
           /\ EntryBytes(b, job.debug, job.classic)
                = before \o (CondactBytes(b[i]) \o after)
    <3>1. \A k \in Dumped(b, job.debug, job.classic) :
            \E before \in Seq(Bytes) : \E after \in Seq(Bytes) :
              /\ Len(before) = Displacement(b, k, job.debug)
              /\ EntryBytes(b, job.debug, job.classic)
                   = before \o (CondactBytes(b[k]) \o after)
      <4>1. b \in Seq(CONDACT)
        BY <1>1
      <4> HIDE DEF b
      <4>2. QED
        BY ONLY <4>1, DumpedStands, ZenonT(60)
    <3>2. i \in Dumped(b, job.debug, job.classic)
      BY <1>3
    <3> HIDE DEF b
    <3>3. QED
      BY <3>1, <3>2, Zenon
  <2>2. PICK after \in Seq(Bytes) :
           /\ Len(before) = Displacement(b, i, job.debug)
           /\ EntryBytes(b, job.debug, job.classic)
                = before \o (CondactBytes(b[i]) \o after)
    BY <2>1
  <2>3. i \in Nat /\ b[i] \in CONDACT /\ CondactBytes(b[i]) \in Seq(Bytes)
    BY <1>1, <1>2, CondactBytesCounted
  <2>4. Stands(file, at, before \o (CondactBytes(b[i]) \o after))
    BY <1>1, <2>2, Zenon
  <2>5. Stands(file, at + Len(before), CondactBytes(b[i]))
    BY <2>3, <2>4, PartStands
  <2>6. at + Len(before) \in Nat
    BY LenProperties
  <2>7. QED
    BY <1>1, <2>2, <2>3, <2>5, <2>6, CondactNamed
<1> HIDE DEF Own, walk, S, n
<1>4. \A i \in 1..n : \A rest \in S : Value(i, rest) \in S
  <2> SUFFICES ASSUME NEW i \in 1..n, NEW rest \in S PROVE Value(i, rest) \in S
    OBVIOUS
  <2>1. CASE i \notin walk
    BY <2>1
  <2>2. CASE i \in walk
    <3>1. Own(i) \o rest \in S
      BY <1>3, <2>2, ConcatProperties DEF S
    <3>2. QED
      BY <2>2, <3>1
  <2>3. QED
    BY <2>1, <2>2
<1>5. step \in [(1..n) \X S -> S]
  <2> HIDE DEF Value
  <2>1. QED
    BY <1>4
<1>6. \A i \in 1..n : \A rest \in S : step[<<i, rest>>] = Value(i, rest)
  <2> HIDE DEF Value
  <2>1. QED
    OBVIOUS
<1> HIDE DEF step
<1>7. PICK f \in [1 .. n + 1 -> S] :
         f[n + 1] = <<>> /\ \A i \in 1..n : f[i] = step[<<i, f[i + 1]>>]
  <2>1. <<>> \in S
    BY DEF S
  <2>2. \E f : IsBackward(f, n, S, <<>>, step)
    BY <1>1, <1>5, <2>1, BackwardRecursion, Zenon
  <2>3. QED
    BY <2>2 DEF IsBackward
<1>8. \A i \in 1..n : f[i] = Value(i, f[i + 1])
  <2> HIDE DEF Value
  <2>1. \A i \in 1..n : f[i + 1] \in S
    BY <1>1, <1>7
  <2>2. QED
    BY <1>6, <1>7, <2>1
<1>9. Eq(f)
  <2> HIDE DEF Value
  <2>1. ASSUME NEW i \in 1 .. n + 1
        PROVE  f[i] = IF i > n THEN <<>> ELSE Value(i, f[i + 1])
    <3>1. CASE i = n + 1
      BY <1>1, <1>7, <3>1
    <3>2. CASE i # n + 1
      BY <1>1, <1>8, <3>2
    <3>3. QED
      BY <3>1, <3>2
  <2>2. QED
    BY <1>7, <2>1
<1>10. Eq(g)
  BY <1>9, Zenon DEF SharedFrom, walk, n, Own
<1>11. /\ g[n + 1] = <<>>
       /\ \A i \in 1..n : g[i] = Value(i, g[i + 1])
  <2> HIDE DEF Value, g
  <2>1. \A i \in 1 .. n + 1 : g[i] = IF i > n THEN <<>> ELSE Value(i, g[i + 1])
    BY <1>10, Zenon
  <2>2. QED
    BY <1>1, <2>1, SMTT(30)
<1>12. g[1] \in S
  <2> HIDE DEF Value, g
  <2> DEFINE U == {m \in Nat : m <= n => g[n + 1 - m] \in S}
  <2>1. 0 \in U
    <3>1. n + 1 - 0 = n + 1 /\ <<>> \in S
      BY <1>1 DEF S
    <3>2. QED
      BY <1>11, <3>1
  <2>2. ASSUME NEW m \in U PROVE m + 1 \in U
    <3> SUFFICES ASSUME m + 1 <= n PROVE g[n + 1 - (m + 1)] \in S
      BY <2>2
    <3>1. n - m \in 1..n /\ n + 1 - (m + 1) = n - m /\ n - m + 1 = n + 1 - m
      BY <1>1, <2>2
    <3>2. g[n + 1 - m] \in S
      BY <1>1, <2>2
    <3>3. g[n - m] = Value(n - m, g[n - m + 1])
      BY <1>11, <3>1
    <3>4. QED
      BY <1>4, <3>1, <3>2, <3>3
  <2>3. U = Nat
    <3>1. U \subseteq Nat
      OBVIOUS
    <3> HIDE DEF U
    <3>2. QED
      BY <2>1, <2>2, <3>1, Induction
  <2>4. n \in U /\ n + 1 - n = 1
    <3> HIDE DEF U
    <3>1. QED
      BY <1>1, <2>3
  <2>5. QED
    BY <2>4
<1>13. QED
  BY <1>12 DEF SharedRecords, S

(* Appending keeps the records right; those appended are right too.        *)
LEMMA RecordsNamedStep ==
  IndInv /\ CodeInv /\ HashesTell /\ RecordsNamed /\ [Next]_vars => RecordsNamed'
<1> SUFFICES ASSUME IndInv, CodeInv, HashesTell, RecordsNamed, [Next]_vars
             PROVE  RecordsNamed'
  OBVIOUS
<1>1. /\ IsJob(job) /\ job' = job /\ out \in Seq(Bytes) /\ addr \in Nat
      /\ p \in Nat \ {0} /\ e \in Nat \ {0} /\ c \in Nat
      /\ addr = job.base + Len(out)
  BY JobKept DEF IndInv, TypeOK, AddrCountsBytes
<1>2. PICK s \in Seq(Bytes) : out' = out \o s
  BY PromiseGrows DEF CodeInv
<1> DEFINE S == NamedIn(out \o s)
<1>3. out \o s \in Seq(Bytes)
  BY <1>1, ConcatBytes
<1>4. NamedIn(out)' = S
  BY <1>1, <1>2 DEF NamedIn, Body, Entry
<1>5. NamedIn(out) \subseteq S
  <2> SUFFICES ASSUME NEW r \in NamedIn(out) PROVE r \in S
    OBVIOUS
  <2> DEFINE place == r.addr - job.base + 1
  <2>1. r \in RECORD /\ place \in 1..Len(out)
        /\ out[place] \in Firsts(Body(r.proc, r.entry)[r.cond])
    BY DEF NamedIn
  <2> HIDE DEF place
  <2>2. place \in 1..Len(out \o s) /\ (out \o s)[place] = out[place]
    <3>1. /\ Len(out) \in Nat /\ Len(s) \in Nat
          /\ Len(out \o s) = Len(out) + Len(s)
          /\ \A k \in 1..Len(out) : (out \o s)[k] = out[k]
      BY <1>1, Concat
    <3>2. QED
      BY <2>1, <3>1
  <2>3. place \in 1..Len(out \o s)
        /\ (out \o s)[place] \in Firsts(Body(r.proc, r.entry)[r.cond])
    BY <2>1, <2>2, Zenon
  <2>4. QED
    BY <2>1, <2>3, Zenon DEF NamedIn, place
<1>6. conds \in Seq(S)
  BY <1>5, SeqOfMore DEF RecordsNamed
<1>7. CASE ShareBody
  <2> DEFINE h == Hash(p, e, 1)
             x == <<p, e>>
             new == SharedRecords(p, e, hashMap[h])
  <2>1. /\ AtEntry /\ ~job.classic /\ h # <<>> /\ hashMap[h] # NoOffset
        /\ conds' = conds \o new
    BY <1>7, Zenon DEF ShareBody
  <2>2. /\ x \in EntryIds /\ Stands(Promised, hashMap[h], Code(x)[1])
        /\ x[1] = p /\ x[2] = e
    BY <1>7, SharedStands
  <2>3. hashMap[h] \in Nat
    <3>1. h \in DOMAIN hashMap
      BY <2>1, HashRegistered
    <3>2. hashMap[h] \in Nat \cup {NoOffset}
      BY <3>1 DEF IndInv, TypeOK
    <3>3. QED
      BY <2>1, <3>2
  <2>4. Promised = out
    <3>1. c = 0
      BY <2>1 DEF AtEntry
    <3>2. QED
      BY <1>1, <3>1 DEF Promised, Rest
  <2>5. new \in Seq(NamedIn(out))
    <3>1. Stands(out, hashMap[h], Code(x)[1])
      BY <2>2, <2>4
    <3>2. SharedRecords(x[1], x[2], hashMap[h]) \in Seq(NamedIn(out))
      BY <1>1, <2>2, <2>3, <3>1, SharedNamed
    <3>3. QED
      BY <2>2, <3>2
  <2>6. new \in Seq(S)
    BY <1>5, <2>5, SeqOfMore
  <2> HIDE DEF new, S
  <2>7. conds' \in Seq(S)
    BY <1>6, <2>1, <2>6, ConcatProperties
  <2>8. QED
    BY <1>4, <2>7 DEF RecordsNamed
<1>8. CASE EmitCondact
  <2> DEFINE k == Body(p, e)[c]
             m == CondactBytes(k)
             new == CondRecords(p, e, c, addr)
  <2>1. /\ InBody /\ c <= Len(Body(p, e)) /\ out' = out \o m /\ conds' = conds \o new
    BY <1>8, Zenon DEF EmitCondact
  <2>2. k \in CONDACT /\ m \in Seq(Bytes)
    <3>1. k \in CONDACT
      BY <1>1, <2>1, CurrentEntry DEF InBody
    <3>2. QED
      BY <3>1, CondactBytesCounted
  <2>3. Stands(out \o s, addr, m)
    <3> HIDE DEF m
    <3>1. Stands(out \o m, addr, m)
      BY <1>1, <2>2, AppendedStands
    <3>2. QED
      BY <1>2, <2>1, <3>1
  <2>4. new \in Seq(S)
    BY <1>1, <1>3, <2>2, <2>3, CondactNamed
  <2> HIDE DEF new, S
  <2>5. conds' \in Seq(S)
    BY <1>6, <2>1, <2>4, ConcatProperties
  <2>6. QED
    BY <1>4, <2>5 DEF RecordsNamed
<1>9. CASE UNCHANGED conds
  BY <1>4, <1>6, <1>9 DEF RecordsNamed
<1>10. ShareBody \/ EmitCondact \/ UNCHANGED conds
  BY Zenon DEF Next, RegisterTails, OpenBody, SkipCondact, CloseBody, NextProcess,
     StartRows, WriteRow, EndRows, StartVector, WriteVector, Finish, Done, vars
<1>11. QED
  BY <1>7, <1>8, <1>9, <1>10

(* Whatever is compiled while HashesTell, each record of -srcmap names     *)
(* the address of its own condact's first byte or of its opcode, also in   *)
(* the bytes of another entry that map_shared lays it over.                *)
THEOREM MapNamesOpcodes == HashesTell /\ Spec => []SrcMapNamesOpcodes
<1>1. Init => RecordsNamed
  BY DEF Init, RecordsNamed
<1>2. IndInv /\ RecordsNamed => SrcMapNamesOpcodes
  <2> SUFFICES ASSUME IndInv, RecordsNamed, NEW i \in DOMAIN conds
               PROVE  ByteAt(conds[i].addr)
                        \in Firsts(Body(conds[i].proc, conds[i].entry)[conds[i].cond])
    BY Zenon DEF SrcMapNamesOpcodes, Firsts
  <2>1. conds[i] \in NamedIn(out)
    BY DEF RecordsNamed
  <2>2. QED
    BY <2>1, Zenon DEF NamedIn, ByteAt
<1>3. QED
  BY <1>1, <1>2, CodeInvariance, RecordsNamedStep, PTL DEF Spec

==============================================================================
