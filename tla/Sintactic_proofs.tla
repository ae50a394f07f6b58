-------------------------- MODULE Sintactic_proofs --------------------------
(***************************************************************************)
(* Proofs about the process section of the parser (Sintactic).             *)
(***************************************************************************)
EXTENDS Sintactic, Basics

-----------------------------------------------------------------------------
(* The conditional blocks.                                                 *)

(* What a block is, named so that the provers take it for a plain value.   *)
Live == TRUE
Dead == FALSE
Kinds == {Live, Dead}

(* The blocks that two counters stand for: n of them, the last one not     *)
(* taken when d is not 0, and d - 1 more inside it.                        *)
OpenBlocks(n, d) ==
  [i \in 1..n + (IF d > 0 THEN d - 1 ELSE 0) |-> IF d = 0 \/ i < n THEN Live ELSE Dead]

(* Text is obeyed exactly when nothing is skipped.                         *)
LEMMA BlocksTyped ==
  ASSUME NEW n \in Nat, NEW d \in Nat, d > 0 => n > 0
  PROVE  /\ OpenBlocks(n, d) \in Seq(Kinds)
         /\ Len(OpenBlocks(n, d)) = n + (IF d > 0 THEN d - 1 ELSE 0)
         /\ Len(OpenBlocks(n, d)) \in Nat
         /\ \A i \in 1..Len(OpenBlocks(n, d)) :
              OpenBlocks(n, d)[i] = IF d = 0 \/ i < n THEN Live ELSE Dead
         /\ (\A i \in DOMAIN OpenBlocks(n, d) : OpenBlocks(n, d)[i] = Live) <=> d = 0
<1> DEFINE s == OpenBlocks(n, d)
           m == n + (IF d > 0 THEN d - 1 ELSE 0)
<1>1. m \in Nat
  OBVIOUS
<1>2. s = [i \in 1..m |-> IF d = 0 \/ i < n THEN Live ELSE Dead]
  BY DEF OpenBlocks
<1> HIDE DEF m, s
<1>3. s \in Seq(Kinds) /\ Len(s) = m /\ DOMAIN s = 1..m
  BY <1>1, <1>2 DEF Kinds
<1>4. \A i \in 1..m : s[i] = IF d = 0 \/ i < n THEN Live ELSE Dead
  BY <1>1, <1>2
<1>5. (\A i \in DOMAIN s : s[i] = Live) <=> d = 0
  <2>1. CASE d = 0
    BY <1>3, <1>4, <2>1
  <2>2. CASE d # 0
    <3>1. n \in 1..m
      BY <2>2 DEF m
    <3>2. s[n] = Dead
      BY <1>4, <2>2, <3>1
    <3>3. Dead # Live
      BY DEF Dead, Live
    <3>4. QED
      BY <1>3, <2>2, <3>1, <3>2, <3>3
  <2>3. QED
    BY <2>1, <2>2
<1>6. QED
  BY <1>1, <1>3, <1>4, <1>5 DEF s, m

(* The same, to be cited for any two counters.                             *)
LEMMA BlocksAt ==
  \A a, b \in Nat : (b > 0 => a > 0) =>
    /\ Len(OpenBlocks(a, b)) = a + (IF b > 0 THEN b - 1 ELSE 0)
    /\ \A i \in 1..Len(OpenBlocks(a, b)) :
         OpenBlocks(a, b)[i] = IF b = 0 \/ i < a THEN Live ELSE Dead
BY BlocksTyped, Zenon

(* An #ifdef opens one block more, a dead one inside a dead one.           *)
LEMMA BlockOpened ==
  ASSUME NEW n \in Nat, NEW d \in Nat, d > 0 => n > 0
  PROVE  /\ d > 0 => OpenBlocks(n, d + 1) = Append(OpenBlocks(n, d), Dead)
         /\ d = 0 => OpenBlocks(n + 1, 0) = Append(OpenBlocks(n, d), Live)
         /\ d = 0 => OpenBlocks(n + 1, 1) = Append(OpenBlocks(n, d), Dead)
<1> DEFINE s == OpenBlocks(n, d)
<1>1. ASSUME NEW a \in Nat, NEW b \in Nat, b > 0 => a > 0, NEW t \in Kinds,
             Len(OpenBlocks(a, b)) = Len(s) + 1,
             \A i \in 1..Len(s) : OpenBlocks(a, b)[i] = s[i],
             OpenBlocks(a, b)[Len(s) + 1] = t
      PROVE  OpenBlocks(a, b) = Append(s, t)
  <2> DEFINE r == OpenBlocks(a, b)
  <2>1. r \in Seq(Kinds) /\ s \in Seq(Kinds) /\ Len(s) \in Nat
    BY <1>1, BlocksTyped
  <2> HIDE DEF r, s
  <2>2. /\ Append(s, t) \in Seq(Kinds) /\ Len(Append(s, t)) = Len(s) + 1
        /\ \A i \in 1..Len(s) : Append(s, t)[i] = s[i]
        /\ Append(s, t)[Len(s) + 1] = t
    BY <1>1, <2>1, AppendProperties
  <2>3. Len(r) = Len(s) + 1 /\ \A i \in 1 .. Len(s) + 1 : r[i] = Append(s, t)[i]
    BY <1>1, <2>1, <2>2 DEF r
  <2>4. r = Append(s, t)
    BY <2>1, <2>2, <2>3, SeqEqual
  <2>5. QED
    BY <2>4 DEF r
<1>2. /\ Len(s) = n + (IF d > 0 THEN d - 1 ELSE 0)
      /\ \A i \in 1..Len(s) : s[i] = IF d = 0 \/ i < n THEN Live ELSE Dead
  BY BlocksTyped
<1> HIDE DEF s
<1>3. ASSUME d > 0 PROVE OpenBlocks(n, d + 1) = Append(s, Dead)
  <2>1. /\ Len(OpenBlocks(n, d + 1)) = n + d
        /\ \A i \in 1 .. n + d : OpenBlocks(n, d + 1)[i] = IF i < n THEN Live ELSE Dead
    <3> DEFINE a == n
               b == d + 1
    <3>1. a \in Nat /\ b \in Nat /\ (b > 0 => a > 0) /\ a = n /\ b = d + 1
      BY <1>3
    <3> HIDE DEF a, b
    <3>2. /\ Len(OpenBlocks(a, b)) = a + (IF b > 0 THEN b - 1 ELSE 0)
          /\ \A i \in 1..Len(OpenBlocks(a, b)) :
               OpenBlocks(a, b)[i] = IF b = 0 \/ i < a THEN Live ELSE Dead
      BY <3>1, BlocksAt, ZenonT(30)
    <3>3. QED
      BY <1>3, <3>1, <3>2
  <2>2. /\ Len(s) + 1 = n + d /\ n + d \in 1 .. n + d /\ ~(n + d < n)
        /\ \A i \in 1..Len(s) : i \in 1 .. n + d /\ s[i] = IF i < n THEN Live ELSE Dead
    BY <1>2, <1>3
  <2>3. QED
    BY <1>1, <1>3, <2>1, <2>2, SMTT(30) DEF Kinds
<1>4. ASSUME d = 0 PROVE OpenBlocks(n + 1, 0) = Append(s, Live)
  <2>1. /\ Len(OpenBlocks(n + 1, 0)) = n + 1
        /\ \A i \in 1 .. n + 1 : OpenBlocks(n + 1, 0)[i] = Live
    <3> DEFINE a == n + 1
               b == 0
    <3>1. a \in Nat /\ b \in Nat /\ (b > 0 => a > 0) /\ a = n + 1 /\ b = 0
      OBVIOUS
    <3> HIDE DEF a, b
    <3>2. /\ Len(OpenBlocks(a, b)) = a + (IF b > 0 THEN b - 1 ELSE 0)
          /\ \A i \in 1..Len(OpenBlocks(a, b)) :
               OpenBlocks(a, b)[i] = IF b = 0 \/ i < a THEN Live ELSE Dead
      BY <3>1, BlocksAt, ZenonT(30)
    <3>3. QED
      BY <3>1, <3>2
  <2>2. /\ Len(s) = n /\ n + 1 \in 1 .. n + 1
        /\ \A i \in 1..Len(s) : i \in 1 .. n + 1 /\ s[i] = Live
    BY <1>2, <1>4
  <2>3. QED
    BY <1>1, <2>1, <2>2 DEF Kinds
<1>5. ASSUME d = 0 PROVE OpenBlocks(n + 1, 1) = Append(s, Dead)
  <2>1. /\ Len(OpenBlocks(n + 1, 1)) = n + 1
        /\ \A i \in 1 .. n + 1 : OpenBlocks(n + 1, 1)[i] = IF i < n + 1 THEN Live ELSE Dead
    <3> DEFINE a == n + 1
               b == 1
    <3>1. a \in Nat /\ b \in Nat /\ (b > 0 => a > 0) /\ a = n + 1 /\ b = 1
      OBVIOUS
    <3> HIDE DEF a, b
    <3>2. /\ Len(OpenBlocks(a, b)) = a + (IF b > 0 THEN b - 1 ELSE 0)
          /\ \A i \in 1..Len(OpenBlocks(a, b)) :
               OpenBlocks(a, b)[i] = IF b = 0 \/ i < a THEN Live ELSE Dead
      BY <3>1, BlocksAt, ZenonT(30)
    <3>3. QED
      BY <3>1, <3>2
  <2>2. /\ Len(s) = n /\ n + 1 \in 1 .. n + 1 /\ ~(n + 1 < n + 1)
        /\ \A i \in 1..Len(s) : i \in 1 .. n + 1 /\ i < n + 1 /\ s[i] = Live
    BY <1>2, <1>5
  <2>3. QED
    BY <1>1, <2>1, <2>2 DEF Kinds
<1>6. QED
  BY <1>3, <1>4, <1>5 DEF s

OuterOf(s) == SubSeq(s, 1, Len(s) - 1)

(* An #endif takes the last block away; an #else of the block skipped, or  *)
(* of one that is obeyed, turns it over.                                   *)
LEMMA BlockClosed ==
  ASSUME NEW n \in Nat, NEW d \in Nat, n > 0
  PROVE  /\ OpenBlocks(n, d) # <<>>
         /\ OpenBlocks(n, d)[Len(OpenBlocks(n, d))] = IF d = 0 THEN Live ELSE Dead
         /\ d > 1 => OuterOf(OpenBlocks(n, d)) = OpenBlocks(n, d - 1)
         /\ d \in {0, 1} => OuterOf(OpenBlocks(n, d)) = OpenBlocks(n - 1, 0)
<1> DEFINE s == OpenBlocks(n, d)
<1>1. /\ s \in Seq(Kinds)
      /\ Len(s) = n + (IF d > 0 THEN d - 1 ELSE 0) /\ Len(s) \in Nat
      /\ \A i \in 1..Len(s) : s[i] = IF d = 0 \/ i < n THEN Live ELSE Dead
  BY BlocksTyped
<1> HIDE DEF s
<1>2. s # <<>> /\ s[Len(s)] = IF d = 0 THEN Live ELSE Dead
  BY <1>1
<1>3. ASSUME NEW a \in Nat, NEW b \in Nat, b > 0 => a > 0,
             Len(OpenBlocks(a, b)) = Len(s) - 1,
             \A i \in 1..Len(OpenBlocks(a, b)) : OpenBlocks(a, b)[i] = s[i]
      PROVE  OuterOf(s) = OpenBlocks(a, b)
  <2> DEFINE r == OpenBlocks(a, b)
             m == Len(s) - 1
             o == SubSeq(s, 1, m)
  <2>1. r \in Seq(Kinds) /\ m \in Nat /\ 0 + m <= Len(s)
    <3>1. r \in Seq(Kinds) /\ Len(r) \in Nat
      BY <1>3, BlocksTyped
    <3>2. Len(r) = m
      BY <1>3
    <3> HIDE DEF r
    <3>3. QED
      BY <1>1, <3>1, <3>2
  <2>2. /\ SubSeq(s, 0 + 1, 0 + m) \in Seq(Kinds)
        /\ Len(SubSeq(s, 0 + 1, 0 + m)) = m
        /\ \A i \in 1..m : SubSeq(s, 0 + 1, 0 + m)[i] = s[0 + i]
    <3> HIDE DEF m
    <3>1. QED
      BY <1>1, <2>1, Part
  <2>3. 0 + 1 = 1 /\ 0 + m = m /\ \A i \in 1..m : 0 + i = i
    BY <2>1
  <2> HIDE DEF r, m
  <2>4. o \in Seq(Kinds) /\ Len(o) = m /\ \A i \in 1..m : o[i] = s[i]
    BY <2>2, <2>3
  <2> HIDE DEF o
  <2>5. Len(r) = m /\ \A i \in 1..m : o[i] = r[i]
    BY <1>3, <2>4 DEF r, m
  <2>6. o = r
    BY <2>1, <2>4, <2>5, SeqEqual
  <2>7. QED
    BY <2>6 DEF o, m, r, OuterOf
<1>4. ASSUME d > 1 PROVE OuterOf(s) = OpenBlocks(n, d - 1)
  <2>1. /\ d - 1 \in Nat /\ d - 1 > 0 /\ Len(OpenBlocks(n, d - 1)) = n + (d - 1 - 1)
        /\ \A i \in 1..Len(OpenBlocks(n, d - 1)) :
             OpenBlocks(n, d - 1)[i] = IF d - 1 = 0 \/ i < n THEN Live ELSE Dead
    <3> DEFINE a == n
               b == d - 1
    <3>1. a \in Nat /\ b \in Nat /\ (b > 0 => a > 0) /\ a = n /\ b = d - 1
      BY <1>4
    <3> HIDE DEF a, b
    <3>2. /\ Len(OpenBlocks(a, b)) = a + (IF b > 0 THEN b - 1 ELSE 0)
          /\ \A i \in 1..Len(OpenBlocks(a, b)) :
               OpenBlocks(a, b)[i] = IF b = 0 \/ i < a THEN Live ELSE Dead
      BY <3>1, BlocksAt, ZenonT(30)
    <3>3. QED
      BY <1>4, <3>1, <3>2
  <2>2. /\ Len(OpenBlocks(n, d - 1)) = Len(s) - 1
        /\ \A i \in 1..Len(OpenBlocks(n, d - 1)) : OpenBlocks(n, d - 1)[i] = s[i]
    <3> DEFINE r == OpenBlocks(n, d - 1)
    <3>1. Len(r) = n + (d - 1 - 1)
          /\ \A i \in 1..Len(r) : r[i] = IF d - 1 = 0 \/ i < n THEN Live ELSE Dead
      BY <2>1
    <3> HIDE DEF r
    <3>2. Len(r) = Len(s) - 1 /\ \A i \in 1..Len(r) : r[i] = s[i]
      BY <1>1, <1>4, <3>1
    <3>3. QED
      BY <3>2 DEF r
  <2>3. d - 1 > 0 => n > 0
    OBVIOUS
  <2>4. QED
    BY <1>3, <2>1, <2>2, <2>3, Zenon
<1>5. ASSUME d \in {0, 1} PROVE OuterOf(s) = OpenBlocks(n - 1, 0)
  <2>1. /\ n - 1 \in Nat /\ Len(OpenBlocks(n - 1, 0)) = n - 1
        /\ \A i \in 1..Len(OpenBlocks(n - 1, 0)) : OpenBlocks(n - 1, 0)[i] = Live
    <3> DEFINE a == n - 1
               b == 0
    <3>1. a \in Nat /\ b \in Nat /\ (b > 0 => a > 0) /\ a = n - 1 /\ b = 0
      OBVIOUS
    <3> HIDE DEF a, b
    <3>2. /\ Len(OpenBlocks(a, b)) = a + (IF b > 0 THEN b - 1 ELSE 0)
          /\ \A i \in 1..Len(OpenBlocks(a, b)) :
               OpenBlocks(a, b)[i] = IF b = 0 \/ i < a THEN Live ELSE Dead
      BY <3>1, BlocksAt, ZenonT(30)
    <3>3. QED
      BY <3>1, <3>2
  <2>2. /\ Len(OpenBlocks(n - 1, 0)) = Len(s) - 1
        /\ \A i \in 1..Len(OpenBlocks(n - 1, 0)) : OpenBlocks(n - 1, 0)[i] = s[i]
    BY <1>1, <1>5, <2>1
  <2>3. 0 \in Nat /\ (0 > 0 => n - 1 > 0)
    OBVIOUS
  <2>4. QED
    BY <1>3, <2>1, <2>2, <2>3, Zenon
<1>6. QED
  BY <1>2, <1>4, <1>5 DEF s

(* The counters and what has been accepted.                                *)
Counted ==
  /\ nested \in Nat /\ depth \in Nat
  /\ depth > 0 => nested > 0
  /\ status \in {"parsing", "fixing", "done", "failed"}
  /\ status \in {"fixing", "done"} => nested = 0 /\ depth = 0

Accepted == status \in {"fixing", "done"}

(* The state of Conditionals, in terms of the counters.                    *)
LEMMA Mapped ==
  \A n, d \in Nat :
    OpenBlocks(n, d) = [i \in 1..n + (IF d > 0 THEN d - 1 ELSE 0) |-> ~(d > 0) \/ i < n]
<1> SUFFICES ASSUME NEW n \in Nat, NEW d \in Nat
             PROVE  OpenBlocks(n, d) = [i \in 1..n + (IF d > 0 THEN d - 1 ELSE 0)
                                         |-> ~(d > 0) \/ i < n]
  BY Zenon
<1> DEFINE m == n + (IF d > 0 THEN d - 1 ELSE 0)
<1>1. \A i \in 1..m : (~(d > 0) \/ i < n) = IF d = 0 \/ i < n THEN Live ELSE Dead
  <2> SUFFICES ASSUME NEW i \in 1..m
               PROVE  (~(d > 0) \/ i < n) = IF d = 0 \/ i < n THEN Live ELSE Dead
    OBVIOUS
  <2>1. (~(d > 0) \/ i < n) <=> (d = 0 \/ i < n)
    OBVIOUS
  <2>2. CASE d = 0 \/ i < n
    BY <2>1, <2>2 DEF Live
  <2>3. CASE ~(d = 0 \/ i < n)
    BY <2>1, <2>3 DEF Dead
  <2>4. QED
    BY <2>2, <2>3
<1>2. OpenBlocks(n, d) = [i \in 1..m |-> IF d = 0 \/ i < n THEN Live ELSE Dead]
  BY DEF OpenBlocks
<1> HIDE DEF m
<1>3. QED
  BY <1>1, <1>2, Zenon DEF m

(* All of a row of blocks is live exactly when nothing is skipped.         *)
LEMMA AllLive ==
  \A n, d \in Nat : (d > 0 => n > 0) =>
    ((\A i \in DOMAIN OpenBlocks(n, d) : OpenBlocks(n, d)[i]) <=> d = 0)
<1> SUFFICES ASSUME NEW n \in Nat, NEW d \in Nat, d > 0 => n > 0
             PROVE  (\A i \in DOMAIN OpenBlocks(n, d) : OpenBlocks(n, d)[i]) <=> d = 0
  BY Zenon
<1> DEFINE s == OpenBlocks(n, d)
<1>1. s \in Seq(Kinds) /\ ((\A i \in DOMAIN s : s[i] = Live) <=> d = 0)
  BY BlocksTyped
<1> HIDE DEF s
<1>2. \A i \in DOMAIN s : s[i] \in {TRUE, FALSE}
  BY <1>1, ElementOfSeq, LenProperties DEF Kinds, Live, Dead
<1>3. \A i \in DOMAIN s : s[i] <=> s[i] = Live
  BY <1>2, Zenon DEF Live
<1>4. (\A i \in DOMAIN s : s[i]) <=> d = 0
  BY <1>1, <1>3, Zenon
<1>5. QED
  BY <1>4 DEF s

(* What each kind of token does to the counters.                           *)
LEMMA TokenCounts ==
  ASSUME Counted, NEW tok, Parse(tok)
  PROVE  /\ status = "parsing"
         /\ \/ /\ depth > 0 /\ tok.t = "if" /\ depth' = depth + 1 /\ nested' = nested
               /\ UNCHANGED <<parsed, status>>
            \/ /\ depth = 1 /\ tok.t = "endif" /\ depth' = 0 /\ nested' = nested - 1
               /\ UNCHANGED <<parsed, status>>
            \/ /\ depth > 1 /\ tok.t = "endif" /\ depth' = depth - 1 /\ nested' = nested
               /\ UNCHANGED <<parsed, status>>
            \/ /\ depth = 1 /\ tok.t = "else" /\ depth' = 0 /\ nested' = nested
               /\ UNCHANGED <<parsed, status>>
            \/ /\ depth = 0 /\ tok.t = "if" /\ nested' = nested + 1 /\ depth' \in {0, 1}
               /\ UNCHANGED <<parsed, status>>
            \/ /\ depth = 0 /\ tok.t = "else" /\ nested > 0
               /\ depth' = 1 /\ nested' = nested
               /\ UNCHANGED <<parsed, status>>
            \/ /\ depth = 0 /\ tok.t = "endif" /\ nested > 0
               /\ depth' = 0 /\ nested' = nested - 1
               /\ UNCHANGED <<parsed, status>>
            \/ /\ UNCHANGED <<nested, depth, parsed>> /\ status' \in {"parsing", "failed"}
            \/ /\ depth = 0 /\ UNCHANGED <<nested, depth>>
               /\ status' \in {"parsing", "failed"} \/ (status' = "fixing" /\ nested = 0)
<1>1. nested \in Nat /\ depth \in Nat
  BY DEF Counted
<1>2. status = "parsing"
  BY Zenon DEF Parse, Skip, If, Else, Endif, Define, Classic, ParseProcess, ParseEntry,
     ParseVerbNoun, ParseSynonym, EndEntry, LabelInEntry, BehindLabel, ParseBytes,
     UserPtr, ParseCondact, UnknownCondact, Indirection, NumberParam, TextParam,
     BackLabel, ForwardLabel, BadParam, Delivered, Token
<1>3. CASE Skip(tok)
  <2>1. /\ depth > 0 /\ UNCHANGED <<parsed, status>>
        /\ CASE tok.t = "if" -> depth' = depth + 1 /\ UNCHANGED nested
             [] tok.t = "endif" ->
                  /\ depth' = depth - 1
                  /\ nested' = IF depth = 1 THEN nested - 1 ELSE nested
             [] tok.t = "else" /\ depth = 1 -> depth' = 0 /\ UNCHANGED nested
             [] OTHER -> UNCHANGED <<nested, depth>>
    BY <1>3 DEF Skip, Skipping
  <2>2. CASE tok.t = "if"
    BY <1>2, <2>1, <2>2
  <2>3. CASE tok.t = "endif"
    <3>1. depth' = depth - 1 /\ nested' = IF depth = 1 THEN nested - 1 ELSE nested
      BY <2>1, <2>3
    <3>2. CASE depth = 1
      BY <1>1, <1>2, <2>1, <2>3, <3>1, <3>2
    <3>3. CASE depth # 1
      <4>1. depth > 1
        BY <1>1, <2>1, <3>3
      <4>2. QED
        BY <1>2, <2>1, <2>3, <3>1, <3>3, <4>1
    <3>4. QED
      BY <3>2, <3>3
  <2>4. CASE tok.t = "else" /\ depth = 1
    BY <1>2, <2>1, <2>4
  <2>5. CASE ~(tok.t = "if") /\ ~(tok.t = "endif") /\ ~(tok.t = "else" /\ depth = 1)
    <3>1. UNCHANGED <<nested, depth>>
      BY <2>1, <2>5
    <3>2. QED
      BY <1>2, <2>1, <3>1
  <2>6. QED
    BY <2>2, <2>3, <2>4, <2>5
<1>4. CASE If(tok)
  <2>1. depth = 0 /\ tok.t = "if"
    BY <1>1, <1>4 DEF If, Skipping
  <2>2. CASE "name" \notin DOMAIN tok
    BY <1>2, <1>4, <2>2 DEF If, Fail
  <2>3. CASE ~("name" \notin DOMAIN tok)
    <3>1. /\ nested' = nested + 1 /\ depth' = IF Taken(tok) THEN 0 ELSE 1
          /\ UNCHANGED <<parsed, status>>
      BY <1>4, <2>3 DEF If
    <3>2. depth' \in {0, 1}
      BY <3>1
    <3>3. QED
      BY <1>2, <2>1, <3>1, <3>2
  <2>4. QED
    BY <2>2, <2>3
<1>5. CASE Else(tok)
  <2>1. depth = 0 /\ tok.t = "else"
    BY <1>1, <1>5 DEF Else, Skipping
  <2>2. CASE nested = 0
    BY <1>2, <1>5, <2>2 DEF Else, Fail
  <2>3. CASE nested # 0
    <3>1. depth' = 1 /\ UNCHANGED <<nested, parsed, status>> /\ nested > 0
      BY <1>1, <1>5, <2>3 DEF Else
    <3>2. QED
      BY <1>2, <2>1, <3>1
  <2>4. QED
    BY <2>2, <2>3
<1>6. CASE Endif(tok)
  <2>1. depth = 0 /\ tok.t = "endif"
    BY <1>1, <1>6 DEF Endif, Skipping
  <2>2. CASE nested = 0
    BY <1>2, <1>6, <2>2 DEF Endif, Fail
  <2>3. CASE nested # 0
    <3>1. nested' = nested - 1 /\ UNCHANGED <<depth, parsed, status>> /\ nested > 0
      BY <1>1, <1>6, <2>3 DEF Endif
    <3>2. QED
      BY <1>2, <2>1, <3>1
  <2>4. QED
    BY <2>2, <2>3
<1>7. CASE Define(tok) \/ Classic(tok)
  <2>1. /\ depth = 0 /\ nested' = nested /\ depth' = depth
        /\ status' = status \/ status' = "failed"
    BY <1>1, <1>7 DEF Define, Classic, Skipping, Fail
  <2>2. QED
    BY <1>2, <2>1
<1>8. CASE ParseEntry(tok) \/ EndEntry(tok) \/ BehindLabel(tok)
  <2>1. PICK a : EntryStarts(tok, a) /\ Delivered(tok)
    BY <1>8, Zenon DEF ParseEntry, EndEntry, BehindLabel
  <2>2. depth = 0 /\ nested' = nested /\ depth' = depth
    BY <1>1, <2>1 DEF Delivered, Skipping
  <2>3. \/ status' \in {status, "failed"}
        \/ status' = "fixing" /\ nested = 0
    <3>1. CASE tok.t = "END"
      BY <2>1, <3>1 DEF EntryStarts
    <3>2. CASE tok.t # "END"
      BY <2>1, <3>2 DEF EntryStarts
    <3>3. QED
      BY <3>1, <3>2
  <2>4. QED
    BY <1>2, <2>2, <2>3
<1>9. CASE \/ ParseProcess(tok) \/ ParseVerbNoun(tok) \/ ParseSynonym(tok)
           \/ LabelInEntry(tok) \/ ParseBytes(tok) \/ UserPtr(tok) \/ ParseCondact(tok)
           \/ UnknownCondact(tok) \/ Indirection(tok) \/ NumberParam(tok)
           \/ TextParam(tok) \/ BackLabel(tok) \/ ForwardLabel(tok) \/ BadParam(tok)
  <2>1. Delivered(tok)
    BY <1>9, Zenon DEF ParseProcess, ParseVerbNoun, ParseSynonym, LabelInEntry,
       ParseBytes, UserPtr, ParseCondact, UnknownCondact, Indirection, NumberParam,
       TextParam, BackLabel, ForwardLabel, BadParam
  <2>2. depth = 0 /\ nested' = nested /\ depth' = depth
    BY <1>1, <2>1 DEF Delivered, Skipping
  <2>3. status' = status \/ status' = "failed"
    BY <1>9, Zenon DEF ParseProcess, ParseVerbNoun, ParseSynonym, LabelInEntry,
       ParseBytes, UserPtr, ParseCondact, UnknownCondact, Indirection, NumberParam,
       TextParam, BackLabel, ForwardLabel, BadParam, Refused, Finish
  <2>4. QED
    BY <1>2, <2>2, <2>3
<1>10. QED
  BY <1>3, <1>4, <1>5, <1>6, <1>7, <1>8, <1>9, Zenon DEF Parse

(* The counters never lose track of a block.                               *)
LEMMA CountedStep == Counted /\ [Next]_vars => Counted'
<1> SUFFICES ASSUME Counted, [Next]_vars PROVE Counted'
  OBVIOUS
<1>1. CASE \E tok \in Source : Parse(tok)
  <2>1. PICK tok : Parse(tok)
    BY <1>1
  <2>2. QED
    BY <2>1, TokenCounts DEF Counted
<1>2. CASE EndOfStream \/ FixEntry \/ Fixed \/ Stopped \/ UNCHANGED vars
  <2>1. nested' = nested /\ depth' = depth
    BY <1>2 DEF EndOfStream, FixEntry, Fixed, Stopped, Fail, vars
  <2>2. CASE EndOfStream
    BY <2>1, <2>2 DEF EndOfStream, Fail, Counted
  <2>3. CASE FixEntry
    <3>1. status = "fixing"
      BY <2>3 DEF FixEntry
    <3>2. status' \in {status, "failed"}
      BY <2>3, Zenon DEF FixEntry
    <3>3. QED
      BY <2>1, <3>1, <3>2 DEF Counted
  <2>4. CASE Fixed
    BY <2>1, <2>4 DEF Fixed, Counted
  <2>5. CASE Stopped \/ UNCHANGED vars
    BY <2>1, <2>5 DEF Stopped, vars, Counted
  <2>6. QED
    BY <1>2, <2>2, <2>3, <2>4, <2>5
<1>3. QED
  BY <1>1, <1>2 DEF Next

(* Each step of the parser is one of Conditionals or none.                 *)
LEMMA StepObeys == Counted /\ [Next]_vars => [Blocks!Next]_Blocks!vars
<1> SUFFICES ASSUME Counted, [Next]_vars PROVE [Blocks!Next]_Blocks!vars
  OBVIOUS
<1> DEFINE Branches == [i \in 1..nested + (IF Skipping THEN depth - 1 ELSE 0) |->
                         ~Skipping \/ i < nested]
           b == OpenBlocks(nested, depth)
<1>1. /\ nested \in Nat /\ depth \in Nat /\ (depth > 0 => nested > 0)
      /\ nested' \in Nat /\ depth' \in Nat
  BY CountedStep DEF Counted
<1>2. Branches = b
  BY <1>1, Mapped, Zenon DEF Skipping
<1>3. Branches' = OpenBlocks(nested', depth')
  BY <1>1, Mapped, Zenon DEF Skipping
<1>4. /\ Blocks!vars = <<Branches, parsed, Accepted>>
      /\ \A taken : Blocks!Open(taken) <=>
           /\ Branches' = Append(Branches, (\A i \in DOMAIN Branches : Branches[i]) /\ taken)
           /\ UNCHANGED <<parsed, Accepted>>
      /\ Blocks!Else <=>
           /\ Branches # <<>>
           /\ Branches' = Append(OuterOf(Branches),
                (\A i \in DOMAIN OuterOf(Branches) : OuterOf(Branches)[i])
                  /\ ~Branches[Len(Branches)])
           /\ UNCHANGED <<parsed, Accepted>>
      /\ Blocks!Close <=>
           Branches # <<>> /\ Branches' = OuterOf(Branches) /\ UNCHANGED <<parsed, Accepted>>
      /\ Blocks!Obey <=>
           /\ \A i \in DOMAIN Branches : Branches[i]
           /\ Accepted' => Branches = <<>>
           /\ Branches' = Branches
  BY DEF Blocks!vars, Blocks!Open, Blocks!Else, Blocks!Close, Blocks!Obey, Blocks!AllTaken,
     Blocks!Live, Blocks!Outer, Accepted, OuterOf
<1> HIDE DEF Branches
<1>5. (\A i \in DOMAIN b : b[i]) <=> depth = 0
  BY <1>1, AllLive, Zenon
<1>6. \/ \E taken \in BOOLEAN : Blocks!Open(taken)
      \/ Blocks!Else \/ Blocks!Close \/ Blocks!Obey
      \/ Branches' = Branches /\ UNCHANGED <<parsed, Accepted>>
      => [Blocks!Next]_Blocks!vars
  <2>1. Branches' = Branches /\ UNCHANGED <<parsed, Accepted>> => UNCHANGED Blocks!vars
    <3> SUFFICES ASSUME Branches' = Branches, UNCHANGED <<parsed, Accepted>>
                 PROVE  UNCHANGED Blocks!vars
      OBVIOUS
    <3>1. Blocks!vars' = <<Branches, parsed, Accepted>>'
      BY DEF Blocks!vars, Branches, Accepted
    <3>2. QED
      BY <1>4, <3>1
  <2>2. QED
    BY <2>1, Zenon DEF Blocks!Next
<1> HIDE DEF b
<1>7. ASSUME NEW tok, Parse(tok)
      PROVE  [Blocks!Next]_Blocks!vars
  <2>1. status = "parsing" /\ ~Accepted
    BY <1>7, TokenCounts DEF Accepted
  <2>2. ASSUME UNCHANGED <<parsed, status>>, NEW t \in BOOLEAN,
               Branches' = Append(b, (depth = 0) /\ t)
        PROVE  [Blocks!Next]_Blocks!vars
    <3>1. UNCHANGED <<parsed, Accepted>>
      BY <2>2 DEF Accepted
    <3>2. ((\A i \in DOMAIN b : b[i]) /\ t) = (depth = 0 /\ t)
      BY <1>5
    <3>3. Blocks!Open(t)
      BY <1>2, <1>4, <2>2, <3>1, <3>2, Zenon
    <3>4. QED
      BY <1>6, <3>3
  <2>3. ASSUME UNCHANGED <<parsed, status>>, b # <<>>, Branches' = OuterOf(b)
        PROVE  [Blocks!Next]_Blocks!vars
    <3>1. UNCHANGED <<parsed, Accepted>>
      BY <2>3 DEF Accepted
    <3>2. QED
      BY <1>2, <1>4, <1>6, <2>3, <3>1, Zenon
  <2>4. ASSUME UNCHANGED <<parsed, status>>, b # <<>>,
               \A i \in DOMAIN OuterOf(b) : OuterOf(b)[i],
               Branches' = Append(OuterOf(b), ~b[Len(b)])
        PROVE  [Blocks!Next]_Blocks!vars
    <3>1. UNCHANGED <<parsed, Accepted>>
      BY <2>4 DEF Accepted
    <3>2. ((\A i \in DOMAIN OuterOf(b) : OuterOf(b)[i]) /\ ~b[Len(b)]) = ~b[Len(b)]
      BY <2>4
    <3>3. Blocks!Else
      BY <1>2, <1>4, <2>4, <3>1, <3>2, Zenon
    <3>4. QED
      BY <1>6, <3>3
  <2>5. CASE depth > 0 /\ depth' = depth + 1 /\ nested' = nested /\ UNCHANGED <<parsed, status>>
    <3>1. OpenBlocks(nested, depth + 1) = Append(b, Dead)
      BY <1>1, <2>5, BlockOpened DEF b
    <3>2. Dead = (depth = 0 /\ FALSE) /\ FALSE \in BOOLEAN
      BY DEF Dead
    <3>3. QED
      BY <1>3, <2>2, <2>5, <3>1, <3>2
  <2>6. CASE /\ depth > 0 /\ depth' = depth - 1
             /\ nested' = IF depth = 1 THEN nested - 1 ELSE nested
             /\ UNCHANGED <<parsed, status>>
    <3>1. b # <<>>
      BY <1>1, <2>6, BlockClosed DEF b
    <3>2. depth > 1 => OuterOf(b) = OpenBlocks(nested, depth - 1)
      BY <1>1, <2>6, BlockClosed DEF b
    <3>3. depth \in {0, 1} => OuterOf(b) = OpenBlocks(nested - 1, 0)
      BY <1>1, <2>6, BlockClosed DEF b
    <3>4. Branches' = OuterOf(b)
      BY <1>1, <1>3, <2>6, <3>2, <3>3
    <3>5. QED
      BY <2>3, <2>6, <3>1, <3>4
  <2>7. CASE /\ depth \in {0, 1} /\ nested > 0 /\ depth' = 1 - depth /\ nested' = nested
             /\ UNCHANGED <<parsed, status>>
    <3> DEFINE o == OpenBlocks(nested - 1, 0)
    <3>1. /\ b # <<>> /\ OuterOf(b) = o
          /\ b[Len(b)] = IF depth = 0 THEN Live ELSE Dead
      <4>1. b # <<>>
        BY <1>1, <2>7, BlockClosed DEF b
      <4>2. depth \in {0, 1} => OuterOf(b) = o
        BY <1>1, <2>7, BlockClosed DEF b
      <4>3. b[Len(b)] = IF depth = 0 THEN Live ELSE Dead
        BY <1>1, <2>7, BlockClosed DEF b
      <4>4. QED
        BY <2>7, <4>1, <4>2, <4>3
    <3>2. \A i \in DOMAIN o : o[i]
      <4>1. nested - 1 \in Nat /\ 0 \in Nat /\ (0 > 0 => nested - 1 > 0)
        BY <1>1, <2>7
      <4>2. QED
        BY <4>1, AllLive, Zenon
    <3>3. /\ OpenBlocks(nested, 0) = Append(o, Live)
          /\ OpenBlocks(nested, 1) = Append(o, Dead)
      <4> DEFINE n == nested - 1
      <4>1. n \in Nat /\ n + 1 = nested
        BY <1>1, <2>7
      <4> HIDE DEF n
      <4>2. 0 \in Nat /\ (0 > 0 => n > 0)
        OBVIOUS
      <4>3. OpenBlocks(n + 1, 0) = Append(OpenBlocks(n, 0), Live)
        BY <4>1, <4>2, BlockOpened
      <4>4. OpenBlocks(n + 1, 1) = Append(OpenBlocks(n, 0), Dead)
        BY <4>1, <4>2, BlockOpened
      <4>5. QED
        BY <4>1, <4>3, <4>4 DEF n
    <3> HIDE DEF o
    <3>4. CASE depth = 0
      <4>1. Branches' = Append(o, Dead)
        BY <1>3, <2>7, <3>3, <3>4
      <4> DEFINE other == ~b[Len(b)]
      <4>2. other = Dead
        BY <3>1, <3>4 DEF Live, Dead
      <4> HIDE DEF other
      <4>3. Branches' = Append(OuterOf(b), ~b[Len(b)])
        <5>1. Branches' = Append(OuterOf(b), other)
          BY <3>1, <4>1, <4>2
        <5>2. QED
          BY <5>1 DEF other
      <4>4. UNCHANGED <<parsed, status>>
        BY <2>7, Zenon
      <4>5. b # <<>> /\ \A i \in DOMAIN OuterOf(b) : OuterOf(b)[i]
        BY <3>1, <3>2, Zenon
      <4>6. QED
        BY <2>4, <4>3, <4>4, <4>5, Zenon
    <3>5. CASE depth = 1
      <4>1. Branches' = Append(o, Live)
        BY <1>3, <2>7, <3>3, <3>5
      <4> DEFINE other == ~b[Len(b)]
      <4>2. other = Live
        BY <3>1, <3>5 DEF Live, Dead
      <4> HIDE DEF other
      <4>3. Branches' = Append(OuterOf(b), ~b[Len(b)])
        <5>1. Branches' = Append(OuterOf(b), other)
          BY <3>1, <4>1, <4>2
        <5>2. QED
          BY <5>1 DEF other
      <4>4. UNCHANGED <<parsed, status>>
        BY <2>7, Zenon
      <4>5. b # <<>> /\ \A i \in DOMAIN OuterOf(b) : OuterOf(b)[i]
        BY <3>1, <3>2, Zenon
      <4>6. QED
        BY <2>4, <4>3, <4>4, <4>5, Zenon
    <3>6. QED
      BY <2>7, <3>4, <3>5
  <2>8. CASE /\ depth = 0 /\ nested' = nested + 1 /\ depth' \in {0, 1}
             /\ UNCHANGED <<parsed, status>>
    <3>1. OpenBlocks(nested + 1, 0) = Append(b, Live)
      BY <1>1, <2>8, BlockOpened DEF b
    <3>2. OpenBlocks(nested + 1, 1) = Append(b, Dead)
      BY <1>1, <2>8, BlockOpened DEF b
    <3>3. Live = (depth = 0 /\ TRUE) /\ Dead = (depth = 0 /\ FALSE)
      BY <2>8 DEF Live, Dead
    <3>4. CASE depth' = 0
      <4>1. Branches' = Append(b, depth = 0 /\ TRUE)
        BY <1>3, <2>8, <3>1, <3>3, <3>4
      <4>2. QED
        BY <2>2, <2>8, <4>1
    <3>5. CASE depth' = 1
      <4>1. Branches' = Append(b, depth = 0 /\ FALSE)
        BY <1>3, <2>8, <3>2, <3>3, <3>5
      <4>2. QED
        BY <2>2, <2>8, <4>1
    <3>6. QED
      BY <2>8, <3>4, <3>5
  <2>9. CASE depth = 0 /\ nested > 0 /\ depth' = 0 /\ nested' = nested - 1
             /\ UNCHANGED <<parsed, status>>
    <3>1. b # <<>>
      BY <1>1, <2>9, BlockClosed DEF b
    <3>2. depth \in {0, 1} => OuterOf(b) = OpenBlocks(nested - 1, 0)
      BY <1>1, <2>9, BlockClosed DEF b
    <3>3. Branches' = OuterOf(b)
      BY <1>3, <2>9, <3>2
    <3>4. QED
      BY <2>3, <2>9, <3>1, <3>3
  <2>10. CASE UNCHANGED <<nested, depth, parsed>> /\ status' \in {"parsing", "failed"}
    <3>1. Branches' = Branches /\ UNCHANGED <<parsed, Accepted>>
      BY <2>1, <2>10, <1>2, <1>3 DEF Accepted, b
    <3>2. QED
      BY <1>6, <3>1
  <2>11. CASE /\ depth = 0 /\ UNCHANGED <<nested, depth>>
              /\ status' \in {"parsing", "failed"} \/ (status' = "fixing" /\ nested = 0)
    <3>1. Branches' = Branches
      BY <1>2, <1>3, <2>11 DEF b
    <3>2. Accepted' => b = <<>>
      <4> SUFFICES ASSUME Accepted' PROVE b = <<>>
        OBVIOUS
      <4>1. nested = 0 /\ depth = 0
        BY <2>11 DEF Accepted
      <4>2. QED
        BY <4>1 DEF b, OpenBlocks
    <3>3. Blocks!Obey
      BY <1>2, <1>4, <1>5, <2>11, <3>1, <3>2
    <3>4. QED
      BY <1>6, <3>3
  <2>12. QED
    BY <1>1, <1>7, <2>5, <2>6, <2>7, <2>8, <2>9, <2>10, <2>11, TokenCounts
<1>8. CASE EndOfStream \/ Stopped \/ UNCHANGED vars \/ Fixed
  <2>1. nested' = nested /\ depth' = depth /\ parsed' = parsed
    BY <1>8, Zenon DEF EndOfStream, Fail, Stopped, vars, Fixed
  <2>2. Accepted' = Accepted
    BY <1>8 DEF EndOfStream, Fail, Stopped, vars, Fixed, Accepted
  <2>3. Branches' = Branches
    BY <1>2, <1>3, <2>1 DEF b
  <2>4. QED
    BY <1>6, <2>1, <2>2, <2>3
<1>9. CASE FixEntry
  <2>1. nested = 0 /\ depth = 0 /\ nested' = nested /\ depth' = depth
    BY <1>9 DEF FixEntry, Counted
  <2>2. Branches' = Branches /\ b = <<>>
    BY <1>2, <1>3, <2>1 DEF b, OpenBlocks
  <2>3. Blocks!Obey
    BY <1>2, <1>4, <1>5, <2>1, <2>2
  <2>4. QED
    BY <1>6, <2>3
<1>10. QED
  BY <1>7, <1>8, <1>9, Zenon DEF Next

(* Whatever is read, scan and skip_block obey a token exactly when every   *)
(* block around it is live, an #else turns its own block over, and a source*)
(* with a block left open is refused: with two counters they implement the *)
(* row of nested blocks.                                                   *)
THEOREM BlocksNest == Spec => ImplementsConditionals
<1>1. Init => Counted /\ Blocks!Init
  <2> SUFFICES ASSUME Init PROVE Counted /\ Blocks!Init
    OBVIOUS
  <2>1. nested = 0 /\ depth = 0 /\ status = "parsing"
    BY DEF Init
  <2>2. Counted
    BY <2>1 DEF Counted
  <2>3. OpenBlocks(0, 0) = <<>>
    BY DEF OpenBlocks
  <2>4. [i \in 1..nested + (IF Skipping THEN depth - 1 ELSE 0) |-> ~Skipping \/ i < nested]
          = <<>>
    BY <2>1 DEF Skipping
  <2>5. QED
    BY <2>1, <2>2, <2>4 DEF Blocks!Init
<1>2. QED
  BY <1>1, CountedStep, StepObeys, PTL DEF Spec, ImplementsConditionals, Blocks!Spec


-----------------------------------------------------------------------------
(* What the variables are; a run that failed keeps its tables.             *)

CONDACT == [op : Int, value : Int, indirect : BOOLEAN, label : STRING \cup {NoLabel},
            text : TEXTS \cup {NoText}]
LABEL == [name : STRING, process : Int, entry : Int, forward : BOOLEAN]
AT == [process : 0..MAX_PROCESSES, entry : Nat, copies : Nat, list : Nat,
       op : Int, indirect : BOOLEAN, param : Int]

Tables ==
  /\ job \in Jobs /\ read \in Nat
  /\ lists \in Seq(Seq(CONDACT))
  /\ labels \in Seq(LABEL)
  /\ msgs \in TABLES

(* The list of an entry is being filled.                                   *)
Inside == {"verb", "noun", "synonym", "condact", "param", "behind label"}

Going ==
  status # "failed" =>
    /\ at \in AT
    /\ entries \in [0..MAX_PROCESSES -> Seq(Nat)]
    /\ expect \in Inside \cup {"process", "entry", "nothing"}
    /\ status \in {"parsing", "fixing", "done"}
    /\ warned \in BOOLEAN
    /\ status # "parsing" => expect = "nothing"

(* Invariants of the grammar's state: the entries e, the entry parsed a and*)
(* the tables ls (condact lists), lb (labels) and pl (places).  open says  *)
(* that a is an entry not yet in e, ahead that its end has been labelled,  *)
(* w that a process was opened twice.                                      *)

Shared(e, a, open, ls) ==
  /\ open => a.copies >= 1 /\ a.list \in DOMAIN ls
  /\ ~open => a.copies = 0
  /\ \A p \in 0..MAX_PROCESSES : \A i \in DOMAIN e[p] :
       /\ e[p][i] \in DOMAIN ls
       /\ open => e[p][i] # a.list
  /\ \A p, q \in 0..MAX_PROCESSES : \A i \in DOMAIN e[p] : \A j \in DOMAIN e[q] :
       e[p][i] = e[q][j] => p = q

(* So far the source is one of those SkipsLeadToLabels speaks of.          *)
Simple(e, a, w) ==
  /\ ~w /\ a.copies <= 1
  /\ \A p \in 0..MAX_PROCESSES : \A i, j \in DOMAIN e[p] : i # j => e[p][i] # e[p][j]

Numbered(lb, pl, e, a, ahead) ==
  /\ a.entry = Len(e[a.process])
  /\ \A x \in DOMAIN lb : ~lb[x].forward =>
       /\ lb[x].process \in 0..MAX_PROCESSES
       /\ lb[x].name \in DOMAIN pl
       /\ pl[lb[x].name] = <<lb[x].process, lb[x].entry>>
       /\ lb[x].entry <= Len(e[lb[x].process])
                           + (IF ahead /\ lb[x].process = a.process THEN 1 ELSE 0)

(* List n is that of entry i, counted from 1, of process p.                *)
Stands(n, p, i, e, a, open) ==
  \/ i \in DOMAIN e[p] /\ e[p][i] = n
  \/ open /\ n = a.list /\ p = a.process /\ i = a.entry + 1

(* A SKIP leads to its label; one that waits for its label has the slot of *)
(* the label, which will stand behind it if it stands in its process.      *)
Leads(c, p, i, lb, pl) ==
  c.label # NoLabel =>
    /\ c.op = SKIP /\ ~c.indirect =>
         /\ \E x \in DOMAIN lb : ~lb[x].forward /\ lb[x].name = c.label
         /\ pl[c.label] = <<p, i + Signed(c.value)>>
    /\ c.op = PENDINGSKIP =>
         /\ c.value \in Nat /\ c.value + 1 \in DOMAIN lb
         /\ lb[c.value + 1].name = c.label
         /\ ~lb[c.value + 1].forward /\ lb[c.value + 1].process = p =>
              lb[c.value + 1].entry >= i

AllLead(ls, lb, pl, e, a, open) ==
  \A p \in 0..MAX_PROCESSES : \A n \in DOMAIN ls : \A i \in Nat :
    Stands(n, p, i, e, a, open) =>
      \A k \in DOMAIN ls[n] : Leads(ls[n][k], p, i, lb, pl)

Sound(ls, lb, pl, e, a, open, ahead, w) ==
  /\ Shared(e, a, open, ls)
  /\ Simple(e, a, w) => Numbered(lb, pl, e, a, ahead) /\ AllLead(ls, lb, pl, e, a, open)

(* The walk, at f, has been at entry i, counted from 1, of process p.      *)
Behind(p, i, f) == p < f[1] \/ (p = f[1] /\ i <= f[2])

(* A PENDINGSKIP left in a list stands behind a SKIP.                      *)
Cleared(list) ==
  \A k \in DOMAIN list : list[k].op = PENDINGSKIP => \E j \in 1..k - 1 : list[j].op = SKIP

AllCleared(ls, e, f) ==
  \A p \in 0..MAX_PROCESSES : \A i \in DOMAIN e[p] : Behind(p, i, f) => Cleared(ls[e[p][i]])

(* fix is an entry, or 0 of a process that has none.                       *)
WalkedTo(e, f) ==
  f \in Nat \X Nat /\ (f[1] <= MAX_PROCESSES => f[2] = 0 \/ f[2] < Len(e[f[1]]))

Walk ==
  /\ status = "done" => fix[1] > MAX_PROCESSES
  /\ status = "parsing" => fix = <<0, 0>>
  /\ status \in {"parsing", "fixing", "done"} => WalkedTo(entries, fix)
  /\ status \in {"fixing", "done"} => AllCleared(lists, entries, fix)

Grammar ==
  status # "failed" =>
    /\ Sound(lists, labels, places, entries, at, expect \in Inside,
             expect = "behind label", warned)
    /\ Walk

TextOps == {MES, MESSAGE, SYSMESS, DESC, XMES, XPLAY, XDATA}

NameOf(op) ==
  CASE op \in {MES, MESSAGE} -> "mtx"
    [] op = SYSMESS -> "stx"
    [] op = DESC -> "ltx"
    [] op = XMES -> "xtx"
    [] op \in {XPLAY, XDATA} -> "other"

(* The text a condact was written with is where it looks for it.           *)
Found(c, ms) ==
  c.text # NoText =>
    /\ c.op \in TextOps /\ c.value \in Nat
    /\ c.value + 1 \in DOMAIN ms[NameOf(c.op)]
    /\ Printed(c.op, ms[NameOf(c.op)][c.value + 1]) = c.text

TextsFound == \A l \in DOMAIN lists : \A i \in DOMAIN lists[l] : Found(lists[l][i], msgs)

IInv == Tables /\ Going /\ Grammar /\ TextsFound

-----------------------------------------------------------------------------
(* The text tables.                                                        *)

(* A text is found at the number it is given, and no text moves for it.    *)
LEMMA Inserted ==
  ASSUME NEW table \in Seq(TEXTS), NEW text \in TEXTS, NEW unlimited \in BOOLEAN
  PROVE  LET r == Insert(table, text, unlimited)
         IN  /\ r.table \in Seq(TEXTS)
             /\ Len(table) <= Len(r.table)
             /\ \A i \in 1..Len(table) : r.table[i] = table[i]
             /\ r.id # NoRoom => /\ r.id \in Nat /\ r.id + 1 \in 1..Len(r.table)
                                 /\ r.table[r.id + 1] = text
<1> DEFINE r == Insert(table, text, unlimited)
<1>1. CASE \E i \in DOMAIN table : table[i] = text
  <2> DEFINE I == {i \in 1..Len(table) : table[i] = text}
  <2>1. I \subseteq Nat /\ I # {}
    BY <1>1
  <2>2. \E n \in I : \A m \in I : n <= m
    BY <2>1, LeastNatural
  <2>3. Min(I) \in I
    BY <2>2 DEF Min
  <2>4. SelectInSeq(table, LAMBDA x : x = text) = Min(I)
    BY <2>1 DEF SelectInSeq
  <2>5. r.table = table /\ r.id = Min(I) - 1
    BY <1>1, <2>4 DEF Insert
  <2>6. QED
    BY <2>3, <2>5
<1>2. CASE /\ ~\E i \in DOMAIN table : table[i] = text
           /\ ~unlimited /\ Len(table) = MAX_MESSAGES_PER_TABLE
  <2>1. r = [table |-> table, id |-> NoRoom]
    BY <1>2 DEF Insert
  <2>2. QED
    BY <2>1
<1>3. CASE /\ ~\E i \in DOMAIN table : table[i] = text
           /\ ~(~unlimited /\ Len(table) = MAX_MESSAGES_PER_TABLE)
  <2>1. r = [table |-> Append(table, text), id |-> Len(table)]
    BY <1>3 DEF Insert
  <2>2. QED
    BY <2>1
<1>4. QED
  BY <1>1, <1>2, <1>3

TableNames == {"mtx", "stx", "ltx", "xtx", "other"}

(* No text moves from t to u.                                              *)
Grown(t, u) ==
  \A n \in TableNames : /\ Len(t[n]) <= Len(u[n])
                        /\ \A i \in 1..Len(t[n]) : u[n][i] = t[n][i]

(* r, what an inline text becomes, leads to a text printed like it.        *)
Answers(r, op, text) ==
  r.id # NoRoom =>
    /\ r.op \in TextOps /\ r.id \in Nat
    /\ r.id + 1 \in 1..Len(r.msgs[NameOf(r.op)])
    /\ r.msgs[NameOf(r.op)][r.id + 1] \in TEXTS
    /\ Printed(r.op, r.msgs[NameOf(r.op)][r.id + 1]) = Printed(op, text)

(* The same for a text put into one table, as it is.                       *)
LEMMA IntoTable ==
  ASSUME msgs \in TABLES, NEW op \in TextOps, NEW text \in TEXTS
  PROVE  LET r == Into(op, NameOf(op), text)
         IN  /\ r.op = op /\ r.msgs \in TABLES /\ Grown(msgs, r.msgs)
             /\ r.id # NoRoom => /\ r.id \in Nat
                                 /\ r.id + 1 \in 1..Len(r.msgs[NameOf(op)])
                                 /\ r.msgs[NameOf(op)][r.id + 1] = text
<1> DEFINE n == NameOf(op)
           i == Insert(msgs[n], text, n = "xtx")
           r == Into(op, n, text)
<1>1. n \in TableNames
  BY DEF NameOf, TextOps, TableNames, MES, MESSAGE, SYSMESS, DESC, XMES, XPLAY, XDATA
<1> HIDE DEF n
<1>2. msgs[n] \in Seq(TEXTS) /\ (n = "xtx") \in BOOLEAN
  BY <1>1 DEF TABLES, TableNames
<1>3. /\ i.table \in Seq(TEXTS)
      /\ Len(msgs[n]) <= Len(i.table)
      /\ \A k \in 1..Len(msgs[n]) : i.table[k] = msgs[n][k]
      /\ i.id # NoRoom => /\ i.id \in Nat /\ i.id + 1 \in 1..Len(i.table)
                          /\ i.table[i.id + 1] = text
  BY <1>2, Inserted, Zenon
<1>4. r = [op |-> op, id |-> i.id, msgs |-> [msgs EXCEPT ![n] = i.table]]
  BY DEF Into
<1> HIDE DEF i, r
<1>5. r.op = op /\ r.id = i.id /\ r.msgs = [msgs EXCEPT ![n] = i.table]
  BY <1>4
<1>6. r.msgs \in TABLES
  <2>1. i.table \in Seq(TEXTS) /\ msgs \in TABLES
    BY <1>3
  <2>2. QED
    BY <1>5, <2>1 DEF TABLES
<1>7. /\ r.msgs[n] = i.table
      /\ \A m \in TableNames : m # n => r.msgs[m] = msgs[m]
  BY <1>1, <1>5 DEF TABLES, TableNames
<1>8. Grown(msgs, r.msgs)
  <2> SUFFICES ASSUME NEW m \in TableNames
               PROVE  /\ Len(msgs[m]) <= Len(r.msgs[m])
                      /\ \A k \in 1..Len(msgs[m]) : r.msgs[m][k] = msgs[m][k]
    BY DEF Grown
  <2>1. CASE m = n
    BY <1>3, <1>7, <2>1
  <2>2. CASE m # n
    <3>1. r.msgs[m] = msgs[m] /\ Len(msgs[m]) \in Nat
      BY <1>7, <2>2 DEF TABLES, TableNames
    <3>2. QED
      BY <3>1
  <2>3. QED
    BY <2>1, <2>2
<1>9. QED
  BY <1>3, <1>5, <1>6, <1>7, <1>8 DEF r, n

(* What a text prints depends on its condact only by the break at its end. *)
LEMMA PrintedAlike ==
  ASSUME NEW text \in TEXTS, NEW op, NEW other,
         (op \in {MESSAGE, XMESSAGE}) <=> (other \in {MESSAGE, XMESSAGE})
  PROVE  Printed(op, text) = Printed(other, text)
BY DEF Printed

(* Each element of a sequence replaced by its image.                       *)
Images(f, s) == [i \in DOMAIN s |-> f[s[i]]]

(* The images of a sequence are as many.                                   *)
LEMMA ImagesTyped ==
  ASSUME NEW S, NEW f \in [S -> S], NEW s \in Seq(S)
  PROVE  Images(f, s) \in Seq(S)
BY DEF Images

(* The images of a sequence with one more element.                         *)
LEMMA EachMapped ==
  ASSUME NEW S, NEW f \in [S -> S], NEW s \in Seq(S), NEW b \in S
  PROVE  Images(f, Append(s, b)) = Images(f, s) \o <<f[b]>>
<1> DEFINE m == Images(f, s)
           t == Append(s, b)
           all == Images(f, t)
           joined == m \o <<f[b]>>
<1>1. Len(s) \in Nat /\ DOMAIN s = 1..Len(s) /\ \A i \in 1..Len(s) : s[i] \in S
  OBVIOUS
<1>2. m \in Seq(S) /\ Len(m) = Len(s) /\ \A i \in 1..Len(s) : m[i] = f[s[i]]
  BY <1>1 DEF Images
<1>3. /\ t \in Seq(S) /\ DOMAIN t = 1 .. Len(s) + 1
      /\ t[Len(s) + 1] = b
      /\ \A i \in 1..Len(s) : t[i] = s[i]
  BY <1>1
<1> HIDE DEF t, m
<1>4. /\ all \in Seq(S) /\ Len(all) = Len(s) + 1 /\ \A i \in 1 .. Len(s) + 1 : all[i] = f[t[i]]
  BY <1>1, <1>3 DEF Images
<1>5. /\ joined \in Seq(S) /\ Len(joined) = Len(s) + 1
      /\ \A i \in 1..Len(s) : joined[i] = m[i]
      /\ joined[Len(s) + 1] = f[b]
  BY <1>1, <1>2
<1> HIDE DEF all, joined
<1>6. \A i \in 1 .. Len(s) + 1 : all[i] = joined[i]
  BY <1>1, <1>2, <1>3, <1>4, <1>5
<1>7. all = joined
  BY <1>1, <1>4, <1>5, <1>6
<1>8. QED
  BY <1>7 DEF all, joined, m, t

(* A break written into a text stands for that of a MESSAGE.               *)
LEMMA PrintedWithBreak ==
  ASSUME NEW text \in TEXTS, NEW op \in {MESSAGE, XMESSAGE},
         NEW other, other \notin {MESSAGE, XMESSAGE}, NEW break \in {"\n", "#n"}
  PROVE  /\ Append(text, break) \in TEXTS
         /\ Printed(other, Append(text, break)) = Printed(op, text)
<1> DEFINE f == [m \in MARKS |-> IF m = "#n" THEN "\n" ELSE m]
           broken == Images(f, text)
           long == Append(text, break)
           all == Images(f, long)
<1>1. f \in [MARKS -> MARKS] /\ break \in MARKS /\ text \in Seq(MARKS)
  BY DEF TEXTS, MARKS
<1>2. f[break] = "\n"
  BY <1>1
<1>3. long \in Seq(MARKS) /\ long \in TEXTS
  BY <1>1 DEF TEXTS
<1>4. \A s \in Seq(MARKS) :
        [i \in DOMAIN s |-> IF s[i] = "#n" THEN "\n" ELSE s[i]] = Images(f, s)
  BY DEF Images
<1> HIDE DEF f
<1>5. all = broken \o <<f[break]>>
  BY <1>1, EachMapped, Zenon
<1>6. all \in Seq(MARKS)
  BY <1>1, <1>3, ImagesTyped, Zenon
<1>7. Printed(other, long) = all \o <<>>
  BY <1>3, <1>4 DEF Printed
<1>8. Printed(op, text) = broken \o <<"\n">>
  BY <1>1, <1>4 DEF Printed
<1> HIDE DEF broken, all
<1>9. all \o <<>> = all
  BY <1>6
<1>10. QED
  BY <1>2, <1>3, <1>5, <1>7, <1>8, <1>9

(* Home table, other table, LTX: a text that moves is printed as written.  *)
LEMMA Cascaded ==
  ASSUME msgs \in TABLES, NEW op \in {MES, MESSAGE, SYSMESS}, NEW text \in TEXTS
  PROVE  LET r == Cascade(op, text)
         IN  r.msgs \in TABLES /\ Grown(msgs, r.msgs) /\ Answers(r, op, text)
<1> DEFINE moved == IF op = MESSAGE THEN Append(text, "\n") ELSE text
           h == IF op = SYSMESS THEN "stx" ELSE "mtx"
           s == IF op = SYSMESS THEN MES ELSE SYSMESS
           home == Into(op, NameOf(op), text)
           second == Into(s, NameOf(s), moved)
           last == Into(DESC, NameOf(DESC), moved)
           Fine(r) == r.msgs \in TABLES /\ Grown(msgs, r.msgs) /\ Answers(r, op, text)
<1>1. /\ op \in TextOps /\ s \in TextOps /\ DESC \in TextOps
      /\ NameOf(op) = h /\ NameOf(s) = (IF op = SYSMESS THEN "mtx" ELSE "stx")
      /\ NameOf(DESC) = "ltx"
  BY DEF TextOps, NameOf, MES, MESSAGE, SYSMESS, DESC, XMES, XPLAY, XDATA
<1>2. /\ moved \in TEXTS
      /\ Printed(s, moved) = Printed(op, text)
      /\ Printed(DESC, moved) = Printed(op, text)
  <2>1. s \notin {MESSAGE, XMESSAGE} /\ DESC \notin {MESSAGE, XMESSAGE}
    BY DEF MES, SYSMESS, DESC, MESSAGE, XMESSAGE
  <2>2. CASE op = MESSAGE
    BY <2>1, <2>2, PrintedWithBreak
  <2>3. CASE op # MESSAGE
    <3>1. op \notin {MESSAGE, XMESSAGE} /\ moved = text
      BY <2>3 DEF MES, SYSMESS, MESSAGE, XMESSAGE
    <3>2. QED
      BY <2>1, <3>1, PrintedAlike
  <2>4. QED
    BY <2>2, <2>3
<1>3. Cascade(op, text) = IF home.id # NoRoom \/ classic THEN home
                          ELSE IF second.id # NoRoom THEN second ELSE last
  BY <1>1 DEF Cascade
<1> HIDE DEF moved, s, h
<1>4. Fine(home)
  <2>1. /\ home.op = op /\ home.msgs \in TABLES /\ Grown(msgs, home.msgs)
        /\ home.id # NoRoom => /\ home.id \in Nat
                               /\ home.id + 1 \in 1..Len(home.msgs[NameOf(op)])
                               /\ home.msgs[NameOf(op)][home.id + 1] = text
    BY <1>1, IntoTable, Zenon
  <2> HIDE DEF home
  <2>2. QED
    BY <1>1, <2>1 DEF Answers
<1>5. Fine(second)
  <2>1. /\ second.op = s /\ second.msgs \in TABLES /\ Grown(msgs, second.msgs)
        /\ second.id # NoRoom => /\ second.id \in Nat
                                 /\ second.id + 1 \in 1..Len(second.msgs[NameOf(s)])
                                 /\ second.msgs[NameOf(s)][second.id + 1] = moved
    BY <1>1, <1>2, IntoTable, Zenon
  <2> HIDE DEF second
  <2>2. QED
    BY <1>1, <1>2, <2>1 DEF Answers
<1>6. Fine(last)
  <2>1. /\ last.op = DESC /\ last.msgs \in TABLES /\ Grown(msgs, last.msgs)
        /\ last.id # NoRoom => /\ last.id \in Nat
                               /\ last.id + 1 \in 1..Len(last.msgs[NameOf(DESC)])
                               /\ last.msgs[NameOf(DESC)][last.id + 1] = moved
    BY <1>1, <1>2, IntoTable, Zenon
  <2> HIDE DEF last
  <2>2. QED
    BY <1>1, <1>2, <2>1 DEF Answers
<1> HIDE DEF home, second, last
<1>7. QED
  BY <1>3, <1>4, <1>5, <1>6

(* Whatever table an inline text ends in, it is printed as written there.  *)
LEMMA Inlined ==
  ASSUME msgs \in TABLES, NEW op \in TakesText, NEW text \in TEXTS
  PROVE  LET r == Inline(op, text)
         IN  r.msgs \in TABLES /\ Grown(msgs, r.msgs) /\ Answers(r, op, text)
<1> DEFINE forced == IF ~job.extended THEN op
                     ELSE IF op = MES THEN XMES ELSE IF op = MESSAGE THEN XMESSAGE ELSE op
           back == IF forced = XMES THEN MES
                   ELSE IF forced = XMESSAGE THEN MESSAGE ELSE forced
           long == IF forced = XMESSAGE THEN Append(text, "#n") ELSE text
           r == Inline(op, text)
<1>1. /\ forced \in TakesText
      /\ (forced \in {MESSAGE, XMESSAGE}) <=> (op \in {MESSAGE, XMESSAGE})
      /\ XMES \in TextOps /\ NameOf(XMES) = "xtx"
      /\ forced \in {XPLAY, XDATA} =>
           /\ forced \in TextOps /\ NameOf(forced) = "other"
           /\ forced \notin {MESSAGE, XMESSAGE, XMES}
  BY DEF TakesText, TextOps, NameOf, MES, MESSAGE, SYSMESS, DESC, XMES, XMESSAGE, XPLAY, XDATA
<1>2. Printed(forced, text) = Printed(op, text)
  BY <1>1, PrintedAlike
<1>3. r = CASE forced \in {XMES, XMESSAGE} /\ ~job.normal -> Into(XMES, "xtx", long)
            [] forced \in {XPLAY, XDATA} -> Into(forced, "other", text)
            [] OTHER -> Cascade(back, text)
  BY DEF Inline
<1> HIDE DEF forced, r
<1>4. CASE forced \in {XMES, XMESSAGE} /\ ~job.normal
  <2> DEFINE x == Into(XMES, NameOf(XMES), long)
  <2>1. r = x
    BY <1>1, <1>3, <1>4 DEF XMES, XMESSAGE, XPLAY, XDATA
  <2>2. long \in TEXTS /\ Printed(XMES, long) = Printed(op, text)
    <3>1. XMES \notin {MESSAGE, XMESSAGE}
      BY DEF XMES, MESSAGE, XMESSAGE
    <3>2. CASE forced = XMESSAGE
      BY <1>2, <3>1, <3>2, PrintedWithBreak
    <3>3. CASE forced = XMES
      BY <1>2, <3>1, <3>3
    <3>4. QED
      BY <1>4, <3>2, <3>3
  <2> HIDE DEF long
  <2>3. /\ x.op = XMES /\ x.msgs \in TABLES /\ Grown(msgs, x.msgs)
        /\ x.id # NoRoom => /\ x.id \in Nat
                            /\ x.id + 1 \in 1..Len(x.msgs[NameOf(XMES)])
                            /\ x.msgs[NameOf(XMES)][x.id + 1] = long
    BY <1>1, <2>2, IntoTable, Zenon
  <2> HIDE DEF x
  <2>4. QED
    BY <1>1, <2>1, <2>2, <2>3 DEF Answers, r
<1>5. CASE forced \in {XPLAY, XDATA}
  <2> DEFINE x == Into(forced, NameOf(forced), text)
  <2>1. r = x
    BY <1>1, <1>3, <1>5
  <2>2. /\ x.op = forced /\ x.msgs \in TABLES /\ Grown(msgs, x.msgs)
        /\ x.id # NoRoom => /\ x.id \in Nat
                            /\ x.id + 1 \in 1..Len(x.msgs[NameOf(forced)])
                            /\ x.msgs[NameOf(forced)][x.id + 1] = text
    BY <1>1, <1>5, IntoTable, Zenon
  <2> HIDE DEF x
  <2>3. QED
    BY <1>1, <1>2, <1>5, <2>1, <2>2 DEF Answers, r
<1>6. CASE ~(forced \in {XMES, XMESSAGE} /\ ~job.normal) /\ forced \notin {XPLAY, XDATA}
  <2> DEFINE x == Cascade(back, text)
  <2>1. r = x
    BY <1>3, <1>6
  <2>2. /\ back \in {MES, MESSAGE, SYSMESS}
        /\ (back \in {MESSAGE, XMESSAGE}) <=> (forced \in {MESSAGE, XMESSAGE})
    BY <1>1, <1>6 DEF TakesText, MES, MESSAGE, SYSMESS, XMES, XMESSAGE, XPLAY, XDATA
  <2>3. Printed(back, text) = Printed(op, text)
    BY <1>2, <2>2, PrintedAlike
  <2> HIDE DEF back
  <2>4. x.msgs \in TABLES /\ Grown(msgs, x.msgs) /\ Answers(x, back, text)
    BY <2>2, Cascaded, Zenon
  <2> HIDE DEF x
  <2>5. QED
    BY <2>1, <2>3, <2>4 DEF Answers, r
<1>7. QED
  BY <1>4, <1>5, <1>6

(* What is printed is a text.                                              *)
LEMMA PrintedTyped ==
  ASSUME NEW text \in TEXTS, NEW op
  PROVE  Printed(op, text) \in TEXTS
<1> DEFINE broken == [i \in DOMAIN text |-> IF text[i] = "#n" THEN "\n" ELSE text[i]]
           end == IF op \in {MESSAGE, XMESSAGE} THEN <<"\n">> ELSE <<>>
<1>1. "\n" \in MARKS
  BY DEF MARKS
<1>2. text \in Seq(MARKS)
  BY DEF TEXTS
<1>3. broken \in Seq(MARKS)
  BY <1>1, <1>2
<1>4. end \in Seq(MARKS)
  BY <1>1
<1>5. Printed(op, text) = broken \o end
  BY DEF Printed
<1> HIDE DEF broken, end
<1>6. QED
  BY <1>3, <1>4, <1>5 DEF TEXTS

-----------------------------------------------------------------------------
(* The kinds of step there are, whichever action takes them.               *)

(* The run fails.                                                          *)
Fails == status' = "failed" /\ UNCHANGED <<lists, labels, msgs>>

SameEntry ==
  /\ at' \in AT
  /\ at'.process = at.process /\ at'.entry = at.entry /\ at'.list = at.list

(* Something is read that leaves no trace yet.                             *)
Rests ==
  /\ UNCHANGED <<status, lists, entries, labels, msgs, places, warned, fix>>
  /\ \/ UNCHANGED <<at, expect>>
     \/ /\ status = "parsing"
        /\ {expect, expect'} \subseteq Inside \ {"behind label"}
        /\ SameEntry /\ at'.copies \in {at.copies, at.copies + 1}

(* Condacts go into the list of the entry.                                 *)
Adds(cs) ==
  /\ status = "parsing" /\ UNCHANGED <<status, entries, places, warned, fix>>
  /\ expect \in {"synonym", "condact", "param"} /\ expect' = "condact"
  /\ SameEntry /\ at'.copies = at.copies
  /\ cs \in Seq(CONDACT) /\ lists' = Added(cs)

AddsPlain ==
  \E cs : /\ Adds(cs) /\ UNCHANGED <<labels, msgs>>
          /\ \A i \in DOMAIN cs : cs[i].label = NoLabel /\ cs[i].text = NoText

AddsText ==
  \E op \in TakesText, text \in TEXTS, indirect \in BOOLEAN :
    LET r == Inline(op, text)
    IN  /\ r.id # NoRoom /\ msgs' = r.msgs /\ UNCHANGED labels
        /\ Adds(<<Made(r.op, r.id, indirect, NoLabel, Printed(op, text))>>)

AddsBack ==
  \E x \in DOMAIN labels, value \in Int, indirect \in BOOLEAN :
    LET back == labels[x].entry - at.entry - 1
    IN  /\ ~labels[x].forward /\ labels[x].process = at.process /\ back >= -Reach
        /\ value = IF back < 0 THEN 2 * Reach + back ELSE back
        /\ UNCHANGED <<labels, msgs>>
        /\ Adds(<<Made(SKIP, value, indirect, labels[x].name, NoText)>>)

AddsForward ==
  \E name \in STRING :
    /\ Defined(name) = {} /\ CanAdd(name)
    /\ labels' = WithMention(name) /\ UNCHANGED msgs
    /\ Adds(<<Made(PENDINGSKIP, LabelId(WithMention(name), name), FALSE, name, NoText)>>)

Opens ==
  \E v \in 0..MAX_PROCESSES :
    /\ status = "parsing" /\ expect = "process" /\ expect' = "entry"
    /\ warned' = (warned \/ entries[v] # <<>>)
    /\ at' = Start(v)
    /\ UNCHANGED <<status, lists, entries, labels, msgs, places, fix>>

PlacesWith(name, place) ==
  [n \in DOMAIN places \cup {name} |-> IF n = name THEN place ELSE places[n]]

LabelsEnd ==
  \E name \in STRING :
    /\ status = "parsing" /\ expect \in {"synonym", "condact"} /\ expect' = "behind label"
    /\ CanAdd(name)
    /\ labels' = WithPlace(name, at.process, at.entry + 1)
    /\ places' = PlacesWith(name, <<at.process, Len(entries[at.process]) + at.copies>>)
    /\ UNCHANGED <<at, status, lists, entries, msgs, warned, fix>>

(* An entry, if there is one, is closed; a is what follows.                *)
Between(a) ==
  /\ status = "parsing" /\ UNCHANGED <<msgs, warned, fix>>
  /\ \/ expect = "entry" /\ UNCHANGED entries /\ a = at
     \/ expect \in {"synonym", "condact", "behind label"} /\ CloseEntry /\ a = Closed

Starts ==
  \E a : /\ Between(a)
         /\ expect' = "verb" /\ lists' = Append(lists, <<>>)
         /\ at' = [a EXCEPT !.copies = 1, !.list = Len(lists) + 1]
         /\ UNCHANGED <<status, labels, places>>

Leaves ==
  \E a : /\ Between(a)
         /\ at' = a /\ UNCHANGED <<lists, labels, places>>
         /\ \/ expect' = "process" /\ UNCHANGED status
            \/ expect' = "nothing" /\ status' = "fixing"

LabelsNext ==
  \E a : \E name \in STRING :
    /\ Between(a) /\ CanAdd(name)
    /\ labels' = WithPlace(name, at.process, a.entry)
    /\ places' = PlacesWith(name, <<at.process, Len(entries'[a.process])>>)
    /\ at' = a /\ expect' = "entry" /\ UNCHANGED <<status, lists>>

Walks ==
  /\ status = "fixing" /\ fix[1] <= MAX_PROCESSES /\ fix' = NextEntry
  /\ UNCHANGED <<status, expect, at, entries, labels, msgs, places, warned>>

FixSkips ==
  /\ Walks /\ UNCHANGED lists
  /\ \/ entries[fix[1]] = <<>>
     \/ Pendings(lists[entries[fix[1]][fix[2] + 1]]) = {}

FixSets ==
  \E i :
    LET n == entries[fix[1]][fix[2] + 1]
        label == LabelAt(lists[n][i].value)
        ahead == label.entry - fix[2] - 1
    IN  /\ Walks /\ entries[fix[1]] # <<>>
        /\ i \in Pendings(lists[n]) /\ \A y \in Pendings(lists[n]) : i <= y
        /\ ~label.forward /\ label.process = fix[1] /\ ~(ahead + 1 > Reach)
        /\ lists' = [lists EXCEPT ![n][i].op = SKIP, ![n][i].value = ahead]

Ends ==
  /\ status = "fixing" /\ fix[1] > MAX_PROCESSES /\ status' = "done"
  /\ UNCHANGED <<expect, at, lists, entries, labels, msgs, places, warned, fix>>

(* The operands of a token of the source.                                  *)
LEMMA TokenTyped ==
  ASSUME Tables, NEW tok \in Source
  PROVE  IsToken(tok)
<1>1. IsJob(job) /\ read \in Nat
  BY JobsAssumption DEF Tables
<1>2. CASE read < Len(job.prefix)
  <2>1. tok = job.prefix[read + 1] /\ read + 1 \in 1..Len(job.prefix)
    BY <1>1, <1>2 DEF Source, IsJob
  <2>2. QED
    BY <1>1, <2>1 DEF IsJob
<1>3. CASE ~(read < Len(job.prefix))
  <2>1. tok \in job.alphabet \/ tok = [t |-> "END"]
    BY <1>3 DEF Source
  <2>2. tok = [t |-> "END"] => IsToken(tok)
    BY DEF IsToken
  <2>3. QED
    BY <1>1, <2>1, <2>2 DEF IsJob
<1>4. QED
  BY <1>2, <1>3

(* What scan does itself, the header of an entry and the refusals.         *)
LEMMA QuietSteps ==
  ASSUME Tables, Going, NEW tok,
         \/ Skip(tok) \/ If(tok) \/ Else(tok) \/ Endif(tok) \/ Define(tok) \/ Classic(tok)
         \/ UnknownCondact(tok) \/ BadParam(tok)
         \/ EndOfStream \/ Stopped \/ UNCHANGED vars
  PROVE  Fails \/ Rests
<1>1. CASE Skip(tok)
  BY <1>1, Zenon DEF Skip, Token, parsed, Rests
<1>2. CASE If(tok) \/ Else(tok) \/ Endif(tok)
  BY <1>2, Zenon DEF If, Else, Endif, Token, Fail, parsed, Fails, Rests
<1>3. CASE Define(tok) \/ Classic(tok)
  BY <1>3, Zenon DEF Define, Classic, Token, Fail, parsed, Fails, Rests
<1>4. CASE UnknownCondact(tok) \/ BadParam(tok)
  BY <1>4, Zenon DEF UnknownCondact, BadParam, Refused, Fails
<1>5. CASE EndOfStream
  BY <1>5, Zenon DEF EndOfStream, Fail, parsed, Fails
<1>6. CASE Stopped \/ UNCHANGED vars
  BY <1>6, Zenon DEF Stopped, vars, parsed, Rests
<1>7. QED
  BY <1>1, <1>2, <1>3, <1>4, <1>5, <1>6

(* The header of an entry, and "@".                                        *)
LEMMA HeaderSteps ==
  ASSUME Tables, Going, NEW tok,
         ParseVerbNoun(tok) \/ ParseSynonym(tok) \/ Indirection(tok)
  PROVE  Fails \/ Rests
<1>1. status = "parsing" /\ fix' = fix /\ at \in AT
  BY DEF ParseVerbNoun, ParseSynonym, Indirection, Delivered, Token, Going
<1>2. CASE ParseVerbNoun(tok)
  <2>1. CASE tok.t = "_" \/ (tok.t = "word" /\ tok[expect])
    <3>1. /\ expect \in {"verb", "noun"}
          /\ expect' = IF expect = "verb" THEN "noun" ELSE "synonym"
          /\ UNCHANGED <<at, lists, entries, labels, msgs, warned, places, status>>
      BY <1>2, <2>1, Zenon DEF ParseVerbNoun
    <3>2. {expect, expect'} \subseteq Inside \ {"behind label"}
      BY <3>1 DEF Inside
    <3>3. SameEntry /\ at'.copies \in {at.copies, at.copies + 1}
      BY <1>1, <3>1 DEF SameEntry
    <3>4. QED
      BY <1>1, <3>1, <3>2, <3>3 DEF Rests
  <2>2. CASE ~(tok.t = "_" \/ (tok.t = "word" /\ tok[expect]))
    BY <1>2, <2>2, Zenon DEF ParseVerbNoun, Refused, Fails
  <2>3. QED
    BY <2>1, <2>2, Zenon
<1>3. CASE ParseSynonym(tok)
  <2>1. /\ expect = "synonym" /\ expect' = "verb"
        /\ at' = [at EXCEPT !.copies = @ + 1]
        /\ UNCHANGED <<lists, entries, labels, msgs, warned, places, status>>
    BY <1>3 DEF ParseSynonym
  <2>2. SameEntry /\ at'.copies = at.copies + 1
    BY <1>1, <2>1 DEF SameEntry, AT
  <2>3. {expect, expect'} \subseteq Inside \ {"behind label"}
    BY <2>1 DEF Inside
  <2>4. QED
    BY <1>1, <2>1, <2>2, <2>3 DEF Rests
<1>4. CASE Indirection(tok)
  <2>1. CASE at.indirect
    BY <1>4, <2>1, Zenon DEF Indirection, Refused, Fails
  <2>2. CASE ~at.indirect
    <3>1. /\ expect = "param" /\ at' = [at EXCEPT !.indirect = TRUE]
          /\ UNCHANGED <<expect, lists, entries, labels, msgs, warned, places, status>>
      BY <1>4, <2>2, Zenon DEF Indirection
    <3>2. SameEntry /\ at'.copies = at.copies
      BY <1>1, <3>1 DEF SameEntry, AT
    <3>3. {expect, expect'} \subseteq Inside \ {"behind label"}
      BY <3>1 DEF Inside
    <3>4. QED
      BY <1>1, <3>1, <3>2, <3>3 DEF Rests
  <2>3. QED
    BY <2>1, <2>2
<1>5. QED
  BY <1>2, <1>3, <1>4

(* A process is opened.                                                    *)
LEMMA ProcessSteps ==
  ASSUME Tables, Going, NEW tok, ParseProcess(tok)
  PROVE  Fails \/ Opens
<1>1. status = "parsing" /\ fix' = fix
  BY DEF ParseProcess, Delivered, Token
<1>2. CASE tok.t = "number" /\ tok.value \in 0..MAX_PROCESSES
  <2>1. /\ warned' = (warned \/ entries[tok.value] # <<>>)
        /\ at' = Start(tok.value) /\ expect = "process" /\ expect' = "entry"
        /\ UNCHANGED <<lists, entries, labels, msgs, places, status>>
    BY <1>2, Zenon DEF ParseProcess
  <2>2. QED
    BY <1>1, <1>2, <2>1, Zenon DEF Opens
<1>3. CASE ~(tok.t = "number" /\ tok.value \in 0..MAX_PROCESSES)
  BY <1>3, Zenon DEF ParseProcess, Refused, Fails
<1>4. QED
  BY <1>2, <1>3

(* What stands between two entries.                                        *)
LEMMA TurnSteps ==
  ASSUME Tables, Going, NEW tok, IsToken(tok),
         ParseEntry(tok) \/ EndEntry(tok) \/ BehindLabel(tok)
  PROVE  Fails \/ Starts \/ Leaves \/ LabelsNext
<1>1. status = "parsing" /\ UNCHANGED <<fix, msgs, warned>>
  BY DEF ParseEntry, EndEntry, BehindLabel, Delivered, Token
<1>2. \E a : Between(a) /\ EntryStarts(tok, a)
  <2>1. CASE ParseEntry(tok)
    <3>1. expect = "entry" /\ UNCHANGED entries /\ EntryStarts(tok, at)
      BY <2>1, Zenon DEF ParseEntry
    <3>2. QED
      BY <1>1, <3>1, Zenon DEF Between
  <2>2. CASE EndEntry(tok)
    <3>1. expect \in {"synonym", "condact"} /\ CloseEntry /\ EntryStarts(tok, Closed)
      BY <2>2, Zenon DEF EndEntry, AtCondact
    <3>2. QED
      BY <1>1, <3>1, Zenon DEF Between
  <2>3. CASE BehindLabel(tok)
    <3>1. expect = "behind label" /\ CloseEntry /\ EntryStarts(tok, Closed)
      BY <2>3, Zenon DEF BehindLabel
    <3>2. QED
      BY <1>1, <3>1, Zenon DEF Between
  <2>4. QED
    BY <2>1, <2>2, <2>3
<1>3. PICK a : Between(a) /\ EntryStarts(tok, a)
  BY <1>2
<1>4. CASE tok.t = ">"
  <2>1. /\ expect' = "verb" /\ lists' = Append(lists, <<>>)
        /\ at' = [a EXCEPT !.copies = 1, !.list = Len(lists) + 1]
        /\ UNCHANGED <<labels, places, status>>
    BY <1>3, <1>4 DEF EntryStarts
  <2>2. QED
    BY <1>3, <2>1, Zenon DEF Starts
<1>5. CASE tok.t = "PRO"
  <2>1. expect' = "process" /\ at' = a /\ UNCHANGED <<lists, labels, places, status>>
    BY <1>3, <1>5 DEF EntryStarts
  <2>2. QED
    BY <1>3, <2>1, Zenon DEF Leaves
<1>6. CASE tok.t = "END"
  <2>1. /\ expect' = "nothing" /\ at' = a
        /\ status' = IF nested = 0 THEN "fixing" ELSE "failed"
        /\ UNCHANGED <<lists, labels, places>>
    BY <1>3, <1>6 DEF EntryStarts
  <2>2. CASE nested = 0
    BY <1>3, <2>1, <2>2, Zenon DEF Leaves
  <2>3. CASE nested # 0
    BY <1>1, <2>1, <2>3 DEF Fails
  <2>4. QED
    BY <2>2, <2>3
<1>7. CASE tok.t = "label" /\ CanAdd(tok.name)
  <2>1. /\ PlaceLabel(tok.name, a.entry, Len(entries'[a.process]))
        /\ expect' = "entry" /\ at' = a /\ UNCHANGED <<lists, status>>
    BY <1>3, <1>7 DEF EntryStarts
  <2>2. /\ labels' = WithPlace(tok.name, at.process, a.entry)
        /\ places' = PlacesWith(tok.name, <<at.process, Len(entries'[a.process])>>)
    BY <2>1, Zenon DEF PlaceLabel, PlacesWith
  <2>3. tok.name \in STRING
    BY <1>7 DEF IsToken
  <2>4. QED
    BY <1>3, <1>7, <2>1, <2>2, <2>3, Zenon DEF LabelsNext
<1>8. CASE tok.t \notin {">", "PRO", "END"} /\ ~(tok.t = "label" /\ CanAdd(tok.name))
  <2>1. status' = "failed" /\ UNCHANGED <<lists, labels>>
    BY <1>3, <1>8 DEF EntryStarts
  <2>2. QED
    BY <1>1, <2>1 DEF Fails
<1>9. QED
  BY <1>4, <1>5, <1>6, <1>7, <1>8

(* A label that ends an entry.                                             *)
LEMMA LabelSteps ==
  ASSUME Tables, Going, NEW tok, IsToken(tok), LabelInEntry(tok)
  PROVE  Fails \/ LabelsEnd
<1>1. /\ status = "parsing" /\ fix' = fix /\ tok.t = "label"
      /\ expect \in {"synonym", "condact"}
  BY DEF LabelInEntry, Delivered, Token, AtCondact
<1>2. CASE CanAdd(tok.name)
  <2>1. /\ PlaceLabel(tok.name, at.entry + 1, Len(entries[at.process]) + at.copies)
        /\ expect' = "behind label"
        /\ UNCHANGED <<at, lists, entries, msgs, warned, status>>
    BY <1>2, Zenon DEF LabelInEntry
  <2>2. /\ labels' = WithPlace(tok.name, at.process, at.entry + 1)
        /\ places' = PlacesWith(tok.name, <<at.process, Len(entries[at.process]) + at.copies>>)
    BY <2>1, Zenon DEF PlaceLabel, PlacesWith
  <2>3. tok.name \in STRING
    BY <1>1 DEF IsToken
  <2>4. QED
    BY <1>1, <1>2, <2>1, <2>2, <2>3, Zenon DEF LabelsEnd
<1>3. CASE ~CanAdd(tok.name)
  BY <1>3, Zenon DEF LabelInEntry, Refused, Fails
<1>4. QED
  BY <1>2, <1>3

(* A condact without text or label, from raw bytes or from its name.       *)
LEMMA MadeTyped ==
  ASSUME NEW op \in Int, NEW value \in Int, NEW indirect \in BOOLEAN,
         NEW label \in STRING \cup {NoLabel}, NEW text \in TEXTS \cup {NoText}
  PROVE  /\ Made(op, value, indirect, label, text) \in CONDACT
         /\ <<Made(op, value, indirect, label, text)>> \in Seq(CONDACT)
BY DEF Made, CONDACT

(* A finished parameter.                                                   *)
LEMMA FinishAdds ==
  ASSUME Tables, Going, status = "parsing", fix' = fix,
         expect \in {"synonym", "condact", "param"},
         NEW op \in Int, NEW value \in Int, NEW indirect \in BOOLEAN,
         NEW label \in STRING \cup {NoLabel}, NEW text \in TEXTS \cup {NoText},
         Finish(op, value, indirect, label, text)
  PROVE  Adds(<<Made(op, value, indirect, label, text)>>)
<1>1. at \in AT
  BY DEF Going
<1>2. /\ lists' = Added(<<Made(op, value, indirect, label, text)>>)
      /\ at' = [at EXCEPT !.op = op, !.indirect = indirect, !.param = value]
      /\ expect' = "condact" /\ UNCHANGED <<entries, warned, places, status>>
  BY DEF Finish
<1>3. SameEntry /\ at'.copies = at.copies
  BY <1>1, <1>2 DEF SameEntry, AT
<1>4. QED
  BY <1>2, <1>3, MadeTyped DEF Adds

(* Condacts that need no label and no text.                                *)
LEMMA PlainSteps ==
  ASSUME Tables, Going, NEW tok, IsToken(tok),
         ParseBytes(tok) \/ UserPtr(tok) \/ ParseCondact(tok) \/ NumberParam(tok)
  PROVE  Fails \/ Rests \/ AddsPlain
<1>1. /\ status = "parsing" /\ fix' = fix /\ at \in AT
      /\ expect \in {"synonym", "condact", "param"}
  BY DEF ParseBytes, UserPtr, ParseCondact, NumberParam, Delivered, Token, AtCondact, Going
<1>2. at.op \in Int /\ at.indirect \in BOOLEAN /\ at.param \in Int
  BY <1>1 DEF AT
<1>3. ASSUME NEW op \in Int, NEW value \in Int, NEW indirect \in BOOLEAN,
             Finish(op, value, indirect, NoLabel, NoText), UNCHANGED <<labels, msgs>>
      PROVE  AddsPlain
  <2> DEFINE cs == <<Made(op, value, indirect, NoLabel, NoText)>>
  <2>1. Adds(cs)
    BY <1>1, <1>3, FinishAdds, Zenon
  <2>2. \A i \in DOMAIN cs : cs[i].label = NoLabel /\ cs[i].text = NoText
    BY DEF Made
  <2> HIDE DEF cs
  <2>3. QED
    BY <1>3, <2>1, <2>2, Zenon DEF AddsPlain
<1>4. CASE ParseBytes(tok)
  <2> DEFINE cs == [i \in DOMAIN tok.bytes |->
                      Made(tok.bytes[i], at.param, at.indirect, NoLabel, NoText)]
  <2>1. CASE lists[at.list] = <<>> /\ tok.bytes = <<>>
    BY <1>4, <2>1, Zenon DEF ParseBytes, Refused, Fails
  <2>2. CASE ~(lists[at.list] = <<>> /\ tok.bytes = <<>>)
    <3>1. /\ lists' = Added(cs) /\ expect' = "condact"
          /\ UNCHANGED <<at, entries, labels, msgs, warned, places, status>>
      BY <1>4, <2>2, Zenon DEF ParseBytes
    <3>2. tok.bytes \in Seq(0..255)
      BY <1>4 DEF ParseBytes, IsToken
    <3>3. cs \in Seq(CONDACT)
      <4>1. \A i \in 1..Len(tok.bytes) : cs[i] \in CONDACT
        <5> SUFFICES ASSUME NEW i \in 1..Len(tok.bytes) PROVE cs[i] \in CONDACT
          OBVIOUS
        <5>1. tok.bytes[i] \in Int
          <6>1. tok.bytes[i] \in 0..255
            BY <3>2, ElementOfSeq, Zenon
          <6>2. \A x \in 0..255 : x \in Int
            OBVIOUS
          <6>3. QED
            BY <6>1, <6>2, Zenon
        <5>2. cs[i] = Made(tok.bytes[i], at.param, at.indirect, NoLabel, NoText)
          BY <3>2
        <5> HIDE DEF cs
        <5>3. QED
          BY <1>2, <5>1, <5>2, MadeTyped
      <4>2. DOMAIN cs = 1..Len(tok.bytes) /\ Len(tok.bytes) \in Nat
        BY <3>2
      <4>3. cs = [i \in 1..Len(tok.bytes) |-> cs[i]]
        BY <4>2
      <4> HIDE DEF cs
      <4>4. QED
        BY <4>1, <4>2, <4>3
    <3>4. \A i \in DOMAIN cs : cs[i].label = NoLabel /\ cs[i].text = NoText
      BY DEF Made
    <3> HIDE DEF cs
    <3>5. SameEntry /\ at'.copies = at.copies
      BY <1>1, <3>1 DEF SameEntry
    <3>6. Adds(cs)
      BY <1>1, <3>1, <3>3, <3>5 DEF Adds
    <3>7. QED
      BY <3>1, <3>4, <3>6, Zenon DEF AddsPlain
  <2>3. QED
    BY <2>1, <2>2
<1>5. CASE UserPtr(tok)
  <2>1. CASE tok.value \in 0..9
    <3>1. Finish(FAKE_USERPTR, tok.value, FALSE, NoLabel, NoText) /\ UNCHANGED <<labels, msgs>>
      BY <1>5, <2>1, Zenon DEF UserPtr
    <3>2. FAKE_USERPTR \in Int /\ tok.value \in Int
      BY <2>1 DEF FAKE_USERPTR
    <3>3. QED
      BY <1>3, <3>1, <3>2, Zenon
  <2>2. CASE tok.value \notin 0..9
    BY <1>5, <2>2, Zenon DEF UserPtr, Refused, Fails
  <2>3. QED
    BY <2>1, <2>2
<1>6. CASE ParseCondact(tok)
  <2>0. /\ expect \in {"synonym", "condact"} /\ tok.op \in Int
        /\ UNCHANGED <<entries, labels, msgs, warned, places, status>>
    BY <1>6 DEF ParseCondact, AtCondact, IsToken
  <2>1. CASE tok.params = 0
    <3> DEFINE cs == <<Made(tok.op, at.param, at.indirect, NoLabel, NoText)>>
    <3>1. lists' = Added(cs) /\ expect' = "condact" /\ UNCHANGED at
      BY <1>6, <2>1, Zenon DEF ParseCondact
    <3>2. cs \in Seq(CONDACT)
      BY <1>2, <2>0, MadeTyped
    <3>3. \A i \in DOMAIN cs : cs[i].label = NoLabel /\ cs[i].text = NoText
      BY DEF Made
    <3> HIDE DEF cs
    <3>4. SameEntry /\ at'.copies = at.copies
      BY <1>1, <3>1 DEF SameEntry
    <3>5. Adds(cs)
      BY <1>1, <2>0, <3>1, <3>2, <3>4 DEF Adds
    <3>6. QED
      BY <2>0, <3>3, <3>5, Zenon DEF AddsPlain
  <2>2. CASE tok.params # 0
    <3>1. /\ at' = [at EXCEPT !.op = tok.op, !.indirect = FALSE]
          /\ expect' = "param" /\ UNCHANGED lists
      BY <1>6, <2>2, Zenon DEF ParseCondact
    <3>2. SameEntry /\ at'.copies = at.copies
      BY <1>1, <2>0, <3>1 DEF SameEntry, AT
    <3>3. {expect, expect'} \subseteq Inside \ {"behind label"}
      BY <2>0, <3>1 DEF Inside
    <3>4. QED
      BY <1>1, <2>0, <3>1, <3>2, <3>3 DEF Rests
  <2>3. QED
    BY <2>1, <2>2
<1>7. CASE NumberParam(tok)
  <2> DEFINE given == IF tok.t = "_" THEN MAX_PARAMETER_RANGE ELSE tok.value
             value == IF at.op = SKIP /\ given < 0 THEN 2 * Reach + given ELSE given
  <2>1. \/ Refused
        \/ Finish(at.op, value, at.indirect, NoLabel, NoText) /\ UNCHANGED <<labels, msgs>>
    BY <1>7, Zenon DEF NumberParam
  <2>2. value \in Int
    <3>1. tok.t = "_" \/ tok.value \in Int
      BY <1>7 DEF NumberParam, IsToken
    <3>2. Reach \in Int /\ MAX_PARAMETER_RANGE \in Int
      BY LimitsAssumption DEF MAX_PARAMETER_RANGE
    <3>3. given \in Int
      BY <3>1, <3>2
    <3> HIDE DEF given
    <3>4. QED
      BY <3>2, <3>3
  <2> HIDE DEF value
  <2>3. CASE Refused
    BY <2>3, Zenon DEF Refused, Fails
  <2>4. CASE Finish(at.op, value, at.indirect, NoLabel, NoText) /\ UNCHANGED <<labels, msgs>>
    BY <1>2, <1>3, <2>2, <2>4, Zenon
  <2>5. QED
    BY <2>1, <2>3, <2>4
<1>8. QED
  BY <1>4, <1>5, <1>6, <1>7

(* An inline text.                                                         *)
LEMMA TextSteps ==
  ASSUME Tables, Going, NEW tok, IsToken(tok), TextParam(tok)
  PROVE  Fails \/ AddsText
<1>1. /\ status = "parsing" /\ fix' = fix /\ at \in AT
      /\ expect = "param" /\ tok.t = "text"
  BY DEF TextParam, Delivered, Token, Going
<1>2. at.indirect \in BOOLEAN /\ tok.text \in TEXTS /\ msgs \in TABLES
  BY <1>1 DEF AT, IsToken, Tables
<1> DEFINE r == Inline(at.op, tok.text)
           wanted == Printed(at.op, tok.text)
<1>3. CASE Refused
  BY <1>3, Zenon DEF Refused, Fails
<1>4. CASE at.op \in TakesText /\ r.id # NoRoom /\ msgs' = r.msgs /\ UNCHANGED labels
           /\ Finish(r.op, r.id, at.indirect, NoLabel, wanted)
  <2>1. Answers(r, at.op, tok.text) /\ wanted \in TEXTS
    BY <1>2, <1>4, Inlined, PrintedTyped, Zenon
  <2> HIDE DEF r, wanted
  <2>2. r.id \in Int /\ r.op \in TextOps
    BY <1>4, <2>1 DEF Answers
  <2>3. r.op \in Int
    BY <2>2 DEF TextOps, MES, MESSAGE, SYSMESS, DESC, XMES, XPLAY, XDATA
  <2>4. Adds(<<Made(r.op, r.id, at.indirect, NoLabel, wanted)>>)
    BY <1>1, <1>2, <1>4, <2>1, <2>2, <2>3, FinishAdds, Zenon
  <2>5. QED
    BY <1>2, <1>4, <2>4, Zenon DEF AddsText, r, wanted
<1>5. QED
  BY <1>3, <1>4, Zenon DEF TextParam

(* A label mentioned has a slot, and no slot moves for it.                 *)
LEMMA Mentioned ==
  ASSUME labels \in Seq(LABEL), NEW name \in STRING
  PROVE  /\ WithMention(name) \in Seq(LABEL)
         /\ Len(labels) <= Len(WithMention(name))
         /\ \A i \in 1..Len(labels) : WithMention(name)[i] = labels[i]
         /\ \A i \in 1..Len(WithMention(name)) :
              i \in 1..Len(labels) \/ WithMention(name)[i].forward
         /\ LabelId(WithMention(name), name) \in Nat
         /\ LabelId(WithMention(name), name) + 1 \in DOMAIN WithMention(name)
         /\ WithMention(name)[LabelId(WithMention(name), name) + 1].name = name
<1> DEFINE t == WithMention(name)
           new == [name |-> name, process |-> -1, entry |-> -1, forward |-> TRUE]
<1>1. new \in LABEL /\ new.name = name /\ new.forward
  BY DEF LABEL
<1>2. t = IF \E i \in DOMAIN labels : labels[i].name = name THEN labels ELSE Append(labels, new)
  BY DEF WithMention, Slot
<1> HIDE DEF new, t
<1>3. /\ t \in Seq(LABEL) /\ Len(labels) <= Len(t)
      /\ \A i \in 1..Len(labels) : t[i] = labels[i]
      /\ \A i \in 1..Len(t) : i \in 1..Len(labels) \/ t[i].forward
      /\ \E i \in DOMAIN t : t[i].name = name
  <2>1. CASE \E i \in DOMAIN labels : labels[i].name = name
    BY <1>2, <2>1
  <2>2. CASE ~\E i \in DOMAIN labels : labels[i].name = name
    <3>1. t = Append(labels, new)
      BY <1>2, <2>2
    <3>2. /\ t \in Seq(LABEL) /\ Len(t) = Len(labels) + 1 /\ DOMAIN t = 1 .. Len(labels) + 1
          /\ \A i \in 1..Len(labels) : t[i] = labels[i]
          /\ t[Len(labels) + 1] = new
      BY <1>1, <3>1
    <3>3. QED
      BY <1>1, <3>2
  <2>3. QED
    BY <2>1, <2>2
<1> DEFINE c == CHOOSE i \in DOMAIN t : t[i].name = name
<1>4. c \in DOMAIN t /\ t[c].name = name
  BY <1>3
<1> HIDE DEF c
<1>5. LabelId(t, name) = c - 1
  BY DEF LabelId, c
<1>6. c \in Nat \ {0} /\ c - 1 \in Nat /\ (c - 1) + 1 = c
  BY <1>3, <1>4
<1>7. QED
  BY <1>3, <1>4, <1>5, <1>6 DEF t

(* A label for a SKIP.                                                     *)
LEMMA SkipSteps ==
  ASSUME Tables, Going, NEW tok, IsToken(tok), BackLabel(tok) \/ ForwardLabel(tok)
  PROVE  Fails \/ AddsBack \/ AddsForward
<1>1. /\ status = "parsing" /\ fix' = fix /\ at \in AT
      /\ expect = "param" /\ tok.name \in STRING
      /\ labels \in Seq(LABEL)
  BY DEF BackLabel, ForwardLabel, Delivered, Token, Going, IsToken, Tables
<1>2. at.indirect \in BOOLEAN /\ at.entry \in Nat
  BY <1>1 DEF AT
<1>3. CASE Refused
  BY <1>3, Zenon DEF Refused, Fails
<1>4. CASE BackLabel(tok)
  <2> DEFINE x == CHOOSE i \in Defined(tok.name) : TRUE
             back == labels[x].entry - at.entry - 1
             value == IF back < 0 THEN 2 * Reach + back ELSE back
  <2>1. Defined(tok.name) # {}
    BY <1>4 DEF BackLabel
  <2>2. x \in Defined(tok.name)
    BY <2>1
  <2>3. \/ Refused
        \/ /\ ~(labels[x].process # at.process \/ back < -Reach)
           /\ Finish(SKIP, value, at.indirect, tok.name, NoText)
           /\ UNCHANGED <<labels, msgs>>
    BY <1>4, Zenon DEF BackLabel
  <2> HIDE DEF x
  <2>4. x \in DOMAIN labels /\ ~labels[x].forward /\ labels[x].name = tok.name
    BY <2>2 DEF Defined, Slot
  <2>5. labels[x].entry \in Int
    <3>1. labels[x] \in LABEL
      BY <1>1, <2>4
    <3>2. QED
      BY <3>1 DEF LABEL
  <2>6. back \in Int /\ value \in Int /\ Reach \in Nat
    BY <1>2, <2>5, LimitsAssumption
  <2>7. CASE /\ ~(labels[x].process # at.process \/ back < -Reach)
             /\ Finish(SKIP, value, at.indirect, tok.name, NoText)
             /\ UNCHANGED <<labels, msgs>>
    <3>1. SKIP \in Int
      BY DEF SKIP
    <3>2. labels[x].process = at.process /\ back >= -Reach
      BY <2>6, <2>7
    <3> DEFINE v == value
    <3>3. /\ v \in Int /\ v = IF back < 0 THEN 2 * Reach + back ELSE back
          /\ Finish(SKIP, v, at.indirect, tok.name, NoText)
      BY <2>6, <2>7
    <3> HIDE DEF v
    <3>4. Adds(<<Made(SKIP, v, at.indirect, tok.name, NoText)>>)
      BY <1>1, <1>2, <3>1, <3>3, FinishAdds, Zenon
    <3>5. QED
      BY <1>2, <2>4, <2>7, <3>2, <3>3, <3>4, Zenon DEF AddsBack
  <2>8. QED
    BY <1>3, <2>3, <2>7
<1>5. CASE ForwardLabel(tok)
  <2> DEFINE id == LabelId(WithMention(tok.name), tok.name)
  <2>1. Defined(tok.name) = {} /\ PENDINGSKIP \in Int
    BY <1>5 DEF ForwardLabel, PENDINGSKIP
  <2>2. \/ Refused
        \/ /\ CanAdd(tok.name) /\ labels' = WithMention(tok.name) /\ UNCHANGED msgs
           /\ Finish(PENDINGSKIP, id, FALSE, tok.name, NoText)
    BY <1>5, Zenon DEF ForwardLabel
  <2>3. id \in Int
    <3>1. id \in Nat
      BY <1>1, Mentioned, Zenon
    <3> HIDE DEF id
    <3>2. QED
      BY <3>1
  <2> HIDE DEF id
  <2>4. CASE /\ CanAdd(tok.name) /\ labels' = WithMention(tok.name) /\ UNCHANGED msgs
             /\ Finish(PENDINGSKIP, id, FALSE, tok.name, NoText)
    <3>1. Adds(<<Made(PENDINGSKIP, id, FALSE, tok.name, NoText)>>)
      BY <1>1, <2>1, <2>3, <2>4, FinishAdds, Zenon
    <3>2. QED
      BY <1>1, <2>1, <2>4, <3>1, Zenon DEF AddsForward, id
  <2>5. QED
    BY <1>3, <2>2, <2>4
<1>6. QED
  BY <1>4, <1>5

(* The walk over the entries.                                              *)
LEMMA WalkSteps ==
  ASSUME Tables, Going, Grammar, FixEntry \/ Fixed
  PROVE  Fails \/ FixSkips \/ FixSets \/ Ends
<1>1. CASE Fixed
  BY <1>1, Zenon DEF Fixed, parsed, Ends
<1>2. CASE FixEntry
  <2> DEFINE here == entries[fix[1]]
             n == here[fix[2] + 1]
             pending == Pendings(lists[n])
             i == CHOOSE x \in pending : \A y \in pending : x <= y
             label == LabelAt(lists[n][i].value)
             ahead == label.entry - fix[2] - 1
  <2>1. /\ status = "fixing" /\ fix[1] <= MAX_PROCESSES
        /\ UNCHANGED <<expect, at, entries, labels, msgs, places, warned>>
    BY <1>2, Zenon DEF FixEntry
  <2>2. IF here = <<>> \/ pending = {}
        THEN fix' = NextEntry /\ UNCHANGED <<lists, status>>
        ELSE IF label.forward \/ label.process # fix[1] \/ ahead + 1 > Reach
             THEN status' = "failed" /\ UNCHANGED <<lists, fix>>
             ELSE /\ lists' = [lists EXCEPT ![n][i].op = SKIP, ![n][i].value = ahead]
                  /\ fix' = NextEntry
                  /\ UNCHANGED status
    BY <1>2, Zenon DEF FixEntry
  <2>3. CASE here = <<>> \/ pending = {}
    BY <2>1, <2>2, <2>3, Zenon DEF FixSkips, Walks
  <2>4. CASE ~(here = <<>> \/ pending = {})
    <3>1. CASE label.forward \/ label.process # fix[1] \/ ahead + 1 > Reach
      BY <2>1, <2>2, <2>4, <3>1, Zenon DEF Fails
    <3>2. CASE ~(label.forward \/ label.process # fix[1] \/ ahead + 1 > Reach)
      <4>1. /\ lists' = [lists EXCEPT ![n][i].op = SKIP, ![n][i].value = ahead]
            /\ fix' = NextEntry /\ UNCHANGED status
        BY <2>2, <2>4, <3>2, Zenon
      <4>2. i \in pending /\ \A y \in pending : i <= y
        <5>1. /\ entries \in [0..MAX_PROCESSES -> Seq(Nat)] /\ lists \in Seq(Seq(CONDACT))
              /\ fix \in Nat \X Nat /\ fix[1] \in 0..MAX_PROCESSES
              /\ fix[2] = 0 \/ fix[2] < Len(here)
              /\ \A j \in DOMAIN here : here[j] \in DOMAIN lists
          BY <2>1, LimitsAssumption DEF Tables, Going, Grammar, Walk, WalkedTo, Sound, Shared
        <5>2. here \in Seq(Nat) /\ here # <<>>
          BY <2>4, <5>1
        <5>3. fix[2] + 1 \in DOMAIN here
          BY <5>1, <5>2
        <5>4. n \in DOMAIN lists
          BY <5>1, <5>3
        <5>5. lists[n] \in Seq(CONDACT)
          BY <5>1, <5>4
        <5>6. pending \subseteq Nat /\ pending # {}
          <6>1. \A l \in Seq(CONDACT) : Pendings(l) \subseteq Nat
            BY DEF Pendings
          <6>2. QED
            BY <2>4, <5>5, <6>1, Zenon
        <5> HIDE DEF pending
        <5>7. QED
          BY <5>6, LeastNatural
      <4> HIDE DEF i
      <4>3. /\ ~label.forward /\ label.process = fix[1] /\ ~(ahead + 1 > Reach)
        BY <3>2
      <4>4. QED
        BY <2>1, <2>4, <4>1, <4>2, <4>3, Zenon DEF FixSets, Walks
    <3>3. QED
      BY <3>1, <3>2
  <2>5. QED
    BY <2>3, <2>4
<1>3. QED
  BY <1>1, <1>2

Kind ==
  \/ Fails \/ Rests \/ Opens
  \/ AddsPlain \/ AddsText \/ AddsBack \/ AddsForward
  \/ LabelsEnd \/ Starts \/ Leaves \/ LabelsNext
  \/ FixSkips \/ FixSets \/ Ends

(* There are no others.                                                    *)
LEMMA StepKinds ==
  ASSUME Tables, Going, Grammar, [Next]_vars
  PROVE  Kind
<1>1. CASE \E tok \in Source : Parse(tok)
  <2>1. PICK tok \in Source : Parse(tok)
    BY <1>1
  <2>2. IsToken(tok)
    BY TokenTyped
  <2>3. CASE \/ Skip(tok) \/ If(tok) \/ Else(tok) \/ Endif(tok) \/ Define(tok)
             \/ Classic(tok) \/ UnknownCondact(tok) \/ BadParam(tok)
    BY <2>3, QuietSteps, Zenon DEF Kind
  <2>4. CASE ParseVerbNoun(tok) \/ ParseSynonym(tok) \/ Indirection(tok)
    BY <2>4, HeaderSteps, Zenon DEF Kind
  <2>5. CASE ParseProcess(tok)
    BY <2>5, ProcessSteps, Zenon DEF Kind
  <2>6. CASE ParseEntry(tok) \/ EndEntry(tok) \/ BehindLabel(tok)
    BY <2>2, <2>6, TurnSteps, Zenon DEF Kind
  <2>7. CASE LabelInEntry(tok)
    BY <2>2, <2>7, LabelSteps, Zenon DEF Kind
  <2>8. CASE ParseBytes(tok) \/ UserPtr(tok) \/ ParseCondact(tok) \/ NumberParam(tok)
    BY <2>2, <2>8, PlainSteps, Zenon DEF Kind
  <2>9. CASE TextParam(tok)
    BY <2>2, <2>9, TextSteps, Zenon DEF Kind
  <2>10. CASE BackLabel(tok) \/ ForwardLabel(tok)
    BY <2>2, <2>10, SkipSteps, Zenon DEF Kind
  <2>11. QED
    BY <2>1, <2>3, <2>4, <2>5, <2>6, <2>7, <2>8, <2>9, <2>10, Zenon DEF Parse
<1>2. CASE EndOfStream \/ Stopped \/ UNCHANGED vars
  BY <1>2, QuietSteps, Zenon DEF Kind
<1>3. CASE FixEntry \/ Fixed
  BY <1>3, WalkSteps, Zenon DEF Kind
<1>4. QED
  BY <1>1, <1>2, <1>3, Zenon DEF Next

-----------------------------------------------------------------------------
(* The label table.                                                        *)

(* From lb to new no label loses its slot, and none that is placed moves.  *)
Keeps(lb, new) ==
  /\ Len(lb) <= Len(new)
  /\ \A i \in 1..Len(lb) : /\ new[i].name = lb[i].name
                           /\ ~lb[i].forward => new[i] = lb[i]

(* A label that is placed before an entry.                                 *)
PlacedAt(name, process, entry) ==
  [name |-> name, process |-> process, entry |-> entry, forward |-> FALSE]

(* From lb to new the label got its place, in its slot or a new one; all   *)
(* others stay.                                                            *)
HasPlaced(lb, new, name, label) ==
  /\ new \in Seq(LABEL) /\ Keeps(lb, new)
  /\ \E i \in 1..Len(new) : new[i] = label
  /\ \A i \in 1..Len(new) :
       \/ new[i] = label
       \/ i \in 1..Len(lb) /\ new[i] = lb[i] /\ lb[i].name # name

(* That is what WithPlace does.                                            *)
LEMMA LabelPlaced ==
  ASSUME labels \in Seq(LABEL), NEW name \in STRING, NEW process \in Int, NEW entry \in Int,
         CanAdd(name)
  PROVE  HasPlaced(labels, WithPlace(name, process, entry), name,
                   PlacedAt(name, process, entry))
<1> DEFINE lb == WithPlace(name, process, entry)
           label == PlacedAt(name, process, entry)
<1>1. label \in LABEL /\ label.name = name
  BY DEF LABEL, PlacedAt
<1>2. \A i \in DOMAIN labels : labels[i].name = name => labels[i].forward
  BY DEF CanAdd, Defined, Slot
<1>3. lb = IF Slot(name) = {} THEN Append(labels, label)
           ELSE [i \in DOMAIN labels |-> IF i \in Slot(name) THEN label ELSE labels[i]]
  BY DEF WithPlace, PlacedAt
<1>4. /\ \A i \in DOMAIN labels : i \in Slot(name) <=> labels[i].name = name
      /\ Slot(name) \subseteq DOMAIN labels
  BY DEF Slot
<1>5. Len(labels) \in Nat /\ DOMAIN labels = 1..Len(labels)
  OBVIOUS
<1> HIDE DEF lb, label
<1>6. CASE Slot(name) = {}
  <2>1. lb = Append(labels, label)
    BY <1>3, <1>6
  <2>2. /\ lb \in Seq(LABEL) /\ Len(lb) = Len(labels) + 1
        /\ \A i \in 1..Len(labels) : lb[i] = labels[i]
        /\ lb[Len(labels) + 1] = label
    BY <1>1, <1>5, <2>1
  <2>3. \A i \in 1..Len(labels) : labels[i].name # name
    BY <1>4, <1>5, <1>6
  <2>4. Keeps(labels, lb)
    BY <1>5, <2>2 DEF Keeps
  <2>5. QED
    BY <1>5, <2>2, <2>3, <2>4 DEF lb, label, HasPlaced
<1>7. CASE Slot(name) # {}
  <2>1. lb = [i \in DOMAIN labels |-> IF i \in Slot(name) THEN label ELSE labels[i]]
    BY <1>3, <1>7
  <2>2. /\ lb \in Seq(LABEL) /\ Len(lb) = Len(labels)
        /\ \A i \in 1..Len(labels) : lb[i] = IF i \in Slot(name) THEN label ELSE labels[i]
    BY <1>1, <1>5, <2>1
  <2>3. Keeps(labels, lb)
    BY <1>1, <1>2, <1>4, <1>5, <2>2 DEF Keeps
  <2>4. \E i \in 1..Len(lb) : lb[i] = label
    BY <1>4, <1>5, <1>7, <2>2
  <2>5. QED
    BY <1>4, <1>5, <2>2, <2>3, <2>4 DEF lb, label, HasPlaced
<1>8. QED
  BY <1>6, <1>7

(* Whatever the step, labels keep their slots and their places.            *)
LEMMA LabelsKept ==
  ASSUME Tables, Going, Kind
  PROVE  labels' \in Seq(LABEL) /\ Keeps(labels, labels')
<1>1. labels \in Seq(LABEL)
  BY DEF Tables
<1>2. labels' = labels => Keeps(labels, labels')
  BY <1>1 DEF Keeps
<1>3. CASE AddsForward
  <2>1. PICK name \in STRING : labels' = WithMention(name)
    BY <1>3 DEF AddsForward
  <2> DEFINE t == WithMention(name)
  <2>2. t \in Seq(LABEL)
    BY <1>1, Mentioned, Zenon
  <2>3. Len(labels) <= Len(t) /\ \A i \in 1..Len(labels) : t[i] = labels[i]
    BY <1>1, Mentioned, Zenon
  <2> HIDE DEF t
  <2>4. QED
    BY <2>1, <2>2, <2>3 DEF t, Keeps
<1>4. CASE LabelsEnd \/ LabelsNext
  <2>1. status = "parsing" /\ at \in AT
    BY <1>4 DEF LabelsEnd, LabelsNext, Between, Going
  <2>2. \E name \in STRING, entry \in Int :
          CanAdd(name) /\ labels' = WithPlace(name, at.process, entry)
    <3>1. CASE LabelsEnd
      <4>1. at.entry + 1 \in Int
        BY <2>1 DEF AT
      <4>2. QED
        BY <3>1, <4>1, Zenon DEF LabelsEnd
    <3>2. CASE LabelsNext
      <4>1. PICK a : \E name \in STRING :
              /\ Between(a) /\ CanAdd(name) /\ labels' = WithPlace(name, at.process, a.entry)
        BY <3>2, Zenon DEF LabelsNext
      <4>2. a.entry \in Int
        <5>1. a = at \/ a = Closed
          BY <4>1, Zenon DEF Between
        <5>2. Closed.entry = at.entry + at.copies /\ at.entry \in Int /\ at.copies \in Int
          BY <2>1 DEF Closed, AT
        <5>3. QED
          BY <5>1, <5>2
      <4>3. QED
        BY <4>1, <4>2, Zenon
    <3>3. QED
      BY <1>4, <3>1, <3>2
  <2>3. PICK name \in STRING, entry \in Int :
          CanAdd(name) /\ labels' = WithPlace(name, at.process, entry)
    BY <2>2, Zenon
  <2>4. at.process \in Int
    BY <2>1, LimitsAssumption DEF AT
  <2>5. QED
    BY <1>1, <2>3, <2>4, LabelPlaced, Zenon DEF HasPlaced
<1>5. CASE ~(AddsForward \/ LabelsEnd \/ LabelsNext)
  <2>1. labels' = labels
    BY <1>5, Zenon DEF Kind, Fails, Rests, Opens, AddsPlain, AddsText, AddsBack, Starts,
       Leaves, FixSkips, FixSets, Walks, Ends
  <2>2. QED
    BY <1>1, <1>2, <2>1
<1>6. QED
  BY <1>3, <1>4, <1>5

-----------------------------------------------------------------------------
(* Types.                                                                  *)

(* The job stays, and tokens are counted.                                  *)
LEMMA JobKept ==
  ASSUME Tables, [Next]_vars
  PROVE  job' = job /\ read' \in Nat
<1>1. CASE \E tok \in Source : Parse(tok)
  <2>1. PICK tok \in Source : Parse(tok)
    BY <1>1
  <2>2. Token(tok)
    BY <2>1, Zenon DEF Parse, Skip, If, Else, Endif, Define, Classic, ParseProcess, ParseEntry,
       ParseVerbNoun, ParseSynonym, EndEntry, LabelInEntry, BehindLabel, ParseBytes, UserPtr,
       ParseCondact, UnknownCondact, Indirection, NumberParam, TextParam, BackLabel,
       ForwardLabel, BadParam, Delivered
  <2>3. QED
    BY <2>2 DEF Token, Tables
<1>2. CASE EndOfStream \/ FixEntry \/ Fixed \/ Stopped \/ UNCHANGED vars
  <2>1. UNCHANGED <<job, read>>
    BY <1>2, Zenon DEF EndOfStream, FixEntry, Fixed, Stopped, vars
  <2>2. QED
    BY <2>1 DEF Tables
<1>3. QED
  BY <1>1, <1>2, Zenon DEF Next

(* Condacts added to the list of the entry.                                *)
LEMMA AddedTo ==
  ASSUME lists \in Seq(Seq(CONDACT)), NEW cs \in Seq(CONDACT)
  PROVE  /\ Added(cs) \in Seq(Seq(CONDACT))
         /\ Len(Added(cs)) = Len(lists)
         /\ \A l \in 1..Len(lists) :
              Added(cs)[l] = IF l = at.list THEN lists[l] \o cs ELSE lists[l]
<1>1. \A l \in 1..Len(lists) : lists[l] \in Seq(CONDACT) /\ lists[l] \o cs \in Seq(CONDACT)
  OBVIOUS
<1> DEFINE new == [l \in 1..Len(lists) |-> IF l = at.list THEN lists[l] \o cs ELSE lists[l]]
<1>2. Added(cs) = new
  <2>1. lists = [l \in 1..Len(lists) |-> lists[l]]
    OBVIOUS
  <2>2. DOMAIN lists = 1..Len(lists)
    OBVIOUS
  <2>3. Added(cs) = [l \in DOMAIN lists |-> IF l = at.list THEN lists[l] \o cs ELSE lists[l]]
    BY DEF Added
  <2>4. QED
    BY <2>2, <2>3
<1> HIDE DEF new
<1>3. /\ new = [l \in 1..Len(lists) |-> new[l]]
      /\ \A l \in 1..Len(lists) : /\ new[l] = IF l = at.list THEN lists[l] \o cs ELSE lists[l]
                                  /\ new[l] \in Seq(CONDACT)
  BY <1>1 DEF new
<1>4. Len(lists) \in Nat
  OBVIOUS
<1>5. new \in Seq(Seq(CONDACT)) /\ Len(new) = Len(lists)
  BY <1>3, <1>4
<1>6. QED
  BY <1>2, <1>3, <1>5

(* The entry the walk is at.                                               *)
LEMMA WalkAt ==
  ASSUME Tables, Going, Grammar, Walks, entries[fix[1]] # <<>>
  PROVE  /\ fix[1] \in 0..MAX_PROCESSES /\ fix[2] \in Nat
         /\ fix[2] + 1 \in DOMAIN entries[fix[1]]
         /\ entries[fix[1]][fix[2] + 1] \in DOMAIN lists
         /\ lists[entries[fix[1]][fix[2] + 1]] \in Seq(CONDACT)
<1>1. /\ entries \in [0..MAX_PROCESSES -> Seq(Nat)] /\ lists \in Seq(Seq(CONDACT))
      /\ fix \in Nat \X Nat /\ fix[1] \in 0..MAX_PROCESSES
      /\ fix[2] = 0 \/ fix[2] < Len(entries[fix[1]])
      /\ \A j \in DOMAIN entries[fix[1]] : entries[fix[1]][j] \in DOMAIN lists
  <2>1. status = "fixing" /\ fix[1] <= MAX_PROCESSES
    BY DEF Walks
  <2>2. WalkedTo(entries, fix)
    BY <2>1 DEF Grammar, Walk
  <2>3. fix \in Nat \X Nat /\ (fix[2] = 0 \/ fix[2] < Len(entries[fix[1]]))
    BY <2>1, <2>2 DEF WalkedTo
  <2>4. fix[1] \in 0..MAX_PROCESSES
    BY <2>1, <2>3, LimitsAssumption
  <2>5. entries \in [0..MAX_PROCESSES -> Seq(Nat)] /\ lists \in Seq(Seq(CONDACT))
    BY <2>1 DEF Going, Tables
  <2>6. \A p \in 0..MAX_PROCESSES : \A i \in DOMAIN entries[p] : entries[p][i] \in DOMAIN lists
    BY <2>1, Zenon DEF Grammar, Sound, Shared
  <2>7. QED
    BY <2>3, <2>4, <2>5, <2>6, Zenon
<1>2. entries[fix[1]] \in Seq(Nat) /\ fix[2] \in Nat
  BY <1>1
<1>3. fix[2] + 1 \in DOMAIN entries[fix[1]]
  BY <1>1, <1>2
<1>4. entries[fix[1]][fix[2] + 1] \in DOMAIN lists
  BY <1>1, <1>3
<1>5. QED
  BY <1>1, <1>2, <1>3, <1>4

(* A condact becomes a SKIP, with the value v.                             *)
Resolved(c, v) == [c EXCEPT !.op = SKIP, !.value = v]

(* The PENDINGSKIP at i of list n, the first there, is resolved; all else  *)
(* stays.                                                                  *)
HasResolved(n, i, v) ==
  LET label == LabelAt(lists[n][i].value)
  IN  /\ Walks /\ entries[fix[1]] # <<>> /\ n = entries[fix[1]][fix[2] + 1]
      /\ lists[n][i].op = PENDINGSKIP /\ v = label.entry - fix[2] - 1
      /\ \A y \in Pendings(lists[n]) : i <= y
      /\ ~label.forward /\ label.process = fix[1] /\ ~(v + 1 > Reach)
      /\ lists' \in Seq(Seq(CONDACT)) /\ Len(lists') = Len(lists)
      /\ \A l \in 1..Len(lists) : l # n => lists'[l] = lists[l]
      /\ Len(lists'[n]) = Len(lists[n])
      /\ \A k \in 1..Len(lists[n]) :
           lists'[n][k] = IF k = i THEN Resolved(lists[n][i], v) ELSE lists[n][k]

(* That is what the walk does.                                             *)
LEMMA FixSet ==
  ASSUME Tables, Going, Grammar, FixSets
  PROVE  \E n \in 1..Len(lists) : \E i \in 1..Len(lists[n]) : \E v \in Int : HasResolved(n, i, v)
<1> DEFINE n == entries[fix[1]][fix[2] + 1]
<1>1. PICK i :
        LET label == LabelAt(lists[n][i].value)
            ahead == label.entry - fix[2] - 1
        IN  /\ Walks /\ entries[fix[1]] # <<>>
            /\ i \in Pendings(lists[n]) /\ \A y \in Pendings(lists[n]) : i <= y
            /\ ~label.forward /\ label.process = fix[1] /\ ~(ahead + 1 > Reach)
            /\ lists' = [lists EXCEPT ![n][i].op = SKIP, ![n][i].value = ahead]
  BY Zenon DEF FixSets
<1> DEFINE label == LabelAt(lists[n][i].value)
           v == label.entry - fix[2] - 1
<1>2. /\ fix[2] \in Nat /\ n \in DOMAIN lists /\ lists[n] \in Seq(CONDACT)
      /\ lists \in Seq(Seq(CONDACT)) /\ labels \in Seq(LABEL)
  BY <1>1, WalkAt, Zenon DEF Tables
<1> HIDE DEF n
<1>3. i \in 1..Len(lists[n]) /\ lists[n][i].op = PENDINGSKIP /\ n \in 1..Len(lists)
  BY <1>1, <1>2 DEF Pendings
<1>4. label.entry \in Int
  <2> DEFINE id == lists[n][i].value
  <2>1. CASE id + 1 \in DOMAIN labels
    <3>1. labels[id + 1] \in LABEL
      BY <1>2, <2>1
    <3>2. LabelAt(id) = labels[id + 1]
      BY <2>1 DEF LabelAt
    <3>3. QED
      BY <3>1, <3>2 DEF LABEL
  <2>2. CASE id + 1 \notin DOMAIN labels
    BY <2>2 DEF LabelAt
  <2>3. QED
    BY <2>1, <2>2
<1> HIDE DEF label
<1>5. v \in Int
  BY <1>2, <1>4
<1>6. lists' = [lists EXCEPT ![n][i].op = SKIP, ![n][i].value = v]
  BY <1>1 DEF label
<1>7. ~label.forward /\ label.process = fix[1] /\ ~(v + 1 > Reach)
  BY <1>1 DEF label
<1> HIDE DEF v
<1> DEFINE list == [lists[n] EXCEPT ![i] = Resolved(lists[n][i], v)]
<1>8. Resolved(lists[n][i], v) \in CONDACT
  <2>1. lists[n][i] \in CONDACT /\ SKIP \in Int
    BY <1>2, <1>3 DEF SKIP
  <2>2. QED
    BY <1>5, <2>1 DEF Resolved, CONDACT
<1>9. lists' = [lists EXCEPT ![n] = list]
  BY <1>2, <1>3, <1>6 DEF Resolved
<1> DEFINE w == Resolved(lists[n][i], v)
           old == lists[n]
<1>10. /\ list \in Seq(CONDACT) /\ Len(list) = Len(lists[n])
       /\ \A k \in 1..Len(lists[n]) :
            list[k] = IF k = i THEN Resolved(lists[n][i], v) ELSE lists[n][k]
  <2>1. old \in Seq(CONDACT) /\ i \in 1..Len(old) /\ w \in CONDACT
    BY <1>2, <1>3, <1>8
  <2>2. list = [old EXCEPT ![i] = w]
    OBVIOUS
  <2> HIDE DEF old, w, list
  <2>3. /\ list \in Seq(CONDACT) /\ Len(list) = Len(old)
        /\ \A k \in 1..Len(old) : list[k] = IF k = i THEN w ELSE old[k]
    BY <2>1, <2>2
  <2>4. QED
    BY <2>3 DEF old, w
<1> HIDE DEF list
<1>11. /\ lists' \in Seq(Seq(CONDACT)) /\ Len(lists') = Len(lists)
       /\ \A l \in 1..Len(lists) : lists'[l] = IF l = n THEN list ELSE lists[l]
  BY <1>2, <1>3, <1>9, <1>10
<1>12. /\ \A l \in 1..Len(lists) : l # n => lists'[l] = lists[l]
       /\ lists'[n] = list
  BY <1>3, <1>11
<1>13. /\ Walks /\ entries[fix[1]] # <<>> /\ \A y \in Pendings(lists[n]) : i <= y
  BY <1>1
<1>14. HasResolved(n, i, v)
  <2>1. n = entries[fix[1]][fix[2] + 1] /\ v = LabelAt(lists[n][i].value).entry - fix[2] - 1
    BY DEF n, label, v
  <2>2. ~LabelAt(lists[n][i].value).forward /\ LabelAt(lists[n][i].value).process = fix[1]
    BY <1>7 DEF label
  <2>3. QED
    BY <1>3, <1>7, <1>10, <1>11, <1>12, <1>13, <2>1, <2>2, Zenon DEF HasResolved
<1>15. QED
  BY <1>3, <1>5, <1>14, Zenon

(* The entry that follows one that is closed.                              *)
LEMMA BetweenTyped ==
  ASSUME Going, NEW a, Between(a)
  PROVE  a \in AT /\ entries' \in [0..MAX_PROCESSES -> Seq(Nat)]
<1>1. at \in AT /\ entries \in [0..MAX_PROCESSES -> Seq(Nat)]
  BY DEF Going, Between
<1>2. CASE expect = "entry" /\ UNCHANGED entries /\ a = at
  BY <1>1, <1>2
<1>3. CASE CloseEntry /\ a = Closed
  <2>1. at.copies \in Nat /\ at.list \in Nat /\ at.entry \in Nat /\ at.process \in 0..MAX_PROCESSES
    BY <1>1 DEF AT
  <2> DEFINE row == [i \in 1..at.copies |-> at.list]
             more == entries[at.process] \o row
  <2>2. more \in Seq(Nat)
    <3>1. row \in Seq(Nat) /\ entries[at.process] \in Seq(Nat)
      BY <1>1, <2>1
    <3> HIDE DEF row
    <3>2. QED
      BY <3>1
  <2>3. entries' = [entries EXCEPT ![at.process] = more]
    BY <1>3 DEF CloseEntry
  <2> HIDE DEF more
  <2>4. Closed \in AT
    <3>1. at.entry + at.copies \in Nat /\ FALSE \in BOOLEAN /\ 0 \in Int
      BY <2>1
    <3>2. Closed = [at EXCEPT !.entry = at.entry + at.copies, !.copies = 0, !.list = 0,
                              !.op = 0, !.indirect = FALSE, !.param = 0]
      BY <1>1 DEF Closed, AT
    <3>3. QED
      BY <1>1, <3>1, <3>2 DEF AT
  <2>5. QED
    BY <1>1, <1>3, <2>1, <2>2, <2>3, <2>4
<1>4. QED
  BY <1>2, <1>3, Zenon DEF Between

(* No step makes a text move.                                              *)
LEMMA TextsKept ==
  ASSUME Tables, Kind
  PROVE  msgs' \in TABLES /\ Grown(msgs, msgs')
<1>1. msgs \in TABLES
  BY DEF Tables
<1>2. CASE AddsText
  <2>1. PICK op \in TakesText, text \in TEXTS : msgs' = Inline(op, text).msgs
    BY <1>2 DEF AddsText
  <2>2. QED
    BY <1>1, <2>1, Inlined, Zenon
<1>3. CASE ~AddsText
  <2>1. msgs' = msgs
    BY <1>3, Zenon DEF Kind, Fails, Rests, Opens, AddsPlain, AddsForward, AddsBack, LabelsEnd,
       Starts, Leaves, LabelsNext, Between, FixSkips, FixSets, Walks, Ends
  <2>2. Grown(msgs, msgs)
    <3>1. \A n \in TableNames : Len(msgs[n]) \in Nat
      BY <1>1 DEF TABLES, TableNames
    <3>2. QED
      BY <3>1 DEF Grown
  <2>3. QED
    BY <1>1, <2>1, <2>2
<1>4. QED
  BY <1>2, <1>3

(* Condacts are added, a list is started, or one condact is resolved.      *)
LEMMA ListSteps ==
  ASSUME Kind
  PROVE  \/ \E cs : Adds(cs)
         \/ Starts
         \/ FixSets
         \/ lists' = lists
BY Zenon DEF Kind, Fails, Rests, Opens, AddsPlain, AddsText, AddsForward, AddsBack, LabelsEnd,
   Leaves, LabelsNext, FixSkips, Ends

(* The lists stay lists of condacts.                                       *)
LEMMA ListsTyped ==
  ASSUME Tables, Going, Grammar, Kind
  PROVE  lists' \in Seq(Seq(CONDACT))
<1>1. lists \in Seq(Seq(CONDACT))
  BY DEF Tables
<1>2. ASSUME NEW cs, Adds(cs) PROVE lists' \in Seq(Seq(CONDACT))
  <2>1. cs \in Seq(CONDACT) /\ lists' = Added(cs)
    BY <1>2 DEF Adds
  <2>2. Added(cs) \in Seq(Seq(CONDACT))
    BY <1>1, <2>1, AddedTo, Zenon
  <2>3. QED
    BY <2>1, <2>2
<1>3. CASE Starts
  <2>1. lists' = Append(lists, <<>>) /\ <<>> \in Seq(CONDACT)
    BY <1>3 DEF Starts
  <2>2. QED
    BY <1>1, <2>1
<1>4. CASE FixSets
  BY <1>4, FixSet, Zenon DEF HasResolved
<1>5. QED
  BY <1>1, <1>2, <1>3, <1>4, ListSteps, Zenon

(* The variables keep their types.                                         *)
LEMMA TypedStep ==
  ASSUME Tables, Going, Grammar, [Next]_vars
  PROVE  Tables' /\ Going'
<1>1. Kind
  BY StepKinds
<1>2. Tables'
  <2>1. job' \in Jobs /\ read' \in Nat
    BY JobKept DEF Tables
  <2>2. lists' \in Seq(Seq(CONDACT)) /\ labels' \in Seq(LABEL) /\ msgs' \in TABLES
    BY <1>1, ListsTyped, LabelsKept, TextsKept, Zenon
  <2>3. QED
    BY <2>1, <2>2 DEF Tables
<1>3. Going'
  <2>1. CASE status' = "failed"
    BY <2>1 DEF Going
  <2> SUFFICES ASSUME status' # "failed"
               PROVE  /\ at' \in AT
                      /\ entries' \in [0..MAX_PROCESSES -> Seq(Nat)]
                      /\ expect' \in Inside \cup {"process", "entry", "nothing"}
                      /\ status' \in {"parsing", "fixing", "done"}
                      /\ warned' \in BOOLEAN
                      /\ status' # "parsing" => expect' = "nothing"
    BY <2>1 DEF Going, AT, CONDACT
  <2>2. /\ status # "failed" =>
             /\ at \in AT
             /\ entries \in [0..MAX_PROCESSES -> Seq(Nat)]
             /\ expect \in Inside \cup {"process", "entry", "nothing"}
             /\ status \in {"parsing", "fixing", "done"}
             /\ warned \in BOOLEAN
             /\ status # "parsing" => expect = "nothing"
    BY DEF Going
  <2>3. CASE Rests
    BY <2>2, <2>3 DEF Rests, SameEntry
  <2>4. ASSUME NEW cs, Adds(cs)
        PROVE  /\ at' \in AT /\ UNCHANGED <<entries, warned, status>>
               /\ expect' = "condact" /\ status = "parsing"
    BY <2>4 DEF Adds, SameEntry
  <2>5. CASE AddsPlain \/ AddsText \/ AddsBack \/ AddsForward
    <3>1. \E cs : Adds(cs)
      BY <2>5, Zenon DEF AddsPlain, AddsText, AddsBack, AddsForward
    <3>2. QED
      BY <2>2, <2>4, <3>1 DEF Inside
  <2>6. CASE Opens
    <3>1. PICK v \in 0..MAX_PROCESSES :
            /\ status = "parsing" /\ expect' = "entry" /\ at' = Start(v)
            /\ warned' = (warned \/ entries[v] # <<>>) /\ UNCHANGED <<status, entries>>
      BY <2>6 DEF Opens
    <3>2. Start(v) \in AT
      BY DEF Start, AT
    <3>3. warned' \in BOOLEAN
      BY <2>2, <3>1
    <3>4. QED
      BY <2>2, <3>1, <3>2, <3>3
  <2>7. CASE LabelsEnd
    BY <2>2, <2>7 DEF LabelsEnd, Inside
  <2>8. CASE Starts \/ Leaves \/ LabelsNext
    <3>1. \E a : /\ Between(a) /\ warned' = warned /\ status = "parsing"
                 /\ \/ /\ at' = [a EXCEPT !.copies = 1, !.list = Len(lists) + 1]
                       /\ expect' = "verb" /\ status' = status
                    \/ /\ at' = a
                       /\ \/ expect' \in {"process", "entry"} /\ status' = status
                          \/ expect' = "nothing" /\ status' = "fixing"
      BY <2>8, Zenon DEF Starts, Leaves, LabelsNext, Between
    <3>2. PICK a :
             /\ Between(a) /\ warned' = warned /\ status = "parsing"
             /\ \/ /\ at' = [a EXCEPT !.copies = 1, !.list = Len(lists) + 1]
                   /\ expect' = "verb" /\ status' = status
                \/ /\ at' = a
                   /\ \/ expect' \in {"process", "entry"} /\ status' = status
                      \/ expect' = "nothing" /\ status' = "fixing"
      BY <3>1
    <3>3. a \in AT /\ entries' \in [0..MAX_PROCESSES -> Seq(Nat)]
      BY <3>2, BetweenTyped, Zenon
    <3>4. Len(lists) + 1 \in Nat
      BY DEF Tables
    <3>5. [a EXCEPT !.copies = 1, !.list = Len(lists) + 1] \in AT
      BY <3>3, <3>4 DEF AT
    <3>6. at' \in AT
      BY <3>2, <3>3, <3>5
    <3>7. QED
      BY <2>2, <3>2, <3>3, <3>6 DEF Inside
  <2>9. CASE FixSkips \/ FixSets \/ Ends
    <3>1. /\ status = "fixing" /\ status' \in {"fixing", "done"}
          /\ UNCHANGED <<expect, at, entries, warned>>
      BY <2>9 DEF FixSkips, FixSets, Walks, Ends
    <3>2. QED
      BY <2>2, <3>1
  <2>10. QED
    BY <1>1, <2>3, <2>5, <2>6, <2>7, <2>8, <2>9, Zenon DEF Kind, Fails
<1>4. QED
  BY <1>2, <1>3

-----------------------------------------------------------------------------
(* Inline texts.                                                           *)

(* A text that is found stays found.                                       *)
LEMMA FoundStays ==
  ASSUME NEW t \in TABLES, NEW u \in TABLES, Grown(t, u), NEW c, Found(c, t)
  PROVE  Found(c, u)
<1> SUFFICES ASSUME c.text # NoText PROVE Found(c, u)
  BY DEF Found
<1> DEFINE n == NameOf(c.op)
<1>1. /\ c.op \in TextOps /\ c.value \in Nat /\ c.value + 1 \in DOMAIN t[n]
      /\ Printed(c.op, t[n][c.value + 1]) = c.text
  BY DEF Found
<1>2. n \in TableNames
  BY <1>1 DEF NameOf, TextOps, TableNames, MES, MESSAGE, SYSMESS, DESC, XMES, XPLAY, XDATA
<1> HIDE DEF n
<1>3. t[n] \in Seq(TEXTS) /\ u[n] \in Seq(TEXTS)
  BY <1>2 DEF TABLES, TableNames
<1>4. Len(t[n]) <= Len(u[n]) /\ \A i \in 1..Len(t[n]) : u[n][i] = t[n][i]
  BY <1>2 DEF Grown
<1>5. c.value + 1 \in DOMAIN u[n] /\ u[n][c.value + 1] = t[n][c.value + 1]
  <2> DEFINE a == t[n]
             b == u[n]
             k == c.value + 1
  <2>1. a \in Seq(TEXTS) /\ b \in Seq(TEXTS) /\ k \in DOMAIN a
        /\ Len(a) <= Len(b) /\ \A i \in 1..Len(a) : b[i] = a[i]
    BY <1>1, <1>3, <1>4, Zenon
  <2> HIDE DEF a, b, k
  <2>2. k \in DOMAIN b /\ b[k] = a[k]
    BY <2>1
  <2>3. QED
    BY <2>2 DEF a, b, k
<1>6. QED
  BY <1>1, <1>5 DEF Found, n

(* The condact of an inline text finds it.                                 *)
LEMMA TextAdded ==
  ASSUME Tables, AddsText
  PROVE  \E c : Adds(<<c>>) /\ Found(c, msgs')
<1>1. PICK op \in TakesText, text \in TEXTS, indirect \in BOOLEAN :
        LET r == Inline(op, text)
        IN  /\ r.id # NoRoom /\ msgs' = r.msgs /\ UNCHANGED labels
            /\ Adds(<<Made(r.op, r.id, indirect, NoLabel, Printed(op, text))>>)
  BY Zenon DEF AddsText
<1> DEFINE r == Inline(op, text)
           c == Made(r.op, r.id, indirect, NoLabel, Printed(op, text))
<1>2. r.msgs \in TABLES /\ Answers(r, op, text)
  BY Inlined, Zenon DEF Tables
<1>3. r.id # NoRoom /\ msgs' = r.msgs /\ Adds(<<c>>)
  BY <1>1
<1> HIDE DEF r
<1>4. c.op = r.op /\ c.value = r.id /\ c.text = Printed(op, text)
  BY DEF Made
<1> HIDE DEF c
<1>5. /\ r.op \in TextOps /\ r.id \in Nat
      /\ r.id + 1 \in 1..Len(r.msgs[NameOf(r.op)])
      /\ Printed(r.op, r.msgs[NameOf(r.op)][r.id + 1]) = Printed(op, text)
  BY <1>2, <1>3 DEF Answers
<1>6. r.msgs[NameOf(r.op)] \in Seq(TEXTS)
  <2>1. NameOf(r.op) \in TableNames
    BY <1>5 DEF NameOf, TextOps, TableNames, MES, MESSAGE, SYSMESS, DESC, XMES, XPLAY, XDATA
  <2>2. QED
    BY <1>2, <2>1 DEF TABLES, TableNames
<1>7. Found(c, msgs')
  BY <1>3, <1>4, <1>5, <1>6 DEF Found
<1>8. QED
  BY <1>3, <1>7

(* Every text found stays found, and the new one is.                       *)
LEMMA TextsStep ==
  ASSUME Tables, Going, Grammar, TextsFound, Kind
  PROVE  TextsFound'
<1>1. /\ lists \in Seq(Seq(CONDACT)) /\ lists' \in Seq(Seq(CONDACT))
      /\ msgs \in TABLES /\ msgs' \in TABLES /\ Grown(msgs, msgs')
  BY ListsTyped, TextsKept, Zenon DEF Tables
<1>2. \A l \in DOMAIN lists : \A i \in DOMAIN lists[l] : Found(lists[l][i], msgs')
  BY <1>1, FoundStays, Zenon DEF TextsFound
<1>3. ASSUME NEW cs, Adds(cs), \A i \in DOMAIN cs : Found(cs[i], msgs') PROVE TextsFound'
  <2>1. cs \in Seq(CONDACT) /\ lists' = Added(cs)
    BY <1>3 DEF Adds
  <2>2. /\ Len(Added(cs)) = Len(lists)
        /\ \A l \in 1..Len(lists) :
             Added(cs)[l] = IF l = at.list THEN lists[l] \o cs ELSE lists[l]
    BY <1>1, <2>1, AddedTo, Zenon
  <2> SUFFICES ASSUME NEW l \in DOMAIN lists', NEW i \in DOMAIN lists'[l]
               PROVE  Found(lists'[l][i], msgs')
    BY DEF TextsFound
  <2>3. l \in DOMAIN lists /\ l \in 1..Len(lists)
    BY <1>1, <2>1, <2>2
  <2>4. CASE l # at.list
    <3>1. lists'[l] = lists[l]
      BY <2>1, <2>2, <2>3, <2>4
    <3>2. QED
      BY <1>2, <2>3, <3>1
  <2>5. CASE l = at.list
    <3> DEFINE old == lists[l]
    <3>1. lists'[l] = old \o cs
      BY <2>1, <2>2, <2>3, <2>5
    <3>2. old \in Seq(CONDACT) /\ \A k \in DOMAIN old : Found(old[k], msgs')
      BY <1>1, <1>2, <2>3
    <3> HIDE DEF old
    <3>3. i \in DOMAIN (old \o cs)
      BY <3>1
    <3>4. CASE i \in DOMAIN old
      <4>1. (old \o cs)[i] = old[i]
        BY <2>1, <3>2, <3>4
      <4>2. QED
        BY <3>1, <3>2, <3>4, <4>1
    <3>5. CASE i \notin DOMAIN old
      <4>1. i - Len(old) \in DOMAIN cs /\ (old \o cs)[i] = cs[i - Len(old)]
        BY <2>1, <3>2, <3>3, <3>5
      <4>2. QED
        BY <1>3, <3>1, <4>1
    <3>6. QED
      BY <3>4, <3>5
  <2>6. QED
    BY <2>4, <2>5
<1>4. CASE AddsText
  <2>1. PICK c : Adds(<<c>>) /\ Found(c, msgs')
    BY <1>4, TextAdded
  <2>2. \A i \in DOMAIN <<c>> : Found(<<c>>[i], msgs')
    BY <2>1
  <2>3. QED
    BY <1>3, <2>1, <2>2, Zenon
<1>5. CASE AddsPlain
  <2>1. PICK cs : Adds(cs) /\ \A i \in DOMAIN cs : cs[i].label = NoLabel /\ cs[i].text = NoText
    BY <1>5 DEF AddsPlain
  <2>2. \A i \in DOMAIN cs : Found(cs[i], msgs')
    BY <2>1 DEF Found
  <2>3. QED
    BY <1>3, <2>1, <2>2, Zenon
<1>6. CASE AddsBack \/ AddsForward
  <2>1. \E op, value, indirect, label : Adds(<<Made(op, value, indirect, label, NoText)>>)
    BY <1>6, Zenon DEF AddsBack, AddsForward
  <2>2. PICK op, value, indirect, label : Adds(<<Made(op, value, indirect, label, NoText)>>)
    BY <2>1
  <2> DEFINE c == Made(op, value, indirect, label, NoText)
  <2>3. c.text = NoText
    BY DEF Made
  <2> HIDE DEF c
  <2>4. \A i \in DOMAIN <<c>> : Found(<<c>>[i], msgs')
    BY <2>3 DEF Found
  <2>5. QED
    BY <1>3, <2>2, <2>4 DEF c
<1>7. CASE Starts
  <2>1. lists' = Append(lists, <<>>)
    BY <1>7 DEF Starts
  <2> SUFFICES ASSUME NEW l \in DOMAIN lists', NEW i \in DOMAIN lists'[l]
               PROVE  Found(lists'[l][i], msgs')
    BY DEF TextsFound
  <2>2. CASE l = Len(lists) + 1
    <3>1. lists'[l] = <<>>
      BY <1>1, <2>1, <2>2
    <3>2. QED
      BY <3>1
  <2>3. CASE l # Len(lists) + 1
    <3>1. l \in DOMAIN lists /\ lists'[l] = lists[l]
      BY <1>1, <2>1, <2>3
    <3>2. QED
      BY <1>2, <3>1
  <2>4. QED
    BY <2>2, <2>3
<1>8. CASE FixSets
  <2>5. PICK n \in 1..Len(lists) : \E i \in 1..Len(lists[n]) : \E v \in Int : HasResolved(n, i, v)
    BY <1>8, FixSet, Zenon
  <2>6. PICK i \in 1..Len(lists[n]) : \E v \in Int : HasResolved(n, i, v)
    BY <2>5, Zenon
  <2>7. PICK v \in Int : HasResolved(n, i, v)
    BY <2>6, Zenon
  <2>1. /\ lists[n][i].op = PENDINGSKIP
        /\ Len(lists') = Len(lists)
        /\ \A l \in 1..Len(lists) : l # n => lists'[l] = lists[l]
        /\ Len(lists'[n]) = Len(lists[n])
        /\ \A k \in 1..Len(lists[n]) :
             lists'[n][k] = IF k = i THEN Resolved(lists[n][i], v) ELSE lists[n][k]
    BY <2>7, Zenon DEF HasResolved
  <2> SUFFICES ASSUME NEW l \in DOMAIN lists', NEW k \in DOMAIN lists'[l]
               PROVE  Found(lists'[l][k], msgs')
    BY DEF TextsFound
  <2>2. l \in 1..Len(lists) /\ l \in DOMAIN lists
    <3>1. DOMAIN lists = 1..Len(lists) /\ DOMAIN lists' = 1..Len(lists')
      BY <1>1
    <3>2. Len(lists') = Len(lists)
      BY <2>1
    <3>3. QED
      BY <3>1, <3>2
  <2>3. CASE l # n
    BY <1>2, <2>1, <2>2, <2>3
  <2>4. CASE l = n
    <3>1. k \in 1..Len(lists[n]) /\ k \in DOMAIN lists[n]
      <4>1. lists'[n] \in Seq(CONDACT) /\ lists[n] \in Seq(CONDACT)
        BY <1>1, <2>1
      <4>2. QED
        BY <2>1, <2>4, <4>1
    <3>2. CASE k # i
      BY <1>2, <2>1, <2>2, <2>4, <3>1, <3>2
    <3>3. CASE k = i
      <4> DEFINE c == lists[n][i]
      <4>1. lists'[n][k] = Resolved(c, v)
        BY <2>1, <3>1, <3>3
      <4>2. Found(c, msgs') /\ c \in CONDACT /\ c.op = PENDINGSKIP
        BY <1>1, <1>2, <2>1, <2>2, <2>4, <3>1, <3>3
      <4> HIDE DEF c
      <4>3. PENDINGSKIP \notin TextOps
        BY DEF PENDINGSKIP, TextOps, MES, MESSAGE, SYSMESS, DESC, XMES, XPLAY, XDATA
      <4>4. c.text = NoText
        BY <4>2, <4>3 DEF Found
      <4>5. Resolved(c, v).text = NoText
        BY <4>2, <4>4 DEF Resolved, CONDACT
      <4>6. QED
        BY <2>4, <4>1, <4>5 DEF Found
    <3>4. QED
      BY <3>2, <3>3
  <2>8. QED
    BY <2>3, <2>4
<1>9. CASE lists' = lists
  BY <1>2, <1>9 DEF TextsFound
<1>10. QED
  <2>1. (\E cs : Adds(cs)) => lists' = lists \/ AddsText \/ AddsPlain \/ AddsBack \/ AddsForward
    BY Zenon DEF Kind, Fails, Rests, Opens, LabelsEnd,
       Starts, Leaves, LabelsNext, FixSkips, FixSets, Walks, Ends, Adds
  <2>2. QED
    BY <1>4, <1>5, <1>6, <1>7, <1>8, <1>9, <2>1, ListSteps, Zenon

-----------------------------------------------------------------------------
(* SKIPs and labels.                                                       *)

Entries == [0..MAX_PROCESSES -> Seq(Nat)]
Lists == Seq(Seq(CONDACT))

(* From lb and pl to lb2 and pl2 nothing placed moves, and what is placed  *)
(* in process p is placed behind entry i.                                  *)
Onward(lb, pl, lb2, pl2, p, i) ==
  /\ Keeps(lb, lb2)
  /\ \A x \in DOMAIN lb : ~lb[x].forward => pl2[lb[x].name] = pl[lb[x].name]
  /\ \A x \in DOMAIN lb2 : ~lb2[x].forward =>
       \/ x \in DOMAIN lb /\ ~lb[x].forward
       \/ lb2[x].process = p => lb2[x].entry >= i

(* Then a condact of that entry leads where it led.                        *)
LEMMA LeadsStays ==
  ASSUME NEW lb \in Seq(LABEL), NEW lb2 \in Seq(LABEL), NEW pl, NEW pl2,
         NEW p \in Int, NEW i \in Int, Onward(lb, pl, lb2, pl2, p, i),
         NEW c, Leads(c, p, i, lb, pl)
  PROVE  Leads(c, p, i, lb2, pl2)
<1> SUFFICES ASSUME c.label # NoLabel PROVE Leads(c, p, i, lb2, pl2)
  BY DEF Leads
<1>1. /\ Len(lb) \in Nat /\ Len(lb2) \in Nat /\ Len(lb) <= Len(lb2)
      /\ DOMAIN lb = 1..Len(lb) /\ DOMAIN lb2 = 1..Len(lb2)
      /\ \A x \in 1..Len(lb) : lb2[x].name = lb[x].name /\ (~lb[x].forward => lb2[x] = lb[x])
  BY DEF Onward, Keeps
<1>2. ASSUME c.op = SKIP, ~c.indirect
      PROVE  /\ \E x \in DOMAIN lb2 : ~lb2[x].forward /\ lb2[x].name = c.label
             /\ pl2[c.label] = <<p, i + Signed(c.value)>>
  <2>1. PICK x \in DOMAIN lb : ~lb[x].forward /\ lb[x].name = c.label
    BY <1>2 DEF Leads
  <2>2. pl[c.label] = <<p, i + Signed(c.value)>>
    BY <1>2 DEF Leads
  <2>3. x \in DOMAIN lb2 /\ lb2[x] = lb[x]
    BY <1>1, <2>1
  <2>4. pl2[c.label] = pl[c.label]
    BY <2>1 DEF Onward
  <2>5. QED
    BY <2>1, <2>2, <2>3, <2>4
<1>3. ASSUME c.op = PENDINGSKIP
      PROVE  /\ c.value \in Nat /\ c.value + 1 \in DOMAIN lb2
             /\ lb2[c.value + 1].name = c.label
             /\ ~lb2[c.value + 1].forward /\ lb2[c.value + 1].process = p =>
                  lb2[c.value + 1].entry >= i
  <2> DEFINE x == c.value + 1
  <2>1. /\ c.value \in Nat /\ x \in DOMAIN lb /\ lb[x].name = c.label
        /\ ~lb[x].forward /\ lb[x].process = p => lb[x].entry >= i
    BY <1>3 DEF Leads
  <2> HIDE DEF x
  <2>2. x \in DOMAIN lb2 /\ lb2[x].name = c.label
    BY <1>1, <2>1
  <2>3. ASSUME ~lb2[x].forward, lb2[x].process = p PROVE lb2[x].entry >= i
    <3>1. CASE ~lb[x].forward
      BY <1>1, <2>1, <2>3, <3>1
    <3>2. CASE lb[x].forward
      BY <2>2, <2>3, <3>2 DEF Onward
    <3>3. QED
      BY <3>1, <3>2
  <2>4. QED
    BY <2>1, <2>2, <2>3 DEF x
<1>4. QED
  BY <1>2, <1>3, Zenon DEF Leads

(* The number of copies does not matter.                                   *)
LEMMA CopiesSound ==
  ASSUME NEW ls, NEW lb, NEW pl, NEW e, NEW w, NEW a \in AT, NEW b \in AT,
         b.process = a.process, b.entry = a.entry, b.list = a.list,
         b.copies \in {a.copies, a.copies + 1},
         Sound(ls, lb, pl, e, a, TRUE, FALSE, w)
  PROVE  Sound(ls, lb, pl, e, b, TRUE, FALSE, w)
<1>1. a.copies \in Nat /\ b.copies \in Nat
  BY DEF AT
<1>2. Shared(e, b, TRUE, ls)
  BY <1>1 DEF Sound, Shared
<1>3. ASSUME Simple(e, b, w) PROVE Numbered(lb, pl, e, b, FALSE) /\ AllLead(ls, lb, pl, e, b, TRUE)
  <2>1. Simple(e, a, w)
    BY <1>1, <1>3 DEF Simple
  <2>2. Numbered(lb, pl, e, a, FALSE) /\ AllLead(ls, lb, pl, e, a, TRUE)
    BY <2>1 DEF Sound
  <2>3. Numbered(lb, pl, e, b, FALSE)
    BY <2>2 DEF Numbered
  <2>4. AllLead(ls, lb, pl, e, b, TRUE)
    BY <2>2, Zenon DEF AllLead, Stands
  <2>5. QED
    BY <2>3, <2>4
<1>4. QED
  BY <1>2, <1>3 DEF Sound

(* A process is opened.                                                    *)
LEMMA OpenSound ==
  ASSUME NEW ls, NEW lb \in Seq(LABEL), NEW pl, NEW e \in Entries, NEW w, NEW a,
         NEW v \in 0..MAX_PROCESSES,
         Sound(ls, lb, pl, e, a, FALSE, FALSE, w)
  PROVE  Sound(ls, lb, pl, e, Start(v), FALSE, FALSE, w \/ e[v] # <<>>)
<1> DEFINE b == Start(v)
<1>1. b.process = v /\ b.entry = 0 /\ b.copies = 0
  BY DEF Start
<1> HIDE DEF b
<1>2. a.copies = 0
  BY DEF Sound, Shared
<1>3. Shared(e, b, FALSE, ls)
  BY <1>1 DEF Sound, Shared
<1>4. ASSUME Simple(e, b, w \/ e[v] # <<>>)
      PROVE  Numbered(lb, pl, e, b, FALSE) /\ AllLead(ls, lb, pl, e, b, FALSE)
  <2>1. Simple(e, a, w) /\ e[v] = <<>>
    BY <1>2, <1>4 DEF Simple
  <2>2. Numbered(lb, pl, e, a, FALSE) /\ AllLead(ls, lb, pl, e, a, FALSE)
    BY <2>1 DEF Sound
  <2>3. Numbered(lb, pl, e, b, FALSE)
    BY <1>1, <2>1, <2>2 DEF Numbered
  <2>4. AllLead(ls, lb, pl, e, b, FALSE)
    BY <2>2 DEF AllLead, Stands
  <2>5. QED
    BY <2>3, <2>4
<1>5. QED
  BY <1>3, <1>4 DEF Sound, b

(* A new entry starts with a list of its own.                              *)
LEMMA StartSound ==
  ASSUME NEW ls \in Lists, NEW lb, NEW pl, NEW e \in Entries, NEW w, NEW a \in AT,
         Sound(ls, lb, pl, e, a, FALSE, FALSE, w)
  PROVE  Sound(Append(ls, <<>>), lb, pl, e, [a EXCEPT !.copies = 1, !.list = Len(ls) + 1],
               TRUE, FALSE, w)
<1> DEFINE b == [a EXCEPT !.copies = 1, !.list = Len(ls) + 1]
           new == Append(ls, <<>>)
<1>1. b.process = a.process /\ b.entry = a.entry /\ b.copies = 1 /\ b.list = Len(ls) + 1
  BY DEF AT
<1>2. /\ Len(ls) \in Nat /\ DOMAIN ls = 1..Len(ls) /\ DOMAIN new = 1 .. Len(ls) + 1
      /\ new[Len(ls) + 1] = <<>>
      /\ \A n \in 1..Len(ls) : new[n] = ls[n]
  BY DEF Lists
<1>3. a.copies = 0
  BY DEF Sound, Shared
<1> HIDE DEF b, new
<1>4. \A p \in 0..MAX_PROCESSES : \A i \in DOMAIN e[p] :
        e[p][i] \in DOMAIN ls /\ e[p][i] \in DOMAIN new /\ e[p][i] # b.list
  <2>1. \A p \in 0..MAX_PROCESSES : \A i \in DOMAIN e[p] : e[p][i] \in DOMAIN ls
    BY DEF Sound, Shared
  <2>2. \A n \in DOMAIN ls : n \in DOMAIN new /\ n # b.list
    BY <1>1, <1>2
  <2>3. QED
    BY <2>1, <2>2
<1>5. Shared(e, b, TRUE, new)
  <2>1. b.copies >= 1 /\ b.list \in DOMAIN new
    BY <1>1, <1>2
  <2>2. QED
    BY <1>4, <2>1 DEF Sound, Shared
<1>6. ASSUME Simple(e, b, w) PROVE Numbered(lb, pl, e, b, FALSE) /\ AllLead(new, lb, pl, e, b, TRUE)
  <2>1. Simple(e, a, w)
    BY <1>3, <1>6 DEF Simple
  <2>2. Numbered(lb, pl, e, a, FALSE) /\ AllLead(ls, lb, pl, e, a, FALSE)
    BY <2>1 DEF Sound
  <2>3. Numbered(lb, pl, e, b, FALSE)
    BY <1>1, <2>2 DEF Numbered
  <2>4. AllLead(new, lb, pl, e, b, TRUE)
    <3> SUFFICES ASSUME NEW p \in 0..MAX_PROCESSES, NEW n \in DOMAIN new, NEW i \in Nat,
                        Stands(n, p, i, e, b, TRUE), NEW k \in DOMAIN new[n]
                 PROVE  Leads(new[n][k], p, i, lb, pl)
      BY DEF AllLead
    <3>1. n # Len(ls) + 1
      BY <1>2
    <3>2. n \in DOMAIN ls /\ new[n] = ls[n]
      BY <1>2, <3>1
    <3>3. Stands(n, p, i, e, a, FALSE)
      BY <1>1, <3>1 DEF Stands
    <3>4. QED
      BY <2>2, <3>2, <3>3, Zenon DEF AllLead
  <2>5. QED
    BY <2>3, <2>4
<1>7. QED
  BY <1>5, <1>6 DEF Sound, b, new

(* From e to new the process of a has got all the copies of its list.      *)
HasClosed(e, new, a) ==
  LET p0 == a.process
      n == Len(e[a.process])
  IN  /\ new \in Entries
      /\ Len(new[p0]) = n + a.copies
      /\ \A i \in 1..n : new[p0][i] = e[p0][i]
      /\ \A i \in n + 1 .. n + a.copies : new[p0][i] = a.list
      /\ \A p \in 0..MAX_PROCESSES : p # p0 => new[p] = e[p]

(* Two rows of numbers, one behind the other.                              *)
LEMMA Joined ==
  ASSUME NEW s \in Seq(Nat), NEW t \in Seq(Nat)
  PROVE  /\ s \o t \in Seq(Nat) /\ Len(s) \in Nat
         /\ Len(s \o t) = Len(s) + Len(t)
         /\ \A k \in 1..Len(s) : (s \o t)[k] = s[k]
         /\ \A k \in 1..Len(t) : (s \o t)[Len(s) + k] = t[k]
BY Concat

(* That is what CloseEntry does.                                           *)
LEMMA ClosesEntry ==
  ASSUME NEW e \in Entries, NEW a \in AT
  PROVE  HasClosed(e, [e EXCEPT ![a.process] = @ \o [i \in 1..a.copies |-> a.list]], a)
<1> DEFINE row == [i \in 1..a.copies |-> a.list]
           old == e[a.process]
           more == old \o row
           new == [e EXCEPT ![a.process] = @ \o [i \in 1..a.copies |-> a.list]]
<1>1. /\ a.copies \in Nat /\ a.list \in Nat /\ a.process \in 0..MAX_PROCESSES
  BY DEF AT
<1>2. old \in Seq(Nat) /\ row \in Seq(Nat) /\ Len(row) = a.copies
  BY <1>1 DEF Entries
<1>3. new = [e EXCEPT ![a.process] = more]
  OBVIOUS
<1>4. \A i \in 1..a.copies : row[i] = a.list
  OBVIOUS
<1> HIDE DEF row, old, new
<1>5. /\ more \in Seq(Nat) /\ Len(more) = Len(old) + a.copies /\ Len(old) \in Nat
      /\ \A i \in 1..Len(old) : more[i] = old[i]
      /\ \A i \in Len(old) + 1 .. Len(old) + a.copies : more[i] = a.list
  <2>1. /\ more \in Seq(Nat) /\ Len(more) = Len(old) + a.copies /\ Len(old) \in Nat
        /\ \A i \in 1..Len(old) : more[i] = old[i]
        /\ \A k \in 1..a.copies : more[Len(old) + k] = row[k]
    <3>1. /\ old \o row \in Seq(Nat) /\ Len(old) \in Nat
          /\ Len(old \o row) = Len(old) + Len(row)
          /\ \A k \in 1..Len(old) : (old \o row)[k] = old[k]
          /\ \A k \in 1..Len(row) : (old \o row)[Len(old) + k] = row[k]
      BY <1>2, Joined, Zenon
    <3>2. QED
      BY <1>2, <3>1, Zenon
  <2> HIDE DEF more
  <2>2. ASSUME NEW i \in Len(old) + 1 .. Len(old) + a.copies PROVE more[i] = a.list
    <3>1. i - Len(old) \in 1..a.copies /\ Len(old) + (i - Len(old)) = i
      BY <1>1, <2>1
    <3>2. QED
      BY <1>4, <2>1, <3>1
  <2>3. QED
    BY <2>1, <2>2
<1> HIDE DEF more
<1>6. /\ new \in Entries /\ new[a.process] = more
      /\ \A p \in 0..MAX_PROCESSES : p # a.process => new[p] = e[p]
  BY <1>1, <1>3, <1>5 DEF Entries
<1>7. QED
  BY <1>5, <1>6 DEF HasClosed, old, new

(* An entry is closed: all its copies go into the process.                 *)
LEMMA CloseSound ==
  ASSUME NEW ls, NEW lb \in Seq(LABEL), NEW pl, NEW e \in Entries, NEW w, NEW a \in AT,
         NEW b \in AT, b.process = a.process, b.entry = a.entry + a.copies, b.copies = 0,
         NEW ahead, ahead \in BOOLEAN, NEW new \in Entries, HasClosed(e, new, a),
         Sound(ls, lb, pl, e, a, TRUE, ahead, w)
  PROVE  Sound(ls, lb, pl, new, b, FALSE, FALSE, w)
<1> DEFINE old == e[a.process]
           more == new[a.process]
<1>1. /\ a.copies \in Nat /\ a.copies >= 1 /\ a.list \in DOMAIN ls /\ a.list \in Nat
      /\ a.process \in 0..MAX_PROCESSES /\ a.entry \in Nat
  BY DEF AT, Sound, Shared
<1>2. old \in Seq(Nat) /\ more \in Seq(Nat)
  BY <1>1 DEF Entries
<1>5. /\ Len(more) = Len(old) + a.copies /\ Len(old) \in Nat
      /\ DOMAIN more = 1 .. Len(old) + a.copies /\ DOMAIN old = 1..Len(old)
      /\ \A i \in 1..Len(old) : more[i] = old[i]
      /\ \A i \in Len(old) + 1 .. Len(old) + a.copies : more[i] = a.list
  <2>1. /\ Len(more) = Len(old) + a.copies
        /\ \A i \in 1..Len(old) : more[i] = old[i]
        /\ \A i \in Len(old) + 1 .. Len(old) + a.copies : more[i] = a.list
    BY DEF HasClosed
  <2> HIDE DEF old, more
  <2>2. QED
    BY <1>2, <2>1
<1>6. \A p \in 0..MAX_PROCESSES : p # a.process => new[p] = e[p]
  BY DEF HasClosed
<1> HIDE DEF old, more
<1>7. \A p \in 0..MAX_PROCESSES : \A i \in DOMAIN new[p] :
        \/ i \in DOMAIN e[p] /\ new[p][i] = e[p][i]
        \/ p = a.process /\ i \in Len(old) + 1 .. Len(old) + a.copies /\ new[p][i] = a.list
  <2> SUFFICES ASSUME NEW p \in 0..MAX_PROCESSES, NEW i \in DOMAIN new[p]
               PROVE  \/ i \in DOMAIN e[p] /\ new[p][i] = e[p][i]
                      \/ /\ p = a.process /\ i \in Len(old) + 1 .. Len(old) + a.copies
                         /\ new[p][i] = a.list
    OBVIOUS
  <2>1. CASE p = a.process
    <3>1. new[p] = more /\ e[p] = old
      BY <2>1 DEF old, more
    <3>2. i \in 1..Len(old) \/ i \in Len(old) + 1 .. Len(old) + a.copies
      BY <1>1, <1>5, <3>1
    <3>3. QED
      BY <1>5, <2>1, <3>1, <3>2
  <2>2. CASE p # a.process
    BY <1>6, <2>2
  <2>3. QED
    BY <2>1, <2>2
<1>8. \A p \in 0..MAX_PROCESSES : /\ Len(e[p]) \in Nat /\ Len(e[p]) <= Len(new[p])
                                  /\ \A i \in DOMAIN e[p] : i \in DOMAIN new[p] /\ new[p][i] = e[p][i]
  <2> SUFFICES ASSUME NEW p \in 0..MAX_PROCESSES
               PROVE  /\ Len(e[p]) \in Nat /\ Len(e[p]) <= Len(new[p])
                      /\ \A i \in DOMAIN e[p] : i \in DOMAIN new[p] /\ new[p][i] = e[p][i]
    OBVIOUS
  <2>1. CASE p = a.process
    <3>1. new[p] = more /\ e[p] = old
      BY <2>1 DEF old, more
    <3>2. /\ Len(old) \in Nat /\ Len(old) <= Len(more)
          /\ \A i \in DOMAIN old : i \in DOMAIN more /\ more[i] = old[i]
      BY <1>1, <1>5
    <3>3. QED
      BY <3>1, <3>2, Zenon
  <2>2. CASE p # a.process
    <3>1. new[p] = e[p] /\ Len(e[p]) \in Nat
      BY <1>6, <2>2 DEF Entries
    <3>2. Len(e[p]) <= Len(e[p])
      BY <3>1
    <3>3. QED
      BY <3>1, <3>2, Zenon
  <2>3. QED
    BY <2>1, <2>2
<1>9. Shared(new, b, FALSE, ls)
  <2>1. /\ \A p \in 0..MAX_PROCESSES : \A i \in DOMAIN e[p] :
             e[p][i] \in DOMAIN ls /\ e[p][i] # a.list
        /\ \A p, q \in 0..MAX_PROCESSES : \A i \in DOMAIN e[p] : \A j \in DOMAIN e[q] :
             e[p][i] = e[q][j] => p = q
    BY DEF Sound, Shared
  <2>2. \A p \in 0..MAX_PROCESSES : \A i \in DOMAIN new[p] : new[p][i] \in DOMAIN ls
    BY <1>1, <1>7, <2>1
  <2>3. \A p, q \in 0..MAX_PROCESSES : \A i \in DOMAIN new[p] : \A j \in DOMAIN new[q] :
          new[p][i] = new[q][j] => p = q
    <3> SUFFICES ASSUME NEW p \in 0..MAX_PROCESSES, NEW q \in 0..MAX_PROCESSES,
                        NEW i \in DOMAIN new[p], NEW j \in DOMAIN new[q],
                        new[p][i] = new[q][j]
                 PROVE  p = q
      OBVIOUS
    <3>1. \/ i \in DOMAIN e[p] /\ new[p][i] = e[p][i]
          \/ p = a.process /\ new[p][i] = a.list
      BY <1>7
    <3>2. \/ j \in DOMAIN e[q] /\ new[q][j] = e[q][j]
          \/ q = a.process /\ new[q][j] = a.list
      BY <1>7
    <3>3. QED
      BY <2>1, <3>1, <3>2
  <2>4. QED
    BY <2>2, <2>3 DEF Shared
<1>10. ASSUME Simple(new, b, w)
       PROVE  Numbered(lb, pl, new, b, FALSE) /\ AllLead(ls, lb, pl, new, b, FALSE)
  <2>1. a.copies = 1
    <3>1. SUFFICES ASSUME a.copies # 1 PROVE FALSE
      OBVIOUS
    <3> DEFINE i == Len(old) + 1
               j == Len(old) + 2
    <3>2. i \in DOMAIN more /\ j \in DOMAIN more /\ i # j /\ more[i] = a.list /\ more[j] = a.list
      <4>1. a.copies \in Nat /\ a.copies >= 2 /\ Len(old) \in Nat
        BY <1>1, <1>5, <3>1
      <4>2. /\ i \in Len(old) + 1 .. Len(old) + a.copies /\ i \in 1 .. Len(old) + a.copies
            /\ j \in Len(old) + 1 .. Len(old) + a.copies /\ j \in 1 .. Len(old) + a.copies
            /\ i # j
        BY <4>1
      <4> HIDE DEF i, j
      <4>3. QED
        BY <1>5, <4>2
    <3>3. \A x, y \in DOMAIN more : x # y => more[x] # more[y]
      BY <1>1, <1>10 DEF Simple, more
    <3> HIDE DEF i, j
    <3>4. QED
      BY <3>2, <3>3
  <2>2. Simple(e, a, w)
    <3>1. \A p \in 0..MAX_PROCESSES : \A x, y \in DOMAIN new[p] : x # y => new[p][x] # new[p][y]
      BY <1>10 DEF Simple
    <3>2. \A p \in 0..MAX_PROCESSES : \A x, y \in DOMAIN e[p] : x # y => e[p][x] # e[p][y]
      BY <1>8, <3>1
    <3>3. QED
      BY <1>10, <2>1, <3>2 DEF Simple
  <2>3. Numbered(lb, pl, e, a, ahead) /\ AllLead(ls, lb, pl, e, a, TRUE)
    BY <2>2 DEF Sound
  <2>4. a.entry = Len(old)
    BY <2>3 DEF Numbered, old
  <2>5. Numbered(lb, pl, new, b, FALSE)
    <3>1. b.entry = Len(new[b.process])
      BY <1>1, <1>5, <2>1, <2>4 DEF more
    <3>2. ASSUME NEW x \in DOMAIN lb, ~lb[x].forward
          PROVE  /\ lb[x].process \in 0..MAX_PROCESSES
                 /\ lb[x].name \in DOMAIN pl
                 /\ pl[lb[x].name] = <<lb[x].process, lb[x].entry>>
                 /\ lb[x].entry <= Len(new[lb[x].process])
      <4>1. /\ lb[x].process \in 0..MAX_PROCESSES
            /\ lb[x].name \in DOMAIN pl
            /\ pl[lb[x].name] = <<lb[x].process, lb[x].entry>>
            /\ lb[x].entry <= Len(e[lb[x].process])
                                + (IF ahead /\ lb[x].process = a.process THEN 1 ELSE 0)
        BY <2>3, <3>2 DEF Numbered
      <4>2. lb[x].entry \in Int
        <5>1. lb[x] \in LABEL
          OBVIOUS
        <5>2. QED
          BY <5>1 DEF LABEL
      <4> DEFINE p == lb[x].process
                 n == lb[x].entry
      <4>3. n <= Len(new[p])
        <5>1. p \in 0..MAX_PROCESSES /\ n \in Int
              /\ n <= Len(e[p]) + (IF ahead /\ p = a.process THEN 1 ELSE 0)
          BY <4>1, <4>2
        <5> HIDE DEF p, n
        <5>2. CASE p = a.process
          <6>1. Len(new[p]) = Len(old) + 1 /\ e[p] = old
            BY <1>5, <2>1, <5>2 DEF old, more
          <6>2. QED
            BY <1>5, <5>1, <6>1
        <5>3. CASE p # a.process
          BY <1>8, <5>1, <5>3
        <5>4. QED
          BY <5>2, <5>3
      <4>4. QED
        BY <4>1, <4>3
    <3>3. QED
      <4>1. \A x \in DOMAIN lb : ~lb[x].forward => lb[x].entry <= Len(new[lb[x].process]) + 0
        <5> SUFFICES ASSUME NEW x \in DOMAIN lb, ~lb[x].forward
                     PROVE  lb[x].entry <= Len(new[lb[x].process]) + 0
          OBVIOUS
        <5>1. lb[x].entry <= Len(new[lb[x].process]) /\ lb[x].process \in 0..MAX_PROCESSES
          BY <3>2
        <5>2. Len(new[lb[x].process]) \in Nat
          BY <5>1 DEF Entries
        <5>3. QED
          BY <5>1, <5>2
      <4>2. QED
        BY <3>1, <3>2, <4>1 DEF Numbered
  <2>6. AllLead(ls, lb, pl, new, b, FALSE)
    <3> SUFFICES ASSUME NEW p \in 0..MAX_PROCESSES, NEW n \in DOMAIN ls, NEW i \in Nat,
                        Stands(n, p, i, new, b, FALSE), NEW k \in DOMAIN ls[n]
                 PROVE  Leads(ls[n][k], p, i, lb, pl)
      BY DEF AllLead
    <3>1. i \in DOMAIN new[p] /\ new[p][i] = n
      BY DEF Stands
    <3>2. \/ i \in DOMAIN e[p] /\ e[p][i] = n
          \/ p = a.process /\ i = a.entry + 1 /\ n = a.list
      <4>1. \A x \in Len(old) + 1 .. Len(old) + a.copies : x = a.entry + 1
        BY <1>5, <2>1, <2>4
      <4>2. QED
        BY <1>7, <3>1, <4>1
    <3>3. Stands(n, p, i, e, a, TRUE)
      BY <3>2 DEF Stands
    <3>4. QED
      BY <2>3, <3>3, Zenon DEF AllLead
  <2>7. QED
    BY <2>5, <2>6
<1>11. QED
  BY <1>9, <1>10 DEF Sound

(* A label is placed: behind every entry so far, the one parsed included.  *)
LEMMA PlaceSound ==
  ASSUME labels \in Seq(LABEL), NEW ls, NEW e \in Entries, NEW a \in AT, NEW w,
         NEW open, open \in BOOLEAN, NEW name \in STRING, CanAdd(name), NEW num \in Int,
         num = a.entry + (IF open THEN 1 ELSE 0),
         Sound(ls, labels, places, e, a, open, FALSE, w)
  PROVE  Sound(ls, WithPlace(name, a.process, num),
               PlacesWith(name, <<a.process, Len(e[a.process]) + a.copies>>),
               e, a, open, open, w)
<1> DEFINE lb == WithPlace(name, a.process, num)
           p0 == a.process
           place == <<p0, Len(e[p0]) + a.copies>>
           pl == PlacesWith(name, place)
           label == PlacedAt(name, a.process, num)
<1>1. p0 \in 0..MAX_PROCESSES /\ p0 \in Int /\ a.copies \in Nat /\ a.entry \in Nat
  BY LimitsAssumption DEF AT
<1>2. /\ lb \in Seq(LABEL) /\ Keeps(labels, lb)
      /\ \A x \in DOMAIN lb :
           lb[x] = label \/ (x \in DOMAIN labels /\ lb[x] = labels[x] /\ labels[x].name # name)
  <2>1. /\ lb \in Seq(LABEL) /\ Keeps(labels, lb)
        /\ \A x \in 1..Len(lb) :
             lb[x] = label \/ (x \in 1..Len(labels) /\ lb[x] = labels[x] /\ labels[x].name # name)
    <3>1. HasPlaced(labels, WithPlace(name, a.process, num), name, PlacedAt(name, a.process, num))
      BY <1>1, LabelPlaced, Zenon
    <3>2. QED
      BY <3>1, Zenon DEF HasPlaced
  <2>2. DOMAIN lb = 1..Len(lb) /\ DOMAIN labels = 1..Len(labels)
    <3> HIDE DEF lb
    <3>1. QED
      BY <2>1
  <2>3. QED
    BY <2>1, <2>2, Zenon
<1>3. label.name = name /\ label.process = p0 /\ label.entry = num /\ ~label.forward
  BY DEF PlacedAt
<1>4. /\ name \in DOMAIN pl /\ pl[name] = place
      /\ \A n \in DOMAIN places : n \in DOMAIN pl /\ (n # name => pl[n] = places[n])
  BY DEF PlacesWith
<1>5. \A x \in DOMAIN labels : ~labels[x].forward => labels[x].name # name
  BY DEF CanAdd, Defined, Slot
<1>6. \A p \in 0..MAX_PROCESSES : Len(e[p]) \in Nat /\ DOMAIN e[p] = 1..Len(e[p])
  BY DEF Entries
<1> HIDE DEF lb, pl, place, label
<1>7. Shared(e, a, open, ls)
  BY DEF Sound
<1>8. ASSUME Simple(e, a, w) PROVE Numbered(lb, pl, e, a, open) /\ AllLead(ls, lb, pl, e, a, open)
  <2>1. Numbered(labels, places, e, a, FALSE) /\ AllLead(ls, labels, places, e, a, open)
    BY <1>8 DEF Sound
  <2>2. a.entry = Len(e[p0])
    BY <2>1 DEF Numbered
  <2>3. place = <<p0, num>>
    <3>1. a.copies = IF open THEN 1 ELSE 0
      BY <1>1, <1>7, <1>8 DEF Shared, Simple
    <3>2. QED
      BY <2>2, <3>1 DEF place
  <2>4. \A x \in DOMAIN labels : ~labels[x].forward =>
          /\ labels[x].process \in 0..MAX_PROCESSES
          /\ labels[x].name \in DOMAIN places
          /\ places[labels[x].name] = <<labels[x].process, labels[x].entry>>
          /\ labels[x].entry <= Len(e[labels[x].process])
                          + (IF FALSE /\ labels[x].process = a.process THEN 1 ELSE 0)
    BY <2>1, Zenon DEF Numbered
  <2>5. \A x \in DOMAIN labels : labels[x].entry \in Int
    <3> SUFFICES ASSUME NEW x \in DOMAIN labels PROVE labels[x].entry \in Int
      OBVIOUS
    <3>1. labels[x] \in LABEL
      OBVIOUS
    <3>2. QED
      BY <3>1 DEF LABEL
  <2>6. ASSUME NEW x \in DOMAIN lb, ~lb[x].forward
        PROVE  /\ lb[x].process \in 0..MAX_PROCESSES
               /\ lb[x].name \in DOMAIN pl
               /\ pl[lb[x].name] = <<lb[x].process, lb[x].entry>>
               /\ lb[x].entry <= Len(e[lb[x].process])
                                   + (IF open /\ lb[x].process = a.process THEN 1 ELSE 0)
    <3>1. CASE lb[x] = label
      <4>1. num <= Len(e[p0]) + (IF open /\ p0 = a.process THEN 1 ELSE 0)
        BY <1>1, <1>6, <2>2
      <4>2. QED
        BY <1>1, <1>3, <1>4, <2>3, <3>1, <4>1
    <3>2. CASE x \in DOMAIN labels /\ lb[x] = labels[x] /\ labels[x].name # name
      <4> DEFINE p == labels[x].process
                 n == labels[x].entry
      <4>1. /\ p \in 0..MAX_PROCESSES /\ n \in Int
            /\ n <= Len(e[p]) + 0
        BY <2>4, <2>5, <2>6, <3>2
      <4> HIDE DEF p, n
      <4>2. n <= Len(e[p]) + (IF open /\ p = a.process THEN 1 ELSE 0)
        <5>1. Len(e[p]) \in Nat
          BY <1>6, <4>1
        <5>2. CASE open /\ p = a.process
          BY <4>1, <5>1, <5>2
        <5>3. CASE ~(open /\ p = a.process)
          BY <4>1, <5>1, <5>3
        <5>4. QED
          BY <5>2, <5>3
      <4> USE DEF p, n
      <4>3. /\ labels[x].name \in DOMAIN pl
            /\ pl[labels[x].name] = <<labels[x].process, labels[x].entry>>
        BY <1>4, <2>4, <2>6, <3>2
      <4>4. QED
        BY <3>2, <4>1, <4>2, <4>3
    <3>3. QED
      BY <1>2, <3>1, <3>2
  <2>7. Numbered(lb, pl, e, a, open)
    BY <2>2, <2>6, Zenon DEF Numbered, p0
  <2>8. AllLead(ls, lb, pl, e, a, open)
    <3> SUFFICES ASSUME NEW p \in 0..MAX_PROCESSES, NEW n \in DOMAIN ls, NEW i \in Nat,
                        Stands(n, p, i, e, a, open), NEW k \in DOMAIN ls[n]
                 PROVE  Leads(ls[n][k], p, i, lb, pl)
      BY DEF AllLead
    <3>1. p = p0 => i <= num
      <4>1. CASE i \in DOMAIN e[p] /\ p = p0
        <5>1. i <= Len(e[p0])
          BY <1>6, <4>1
        <5>2. a.entry <= num /\ a.entry \in Int
          BY <1>1
        <5>3. i <= a.entry
          BY <2>2, <5>1
        <5>4. i <= num
          BY <5>2, <5>3
        <5>5. QED
          BY <5>4
      <4>2. CASE open /\ i = a.entry + 1
        BY <1>1, <4>2
      <4>3. QED
        BY <4>1, <4>2 DEF Stands
    <3>2. \A x \in DOMAIN labels : ~labels[x].forward => pl[labels[x].name] = places[labels[x].name]
      BY <1>4, <1>5, <2>4
    <3>3. \A x \in DOMAIN lb : ~lb[x].forward =>
            \/ x \in DOMAIN labels /\ ~labels[x].forward
            \/ lb[x].process = p => lb[x].entry >= i
      BY <1>2, <1>3, <3>1
    <3>4. Onward(labels, places, lb, pl, p, i)
      BY <1>2, <3>2, <3>3, Zenon DEF Onward
    <3>5. Leads(ls[n][k], p, i, labels, places)
      BY <2>1, Zenon DEF AllLead
    <3>6. p \in Int /\ i \in Int
      BY LimitsAssumption
    <3>7. QED
      BY <1>2, <3>4, <3>5, <3>6, LeadsStays, Zenon
  <2>9. QED
    BY <2>7, <2>8
<1>9. QED
  BY <1>7, <1>8, Zenon DEF Sound, lb, pl, place

(* Condacts are added to the list of the entry, each with a label it leads *)
(* to or with none.  Labels may be mentioned on the way.                   *)
LEMMA AddSound ==
  ASSUME NEW ls \in Lists, NEW new \in Lists, NEW lb \in Seq(LABEL), NEW lb2 \in Seq(LABEL),
         NEW pl, NEW e \in Entries, NEW a \in AT, NEW w, NEW cs \in Seq(CONDACT),
         Len(new) = Len(ls),
         \A l \in 1..Len(ls) : new[l] = IF l = a.list THEN ls[l] \o cs ELSE ls[l],
         Keeps(lb, lb2),
         \A x \in DOMAIN lb2 : ~lb2[x].forward => x \in DOMAIN lb /\ ~lb[x].forward,
         Sound(ls, lb, pl, e, a, TRUE, FALSE, w),
         Simple(e, a, w) => \A k \in DOMAIN cs : Leads(cs[k], a.process, a.entry + 1, lb2, pl)
  PROVE  Sound(new, lb2, pl, e, a, TRUE, FALSE, w)
<1>1. DOMAIN ls = 1..Len(ls) /\ DOMAIN new = DOMAIN ls
  BY DEF Lists
<1>2. Shared(e, a, TRUE, ls)
  BY DEF Sound
<1>3. Shared(e, a, TRUE, new)
  BY <1>1, <1>2 DEF Shared
<1>4. \A x \in DOMAIN lb2 : ~lb2[x].forward =>
        x \in DOMAIN lb /\ ~lb[x].forward /\ lb2[x] = lb[x]
  <2>1. DOMAIN lb = 1..Len(lb)
    OBVIOUS
  <2>2. QED
    BY <2>1 DEF Keeps
<1>5. ASSUME Simple(e, a, w)
      PROVE  Numbered(lb2, pl, e, a, FALSE) /\ AllLead(new, lb2, pl, e, a, TRUE)
  <2>1. Numbered(lb, pl, e, a, FALSE) /\ AllLead(ls, lb, pl, e, a, TRUE)
    BY <1>5 DEF Sound
  <2>2. Numbered(lb2, pl, e, a, FALSE)
    <3>1. a.entry = Len(e[a.process])
      BY <2>1 DEF Numbered
    <3>2. ASSUME NEW x \in DOMAIN lb2, ~lb2[x].forward
          PROVE  /\ lb2[x].process \in 0..MAX_PROCESSES
                 /\ lb2[x].name \in DOMAIN pl
                 /\ pl[lb2[x].name] = <<lb2[x].process, lb2[x].entry>>
                 /\ lb2[x].entry <= Len(e[lb2[x].process])
                                     + (IF FALSE /\ lb2[x].process = a.process THEN 1 ELSE 0)
      <4>1. x \in DOMAIN lb /\ ~lb[x].forward /\ lb2[x] = lb[x]
        BY <1>4, <3>2
      <4>2. /\ lb[x].process \in 0..MAX_PROCESSES
            /\ lb[x].name \in DOMAIN pl
            /\ pl[lb[x].name] = <<lb[x].process, lb[x].entry>>
            /\ lb[x].entry <= Len(e[lb[x].process])
                                + (IF FALSE /\ lb[x].process = a.process THEN 1 ELSE 0)
        BY <2>1, <4>1, Zenon DEF Numbered
      <4>3. QED
        BY <4>1, <4>2
    <3>3. QED
      BY <3>1, <3>2, Zenon DEF Numbered
  <2>3. AllLead(new, lb2, pl, e, a, TRUE)
    <3> SUFFICES ASSUME NEW p \in 0..MAX_PROCESSES, NEW n \in DOMAIN new, NEW i \in Nat,
                        Stands(n, p, i, e, a, TRUE), NEW k \in DOMAIN new[n]
                 PROVE  Leads(new[n][k], p, i, lb2, pl)
      BY DEF AllLead
    <3>1. n \in DOMAIN ls /\ n \in 1..Len(ls)
      BY <1>1
    <3>2. \A x \in DOMAIN lb : ~lb[x].forward => pl[lb[x].name] = pl[lb[x].name]
      OBVIOUS
    <3>3. Onward(lb, pl, lb2, pl, p, i)
      BY <1>4, <3>2, Zenon DEF Onward
    <3>4. p \in Int /\ i \in Int
      BY LimitsAssumption
    <3>5. ASSUME NEW j \in DOMAIN ls[n], new[n][k] = ls[n][j]
          PROVE  Leads(new[n][k], p, i, lb2, pl)
      <4>1. Leads(ls[n][j], p, i, lb, pl)
        BY <2>1, <3>1, Zenon DEF AllLead
      <4>2. Leads(ls[n][j], p, i, lb2, pl)
        BY <3>3, <3>4, <4>1, LeadsStays, Zenon
      <4>3. QED
        BY <3>5, <4>2
    <3>6. CASE n # a.list
      BY <3>1, <3>5, <3>6
    <3>7. CASE n = a.list
      <4> DEFINE s == ls[n]
      <4>1. p = a.process /\ i = a.entry + 1
        BY <1>2, <3>7 DEF Stands, Shared
      <4>2. s \in Seq(CONDACT) /\ new[n] = s \o cs
        <5>1. new[n] = ls[n] \o cs
          BY <3>1, <3>7, Zenon
        <5>2. ls \in Seq(Seq(CONDACT))
          BY DEF Lists
        <5>3. ls[n] \in Seq(CONDACT)
          BY <3>1, <5>2, ElementOfSeq, Zenon
        <5>4. QED
          BY <5>1, <5>3
      <4> HIDE DEF s
      <4>3. k \in 1..Len(s) \/ k - Len(s) \in 1..Len(cs)
        BY <4>2
      <4>4. CASE k \in 1..Len(s)
        <5>1. new[n][k] = s[k] /\ k \in DOMAIN s
          BY <4>2, <4>4
        <5>2. QED
          BY <3>5, <5>1 DEF s
      <4>5. CASE k - Len(s) \in 1..Len(cs)
        <5>1. new[n][k] = cs[k - Len(s)] /\ k - Len(s) \in DOMAIN cs
          <6>1. (s \o cs)[Len(s) + (k - Len(s))] = cs[k - Len(s)]
            BY <4>2, <4>5, Concat
          <6>2. Len(s) \in Nat /\ k \in Int
            BY <4>2
          <6>3. Len(s) + (k - Len(s)) = k
            BY <6>2
          <6>4. k - Len(s) \in DOMAIN cs
            BY <4>5
          <6>5. QED
            BY <4>2, <6>1, <6>3, <6>4, Zenon
        <5>2. Leads(cs[k - Len(s)], a.process, a.entry + 1, lb2, pl)
          BY <1>5, <5>1
        <5>3. QED
          BY <4>1, <5>1, <5>2
      <4>6. QED
        BY <4>3, <4>4, <4>5
    <3>8. QED
      BY <3>6, <3>7
  <2>4. QED
    BY <2>2, <2>3
<1>6. QED
  BY <1>3, <1>5, Zenon DEF Sound

(* What Grammar says while the list of an entry is filled.                 *)
LEMMA InsideSound ==
  ASSUME Going, Grammar, status # "failed", expect \in Inside \ {"behind label"}
  PROVE  Sound(lists, labels, places, entries, at, TRUE, FALSE, warned)
<1>1. Sound(lists, labels, places, entries, at, expect \in Inside, expect = "behind label", warned)
  BY DEF Grammar
<1>2. (expect \in Inside) = TRUE /\ (expect = "behind label") = FALSE
  OBVIOUS
<1>3. QED
  BY <1>1, <1>2

(* Condacts are added.                                                     *)
LEMMA AddsSound ==
  ASSUME Tables, Going, Grammar, NEW cs, Adds(cs), labels' \in Seq(LABEL),
         Keeps(labels, labels'),
         \A x \in DOMAIN labels' : ~labels'[x].forward => x \in DOMAIN labels /\ ~labels[x].forward,
         Simple(entries, at, warned) =>
           \A k \in DOMAIN cs : Leads(cs[k], at.process, at.entry + 1, labels', places)
  PROVE  Sound(lists', labels', places', entries', at', TRUE, FALSE, warned')
<1>1. /\ status = "parsing" /\ expect \in Inside \ {"behind label"}
      /\ UNCHANGED <<entries, places, warned>>
      /\ SameEntry /\ at'.copies = at.copies /\ cs \in Seq(CONDACT) /\ lists' = Added(cs)
  BY DEF Adds, Inside
<1>2. Sound(lists, labels, places, entries, at, TRUE, FALSE, warned)
  BY <1>1, InsideSound
<1>3. lists \in Lists /\ labels \in Seq(LABEL) /\ entries \in Entries /\ at \in AT
  BY <1>1 DEF Tables, Going, Lists, Entries
<1>4. /\ lists' \in Lists /\ Len(lists') = Len(lists)
      /\ \A l \in 1..Len(lists) : lists'[l] = IF l = at.list THEN lists[l] \o cs ELSE lists[l]
  BY <1>1, <1>3, AddedTo, Zenon DEF Lists
<1>5. Sound(lists', labels', places, entries, at, TRUE, FALSE, warned)
  BY <1>1, <1>2, <1>3, <1>4, AddSound, Zenon
<1>6. at' \in AT /\ at'.process = at.process /\ at'.entry = at.entry /\ at'.list = at.list
  BY <1>1 DEF SameEntry
<1>7. Sound(lists', labels', places, entries, at', TRUE, FALSE, warned)
  <2>1. at'.copies \in {at.copies, at.copies + 1}
    BY <1>1
  <2> DEFINE b == at'
  <2>2. /\ b \in AT /\ b.process = at.process /\ b.entry = at.entry /\ b.list = at.list
        /\ b.copies \in {at.copies, at.copies + 1}
    BY <1>6, <2>1
  <2> HIDE DEF b
  <2>3. Sound(lists', labels', places, entries, b, TRUE, FALSE, warned)
    BY <1>3, <1>5, <2>2, CopiesSound, Zenon
  <2>4. QED
    BY <2>3, Zenon DEF b
<1>8. QED
  BY <1>1, <1>7

(* A label mentioned or not, a condact without one is easy.                *)
LEMMA PlainSound ==
  ASSUME Tables, Going, Grammar, AddsPlain \/ AddsText
  PROVE  Sound(lists', labels', places', entries', at', TRUE, FALSE, warned')
<1>1. \E cs : Adds(cs) /\ labels' = labels /\ \A i \in DOMAIN cs : cs[i].label = NoLabel
  <2>1. CASE AddsPlain
    BY <2>1, Zenon DEF AddsPlain
  <2>2. CASE AddsText
    <3>1. PICK op \in TakesText, text \in TEXTS, indirect \in BOOLEAN :
            /\ labels' = labels
            /\ Adds(<<Made(Inline(op, text).op, Inline(op, text).id, indirect, NoLabel,
                           Printed(op, text))>>)
      BY <2>2, Zenon DEF AddsText
    <3> DEFINE cs == <<Made(Inline(op, text).op, Inline(op, text).id, indirect, NoLabel,
                            Printed(op, text))>>
    <3>2. \A i \in DOMAIN cs : cs[i].label = NoLabel
      BY DEF Made
    <3>3. QED
      BY <3>1, <3>2, Zenon
  <2>3. QED
    BY <2>1, <2>2
<1>2. PICK cs : Adds(cs) /\ labels' = labels /\ \A i \in DOMAIN cs : cs[i].label = NoLabel
  BY <1>1, Zenon
<1>3. labels \in Seq(LABEL)
  BY DEF Tables
<1>4. Keeps(labels, labels')
  BY <1>2, <1>3 DEF Keeps
<1>5. \A k \in DOMAIN cs : Leads(cs[k], at.process, at.entry + 1, labels', places)
  BY <1>2, Zenon DEF Leads
<1>6. /\ labels' \in Seq(LABEL)
      /\ \A x \in DOMAIN labels' : ~labels'[x].forward => x \in DOMAIN labels /\ ~labels[x].forward
  BY <1>2, <1>3
<1>7. QED
  BY <1>2, <1>4, <1>5, <1>6, AddsSound, Zenon

(* A SKIP back: the label stands at most where the entry does.             *)
LEMMA BackSound ==
  ASSUME Tables, Going, Grammar, AddsBack
  PROVE  Sound(lists', labels', places', entries', at', TRUE, FALSE, warned')
<1>1. PICK x \in DOMAIN labels, value \in Int, indirect \in BOOLEAN :
        LET back == labels[x].entry - at.entry - 1
        IN  /\ ~labels[x].forward /\ labels[x].process = at.process /\ back >= -Reach
            /\ value = IF back < 0 THEN 2 * Reach + back ELSE back
            /\ UNCHANGED <<labels, msgs>>
            /\ Adds(<<Made(SKIP, value, indirect, labels[x].name, NoText)>>)
  BY Zenon DEF AddsBack
<1> DEFINE c == Made(SKIP, value, indirect, labels[x].name, NoText)
           cs == <<c>>
           n == labels[x].entry
           back == n - at.entry - 1
<1>2. /\ ~labels[x].forward /\ labels[x].process = at.process /\ back >= -Reach
      /\ value = IF back < 0 THEN 2 * Reach + back ELSE back
      /\ labels' = labels /\ Adds(cs)
  BY <1>1
<1>3. status = "parsing" /\ expect \in Inside \ {"behind label"}
  BY <1>2 DEF Adds, Inside
<1>4. Sound(lists, labels, places, entries, at, TRUE, FALSE, warned)
  BY <1>3, InsideSound
<1>5. /\ labels \in Seq(LABEL) /\ at.process \in 0..MAX_PROCESSES /\ at.entry \in Nat
      /\ entries \in Entries
  BY <1>3 DEF Tables, Going, AT, Entries
<1>6. n \in Int
  <2>1. labels[x] \in LABEL
    BY <1>5
  <2>2. QED
    BY <2>1 DEF LABEL
<1>7. c.label = labels[x].name /\ c.op = SKIP /\ c.value = value /\ SKIP # PENDINGSKIP
  BY DEF Made, SKIP, PENDINGSKIP
<1> HIDE DEF c
<1>8. ASSUME Simple(entries, at, warned)
      PROVE  Leads(c, at.process, at.entry + 1, labels, places)
  <2>1. Numbered(labels, places, entries, at, FALSE)
    BY <1>4, <1>8 DEF Sound
  <2>2. at.entry = Len(entries[at.process])
    BY <2>1 DEF Numbered
  <2>3. /\ places[labels[x].name] = <<labels[x].process, n>>
        /\ n <= Len(entries[labels[x].process]) + 0
    BY <1>2, <2>1 DEF Numbered
  <2>4. n <= at.entry
    BY <1>2, <1>5, <1>6, <2>2, <2>3
  <2>5. Signed(value) = back
    <3>1. back < 0 /\ back \in Int /\ Reach \in Nat /\ back >= -Reach
      <4>1. back >= -Reach
        BY <1>2
      <4>2. back < 0 /\ back \in Int
        BY <1>5, <1>6, <2>4
      <4>3. QED
        BY <4>1, <4>2, LimitsAssumption
    <3> HIDE DEF back
    <3>2. value = 2 * Reach + back
      BY <1>2, <3>1
    <3>3. value >= Reach /\ value - 2 * Reach = back
      BY <3>1, <3>2
    <3>4. QED
      BY <3>3 DEF Signed
  <2>6. at.entry + 1 + Signed(value) = n
    BY <1>5, <1>6, <2>5
  <2>7. places[c.label] = <<at.process, at.entry + 1 + Signed(c.value)>>
    BY <1>2, <1>7, <2>3, <2>6
  <2>8. QED
    BY <1>2, <1>7, <2>7, Zenon DEF Leads
<1>9. Simple(entries, at, warned) =>
        \A k \in DOMAIN cs : Leads(cs[k], at.process, at.entry + 1, labels', places)
  <2>1. \A k \in DOMAIN cs : cs[k] = c
    OBVIOUS
  <2>2. QED
    BY <1>2, <1>8, <2>1
<1>10. Keeps(labels, labels')
  BY <1>2, <1>5 DEF Keeps
<1>11. /\ labels' \in Seq(LABEL)
       /\ \A y \in DOMAIN labels' : ~labels'[y].forward => y \in DOMAIN labels /\ ~labels[y].forward
  BY <1>2, <1>5
<1> HIDE DEF cs
<1>12. QED
  BY <1>2, <1>9, <1>10, <1>11, AddsSound, Zenon

(* A SKIP ahead waits for its label.                                       *)
LEMMA ForwardSound ==
  ASSUME Tables, Going, Grammar, AddsForward
  PROVE  Sound(lists', labels', places', entries', at', TRUE, FALSE, warned')
<1>1. PICK name \in STRING :
        /\ Defined(name) = {} /\ CanAdd(name)
        /\ labels' = WithMention(name) /\ UNCHANGED msgs
        /\ Adds(<<Made(PENDINGSKIP, LabelId(WithMention(name), name), FALSE, name, NoText)>>)
  BY Zenon DEF AddsForward
<1> DEFINE t == WithMention(name)
           id == LabelId(t, name)
           c == Made(PENDINGSKIP, id, FALSE, name, NoText)
           cs == <<c>>
<1>2. labels \in Seq(LABEL)
  BY DEF Tables
<1>3. /\ t \in Seq(LABEL) /\ Len(labels) <= Len(t)
      /\ \A i \in 1..Len(labels) : t[i] = labels[i]
      /\ \A i \in 1..Len(t) : i \in 1..Len(labels) \/ t[i].forward
      /\ id \in Nat /\ id + 1 \in DOMAIN t /\ t[id + 1].name = name
  BY <1>2, Mentioned, Zenon
<1>4. \A i \in DOMAIN labels : labels[i].name = name => labels[i].forward
  BY <1>1 DEF Defined, Slot
<1>5. c.label = name /\ c.op = PENDINGSKIP /\ c.value = id /\ SKIP # PENDINGSKIP
  BY DEF Made, SKIP, PENDINGSKIP
<1>6. Adds(cs) /\ labels' = t
  BY <1>1
<1> HIDE DEF t, id, c
<1>7. DOMAIN t = 1..Len(t) /\ DOMAIN labels = 1..Len(labels)
  BY <1>2, <1>3
<1>8. t[id + 1].forward
  BY <1>3, <1>4, <1>7
<1>9. Leads(c, at.process, at.entry + 1, t, places)
  BY <1>3, <1>5, <1>8, Zenon DEF Leads
<1>10. \A k \in DOMAIN cs : Leads(cs[k], at.process, at.entry + 1, labels', places)
  <2>1. \A k \in DOMAIN cs : cs[k] = c
    OBVIOUS
  <2>2. QED
    BY <1>6, <1>9, <2>1
<1>11. Keeps(labels, labels') /\ labels' \in Seq(LABEL)
  <2>1. \A i \in 1..Len(labels) : t[i].name = labels[i].name /\ (~labels[i].forward => t[i] = labels[i])
    BY <1>3
  <2>2. QED
    BY <1>3, <1>6, <2>1, Zenon DEF Keeps
<1>12. \A y \in DOMAIN labels' : ~labels'[y].forward => y \in DOMAIN labels /\ ~labels[y].forward
  BY <1>3, <1>6, <1>7
<1> HIDE DEF cs
<1>13. QED
  BY <1>6, <1>10, <1>11, <1>12, AddsSound, Zenon

(* Between two entries all is as sound as within one.                      *)
LEMMA BetweenSound ==
  ASSUME Tables, Going, Grammar, NEW a, Between(a)
  PROVE  /\ entries' \in Entries /\ a \in AT /\ a.process = at.process
         /\ Sound(lists, labels, places, entries', a, FALSE, FALSE, warned)
<1>1. a \in AT /\ entries' \in Entries
  BY BetweenTyped, Zenon DEF Entries
<1>2. /\ status = "parsing" /\ at \in AT /\ entries \in Entries
      /\ labels \in Seq(LABEL) /\ lists \in Lists
  BY DEF Between, Going, Tables, Entries, Lists
<1>3. Sound(lists, labels, places, entries, at, expect \in Inside, expect = "behind label", warned)
  BY <1>2 DEF Grammar
<1>4. CASE expect = "entry" /\ UNCHANGED entries /\ a = at
  <2>1. (expect \in Inside) = FALSE /\ (expect = "behind label") = FALSE
    BY <1>4 DEF Inside
  <2>2. Sound(lists, labels, places, entries, at, FALSE, FALSE, warned)
    BY <1>3, <2>1
  <2>3. QED
    BY <1>1, <1>4, <2>2
<1>5. CASE expect \in {"synonym", "condact", "behind label"} /\ CloseEntry /\ a = Closed
  <2>1. (expect \in Inside) = TRUE
    BY <1>5 DEF Inside
  <2> DEFINE ahead == expect = "behind label"
  <2>2. ahead \in BOOLEAN /\ Sound(lists, labels, places, entries, at, TRUE, ahead, warned)
    BY <1>3, <2>1
  <2> HIDE DEF ahead
  <2>3. a.process = at.process /\ a.entry = at.entry + at.copies /\ a.copies = 0
    BY <1>2, <1>5 DEF Closed, AT
  <2>4. HasClosed(entries, entries', at)
    <3>1. entries' = [entries EXCEPT ![at.process] = @ \o [i \in 1..at.copies |-> at.list]]
      BY <1>5, Zenon DEF CloseEntry
    <3>2. QED
      BY <1>2, <3>1, ClosesEntry, Zenon
  <2>5. Sound(lists, labels, places, entries', a, FALSE, FALSE, warned)
    BY <1>1, <1>2, <2>2, <2>3, <2>4, CloseSound, Zenon
  <2>6. QED
    BY <1>1, <2>3, <2>5
<1>6. QED
  BY <1>4, <1>5, Zenon DEF Between

(* The state after a step of the parser.                                   *)
SoundNext ==
  Sound(lists', labels', places', entries', at', expect' \in Inside,
        expect' = "behind label", warned')

(* Read with what the next token is waited for.                            *)
LEMMA SoundByExpect ==
  ASSUME NEW open, NEW ahead, open = (expect' \in Inside), ahead = (expect' = "behind label"),
         Sound(lists', labels', places', entries', at', open, ahead, warned')
  PROVE  SoundNext
BY Zenon DEF SoundNext

(* Nothing that leaves a trace.                                            *)
LEMMA RestsSound ==
  ASSUME Tables, Going, Grammar, Rests, status # "failed"
  PROVE  SoundNext
<1>1. UNCHANGED <<status, lists, entries, labels, msgs, places, warned, fix>>
  BY DEF Rests
<1>2. CASE UNCHANGED <<at, expect>>
  BY <1>1, <1>2, Zenon DEF Grammar, SoundNext
<1>3. CASE /\ {expect, expect'} \subseteq Inside \ {"behind label"}
           /\ SameEntry /\ at'.copies \in {at.copies, at.copies + 1}
  <2>1. Sound(lists, labels, places, entries, at, TRUE, FALSE, warned)
    BY <1>3, InsideSound
  <2> DEFINE b == at'
  <2>2. /\ b \in AT /\ b.process = at.process /\ b.entry = at.entry /\ b.list = at.list
        /\ b.copies \in {at.copies, at.copies + 1}
    BY <1>3 DEF SameEntry
  <2> HIDE DEF b
  <2>3. at \in AT
    BY DEF Going
  <2>4. Sound(lists, labels, places, entries, b, TRUE, FALSE, warned)
    BY <2>1, <2>2, <2>3, CopiesSound, Zenon
  <2>5. TRUE = (expect' \in Inside) /\ FALSE = (expect' = "behind label")
    BY <1>3
  <2>6. Sound(lists', labels', places', entries', at', TRUE, FALSE, warned')
    BY <1>1, <2>4 DEF b
  <2>7. QED
    BY <2>5, <2>6, SoundByExpect, Zenon
<1>4. QED
  BY <1>2, <1>3, Zenon DEF Rests

(* Condacts are added.                                                     *)
LEMMA FilledSound ==
  ASSUME Tables, Going, Grammar, AddsPlain \/ AddsText \/ AddsBack \/ AddsForward
  PROVE  SoundNext
<1>1. Sound(lists', labels', places', entries', at', TRUE, FALSE, warned')
  BY PlainSound, BackSound, ForwardSound, Zenon
<1>2. expect' = "condact"
  BY Zenon DEF AddsPlain, AddsText, AddsBack, AddsForward, Adds
<1>3. TRUE = (expect' \in Inside) /\ FALSE = (expect' = "behind label")
  BY <1>2 DEF Inside
<1>4. QED
  BY <1>1, <1>3, SoundByExpect, Zenon

(* A process is opened.                                                    *)
LEMMA OpensSound ==
  ASSUME Tables, Going, Grammar, Opens
  PROVE  SoundNext
<1>1. PICK v \in 0..MAX_PROCESSES :
        /\ status = "parsing" /\ expect = "process" /\ expect' = "entry"
        /\ warned' = (warned \/ entries[v] # <<>>)
        /\ at' = Start(v)
        /\ UNCHANGED <<status, lists, entries, labels, msgs, places, fix>>
  BY DEF Opens
<1>2. entries \in Entries /\ labels \in Seq(LABEL)
  BY <1>1 DEF Going, Tables, Entries
<1>3. Sound(lists, labels, places, entries, at, expect \in Inside, expect = "behind label", warned)
  BY <1>1 DEF Grammar
<1>4. (expect \in Inside) = FALSE /\ (expect = "behind label") = FALSE
  BY <1>1 DEF Inside
<1>5. Sound(lists, labels, places, entries, at, FALSE, FALSE, warned)
  BY <1>3, <1>4
<1>6. Sound(lists, labels, places, entries, Start(v), FALSE, FALSE, warned \/ entries[v] # <<>>)
  BY <1>2, <1>5, OpenSound, Zenon
<1>7. Sound(lists', labels', places', entries', at', FALSE, FALSE, warned')
  BY <1>1, <1>6
<1>8. FALSE = (expect' \in Inside) /\ FALSE = (expect' = "behind label")
  BY <1>1 DEF Inside
<1>9. QED
  BY <1>7, <1>8, SoundByExpect, Zenon

(* A label ends the entry.                                                 *)
LEMMA LabelsEndSound ==
  ASSUME Tables, Going, Grammar, LabelsEnd
  PROVE  SoundNext
<1>1. PICK name \in STRING :
        /\ status = "parsing" /\ expect \in {"synonym", "condact"} /\ expect' = "behind label"
        /\ CanAdd(name)
        /\ labels' = WithPlace(name, at.process, at.entry + 1)
        /\ places' = PlacesWith(name, <<at.process, Len(entries[at.process]) + at.copies>>)
        /\ UNCHANGED <<at, status, lists, entries, msgs, warned, fix>>
  BY DEF LabelsEnd
<1>2. Sound(lists, labels, places, entries, at, TRUE, FALSE, warned)
  <2>1. expect \in Inside \ {"behind label"} /\ status # "failed"
    BY <1>1 DEF Inside
  <2>2. QED
    BY <2>1, InsideSound
<1>3. entries \in Entries /\ at \in AT /\ labels \in Seq(LABEL) /\ at.entry \in Nat
  BY <1>1 DEF Going, Tables, Entries, AT
<1> DEFINE num == at.entry + 1
<1>4. num \in Int /\ num = at.entry + (IF TRUE THEN 1 ELSE 0) /\ TRUE \in BOOLEAN
  BY <1>3
<1>5. CanAdd(name) /\ labels' = WithPlace(name, at.process, num)
  BY <1>1
<1> HIDE DEF num
<1>6. Sound(lists, labels', places', entries, at, TRUE, TRUE, warned)
  <2>1. Sound(lists, WithPlace(name, at.process, num),
              PlacesWith(name, <<at.process, Len(entries[at.process]) + at.copies>>),
              entries, at, TRUE, TRUE, warned)
    BY <1>2, <1>3, <1>4, <1>5, PlaceSound, Zenon
  <2>2. QED
    BY <1>1, <1>5, <2>1, Zenon
<1>7. Sound(lists', labels', places', entries', at', TRUE, TRUE, warned')
  BY <1>1, <1>6
<1>8. TRUE = (expect' \in Inside) /\ TRUE = (expect' = "behind label")
  BY <1>1 DEF Inside
<1>9. QED
  BY <1>7, <1>8, SoundByExpect, Zenon

(* An entry starts, or none does.                                          *)
LEMMA TurnsSound ==
  ASSUME Tables, Going, Grammar, Starts \/ Leaves
  PROVE  SoundNext
<1>1. CASE Starts
  <2>1. PICK a : /\ Between(a)
                 /\ expect' = "verb" /\ lists' = Append(lists, <<>>)
                 /\ at' = [a EXCEPT !.copies = 1, !.list = Len(lists) + 1]
                 /\ UNCHANGED <<status, labels, places>>
    BY <1>1 DEF Starts
  <2>2. /\ entries' \in Entries /\ a \in AT
        /\ Sound(lists, labels, places, entries', a, FALSE, FALSE, warned)
    BY <2>1, BetweenSound
  <2>3. lists \in Lists
    BY DEF Tables, Lists
  <2>4. Sound(Append(lists, <<>>), labels, places, entries',
              [a EXCEPT !.copies = 1, !.list = Len(lists) + 1], TRUE, FALSE, warned)
    BY <2>2, <2>3, StartSound, Zenon
  <2>5. Sound(lists', labels', places', entries', at', TRUE, FALSE, warned')
    BY <2>1, <2>4, Zenon DEF Between
  <2>6. TRUE = (expect' \in Inside) /\ FALSE = (expect' = "behind label")
    BY <2>1 DEF Inside
  <2>7. QED
    BY <2>5, <2>6, SoundByExpect, Zenon
<1>2. CASE Leaves
  <2>1. PICK a : /\ Between(a) /\ at' = a /\ UNCHANGED <<lists, labels, places>>
                 /\ expect' \in {"process", "nothing"}
    BY <1>2 DEF Leaves
  <2>2. Sound(lists, labels, places, entries', a, FALSE, FALSE, warned)
    BY <2>1, BetweenSound
  <2>3. Sound(lists', labels', places', entries', at', FALSE, FALSE, warned')
    BY <2>1, <2>2, Zenon DEF Between
  <2>4. FALSE = (expect' \in Inside) /\ FALSE = (expect' = "behind label")
    <3>1. CASE expect' = "process"
      BY <3>1 DEF Inside
    <3>2. CASE expect' = "nothing"
      BY <3>2 DEF Inside
    <3>3. QED
      BY <2>1, <3>1, <3>2
  <2>5. QED
    BY <2>3, <2>4, SoundByExpect, Zenon
<1>3. QED
  BY <1>1, <1>2

(* A label stands before the next entry.                                   *)
LEMMA LabelsNextSound ==
  ASSUME Tables, Going, Grammar, LabelsNext
  PROVE  SoundNext
<1>1. PICK a : \E name \in STRING :
        /\ Between(a) /\ CanAdd(name)
        /\ labels' = WithPlace(name, at.process, a.entry)
        /\ places' = PlacesWith(name, <<at.process, Len(entries'[at.process])>>)
        /\ at' = a /\ expect' = "entry" /\ UNCHANGED <<status, lists>>
  <2>1. PICK a : \E name \in STRING :
          /\ Between(a) /\ CanAdd(name)
          /\ labels' = WithPlace(name, at.process, a.entry)
          /\ places' = PlacesWith(name, <<at.process, Len(entries'[a.process])>>)
          /\ at' = a /\ expect' = "entry" /\ UNCHANGED <<status, lists>>
    BY Zenon DEF LabelsNext
  <2>2. a.process = at.process
    BY <2>1, BetweenSound
  <2>3. QED
    BY <2>1, <2>2
<1>2. PICK name \in STRING :
        /\ Between(a) /\ CanAdd(name)
        /\ labels' = WithPlace(name, at.process, a.entry)
        /\ places' = PlacesWith(name, <<at.process, Len(entries'[at.process])>>)
        /\ at' = a /\ expect' = "entry" /\ UNCHANGED <<status, lists>>
  BY <1>1, Zenon
<1>3. /\ entries' \in Entries /\ a \in AT /\ a.process = at.process
      /\ Sound(lists, labels, places, entries', a, FALSE, FALSE, warned)
  BY <1>2, BetweenSound
<1>4. PICK e \in Entries : e = entries'
  BY <1>3
<1>5. labels \in Seq(LABEL) /\ a.entry \in Int /\ FALSE \in BOOLEAN
  BY <1>3 DEF Tables, AT
<1>6. a.entry = a.entry + (IF FALSE THEN 1 ELSE 0)
  BY <1>5
<1>7. a.copies = 0 /\ Len(e[a.process]) \in Nat
  BY <1>3, <1>4 DEF Sound, Shared, Entries, AT
<1>8. Sound(lists, labels, places, e, a, FALSE, FALSE, warned)
  BY <1>3, <1>4
<1>9. Sound(lists, WithPlace(name, a.process, a.entry),
            PlacesWith(name, <<a.process, Len(e[a.process]) + a.copies>>), e, a, FALSE, FALSE,
            warned)
  BY <1>2, <1>3, <1>5, <1>6, <1>8, PlaceSound, Zenon
<1>10. Len(e[a.process]) + a.copies = Len(entries'[at.process])
  BY <1>3, <1>4, <1>7
<1>11. Sound(lists', labels', places', entries', at', FALSE, FALSE, warned')
  BY <1>2, <1>3, <1>4, <1>9, <1>10, Zenon DEF Between
<1>12. FALSE = (expect' \in Inside) /\ FALSE = (expect' = "behind label")
  BY <1>2 DEF Inside
<1>13. QED
  BY <1>11, <1>12, SoundByExpect, Zenon

(* What Grammar says while fix_forward_labels walks.                       *)
LEMMA FixingSound ==
  ASSUME Tables, Going, Grammar, status = "fixing"
  PROVE  /\ Sound(lists, labels, places, entries, at, FALSE, FALSE, warned)
         /\ expect = "nothing" /\ entries \in Entries /\ at \in AT /\ labels \in Seq(LABEL)
<1>1. expect = "nothing" /\ entries \in Entries /\ at \in AT /\ labels \in Seq(LABEL)
  BY DEF Going, Tables, Entries
<1>2. (expect \in Inside) = FALSE /\ (expect = "behind label") = FALSE
  BY <1>1 DEF Inside
<1>3. Sound(lists, labels, places, entries, at, expect \in Inside, expect = "behind label", warned)
  BY DEF Grammar
<1>4. QED
  BY <1>1, <1>2, <1>3

(* A PENDINGSKIP of entry i that is resolved leads to its label.           *)
LEMMA ResolvedLeads ==
  ASSUME NEW c \in CONDACT, NEW p \in Int, NEW i \in Int, labels \in Seq(LABEL),
         c.op = PENDINGSKIP, Leads(c, p, i, labels, places),
         \A x \in DOMAIN labels : ~labels[x].forward =>
           places[labels[x].name] = <<labels[x].process, labels[x].entry>>,
         NEW v \in Int, v = LabelAt(c.value).entry - i, v + 1 <= Reach,
         ~LabelAt(c.value).forward, LabelAt(c.value).process = p
  PROVE  Leads(Resolved(c, v), p, i, labels, places)
<1> DEFINE d == Resolved(c, v)
           x == c.value + 1
<1>1. d.label = c.label /\ d.op = SKIP /\ d.value = v /\ SKIP # PENDINGSKIP
  BY DEF Resolved, CONDACT, SKIP, PENDINGSKIP
<1> HIDE DEF d
<1>2. ASSUME c.label # NoLabel
      PROVE  /\ \E y \in DOMAIN labels : ~labels[y].forward /\ labels[y].name = c.label
             /\ places[c.label] = <<p, i + Signed(v)>>
  <2>1. /\ x \in DOMAIN labels /\ labels[x].name = c.label
        /\ ~labels[x].forward /\ labels[x].process = p => labels[x].entry >= i
    BY <1>2 DEF Leads
  <2>2. LabelAt(c.value) = labels[x]
    BY <2>1 DEF LabelAt
  <2> HIDE DEF x
  <2>3. ~labels[x].forward /\ labels[x].process = p /\ v = labels[x].entry - i
    BY <2>2
  <2>4. labels[x].entry \in Int
    <3>1. labels[x] \in LABEL
      BY <2>1
    <3>2. QED
      BY <3>1 DEF LABEL
  <2>5. v >= 0 /\ ~(v >= Reach)
    BY <2>1, <2>3, <2>4, LimitsAssumption
  <2>6. i + Signed(v) = labels[x].entry
    BY <2>3, <2>4, <2>5 DEF Signed
  <2>7. places[c.label] = <<p, i + Signed(v)>>
    BY <2>1, <2>3, <2>6
  <2>8. QED
    BY <2>1, <2>3, <2>7
<1>3. QED
  BY <1>1, <1>2, Zenon DEF Leads, d

(* A PENDINGSKIP is resolved.                                              *)
LEMMA FixSetsSound ==
  ASSUME Tables, Going, Grammar, FixSets
  PROVE  SoundNext
<1>1. PICK n \in 1..Len(lists) : \E i \in 1..Len(lists[n]) : \E v \in Int : HasResolved(n, i, v)
  BY FixSet, Zenon
<1>2. PICK i \in 1..Len(lists[n]) : \E v \in Int : HasResolved(n, i, v)
  BY <1>1, Zenon
<1>0. PICK v \in Int : HasResolved(n, i, v)
  BY <1>2, Zenon
<1> DEFINE label == LabelAt(lists[n][i].value)
           c == lists[n][i]
<1>3. /\ Walks /\ entries[fix[1]] # <<>> /\ n = entries[fix[1]][fix[2] + 1]
      /\ c.op = PENDINGSKIP /\ v = label.entry - fix[2] - 1
      /\ ~label.forward /\ label.process = fix[1] /\ ~(v + 1 > Reach)
      /\ lists' \in Seq(Seq(CONDACT)) /\ Len(lists') = Len(lists)
      /\ \A l \in 1..Len(lists) : l # n => lists'[l] = lists[l]
      /\ Len(lists'[n]) = Len(lists[n])
      /\ \A k \in 1..Len(lists[n]) :
           lists'[n][k] = IF k = i THEN Resolved(c, v) ELSE lists[n][k]
  BY <1>0, Zenon DEF HasResolved
<1>4. /\ fix[1] \in 0..MAX_PROCESSES /\ fix[2] \in Nat
      /\ fix[2] + 1 \in DOMAIN entries[fix[1]]
      /\ lists[n] \in Seq(CONDACT)
  BY <1>3, WalkAt, Zenon
<1>5. /\ Sound(lists, labels, places, entries, at, FALSE, FALSE, warned)
      /\ expect = "nothing" /\ labels \in Seq(LABEL)
  BY <1>3, FixingSound, Zenon DEF Walks
<1>6. UNCHANGED <<labels, places, entries, at, expect, warned>>
  BY <1>3, Zenon DEF Walks
<1>7. c \in CONDACT
  BY <1>4
<1>8. LabelAt(c.value).entry \in Int
  <2>1. CASE c.value + 1 \in DOMAIN labels
    <3>1. labels[c.value + 1] \in LABEL
      BY <1>5, <2>1
    <3>2. LabelAt(c.value) = labels[c.value + 1]
      BY <2>1 DEF LabelAt
    <3>3. QED
      BY <3>1, <3>2 DEF LABEL
  <2>2. CASE c.value + 1 \notin DOMAIN labels
    BY <2>2 DEF LabelAt
  <2>3. QED
    BY <2>1, <2>2
<1>9. /\ v = LabelAt(c.value).entry - (fix[2] + 1) /\ v + 1 <= Reach
      /\ ~LabelAt(c.value).forward /\ LabelAt(c.value).process = fix[1]
  <2>1. v = label.entry - fix[2] - 1 /\ label = LabelAt(c.value) /\ label.entry \in Int
    BY <1>3, <1>8
  <2>2. v \in Int /\ ~(v + 1 > Reach) /\ ~label.forward /\ label.process = fix[1]
    BY <1>3
  <2> HIDE DEF c, label
  <2>3. v = label.entry - (fix[2] + 1) /\ v + 1 <= Reach
    <3> DEFINE f == fix[2]
               e == label.entry
    <3>1. f \in Nat /\ e \in Int /\ v = e - f - 1 /\ v \in Int /\ Reach \in Nat /\ ~(v + 1 > Reach)
      BY <1>4, <2>1, <2>2, LimitsAssumption
    <3> HIDE DEF f, e
    <3>2. v = e - (f + 1) /\ v + 1 <= Reach
      BY <3>1
    <3>3. QED
      BY <3>2 DEF f, e
  <2>4. QED
    BY <2>1, <2>2, <2>3
<1> HIDE DEF c, label
<1>10. DOMAIN lists = 1..Len(lists) /\ DOMAIN lists' = DOMAIN lists
  <2>1. lists \in Seq(Seq(CONDACT)) /\ lists' \in Seq(Seq(CONDACT)) /\ Len(lists') = Len(lists)
    BY <1>3 DEF Tables
  <2>2. DOMAIN lists = 1..Len(lists) /\ DOMAIN lists' = 1..Len(lists')
    BY <2>1
  <2>3. QED
    BY <2>1, <2>2
<1>11. Shared(entries, at, FALSE, lists')
  BY <1>5, <1>10 DEF Sound, Shared
<1>12. ASSUME Simple(entries, at, warned)
       PROVE  /\ Numbered(labels, places, entries, at, FALSE)
              /\ AllLead(lists', labels, places, entries, at, FALSE)
  <2>1. /\ Numbered(labels, places, entries, at, FALSE)
        /\ AllLead(lists, labels, places, entries, at, FALSE)
    BY <1>5, <1>12 DEF Sound
  <2>2. \A x \in DOMAIN labels : ~labels[x].forward =>
          places[labels[x].name] = <<labels[x].process, labels[x].entry>>
    BY <2>1, Zenon DEF Numbered
  <2> SUFFICES ASSUME NEW p \in 0..MAX_PROCESSES, NEW m \in DOMAIN lists', NEW q \in Nat,
                      Stands(m, p, q, entries, at, FALSE), NEW k \in DOMAIN lists'[m]
               PROVE  Leads(lists'[m][k], p, q, labels, places)
    BY <2>1 DEF AllLead
  <2>3. q \in DOMAIN entries[p] /\ entries[p][q] = m /\ m \in 1..Len(lists)
    BY <1>10 DEF Stands
  <2>4. CASE m # n
    <3>1. lists'[m] = lists[m]
      BY <1>3, <2>3, <2>4
    <3>2. QED
      BY <1>10, <2>1, <3>1, Zenon DEF AllLead
  <2>5. CASE m = n
    <3>1. p = fix[1]
      <4>1. entries[fix[1]][fix[2] + 1] = entries[p][q]
        BY <1>3, <2>3, <2>5
      <4>2. \A x, y \in 0..MAX_PROCESSES : \A j \in DOMAIN entries[x] : \A l \in DOMAIN entries[y] :
              entries[x][j] = entries[y][l] => x = y
        BY <1>11, Zenon DEF Shared
      <4>3. QED
        BY <1>4, <2>3, <4>1, <4>2, Zenon
    <3>2. q = fix[2] + 1
      <4>1. entries[p][fix[2] + 1] = entries[p][q] /\ fix[2] + 1 \in DOMAIN entries[p]
        BY <1>3, <1>4, <2>3, <2>5, <3>1
      <4>2. \A x, y \in DOMAIN entries[p] : x # y => entries[p][x] # entries[p][y]
        BY <1>12, Zenon DEF Simple
      <4>3. QED
        BY <2>3, <4>1, <4>2, Zenon
    <3>3. k \in 1..Len(lists[n]) /\ k \in DOMAIN lists[n] /\ m \in DOMAIN lists
      <4>1. lists'[n] \in Seq(CONDACT)
        BY <1>3, <2>3, <2>5, ElementOfSeq, Zenon
      <4>2. k \in 1..Len(lists'[n])
        BY <2>5, <4>1
      <4>3. k \in 1..Len(lists[n])
        BY <1>3, <4>2
      <4>4. QED
        BY <1>4, <1>10, <2>3, <4>3
    <3>4. Leads(lists[n][k], p, q, labels, places)
      BY <2>1, <2>5, <3>3, Zenon DEF AllLead
    <3>5. CASE k # i
      <4>1. lists'[n][k] = lists[n][k]
        BY <1>3, <3>3, <3>5
      <4>2. QED
        BY <2>5, <3>4, <4>1
    <3>6. CASE k = i
      <4>1. lists'[n][k] = Resolved(c, v) /\ lists[n][k] = c
        BY <1>3, <3>3, <3>6 DEF c
      <4>2. q \in Int /\ p \in Int /\ v \in Int /\ c.op = PENDINGSKIP
        <5>1. q \in Int /\ p \in Int
          BY LimitsAssumption
        <5>2. QED
          BY <1>3, <5>1, Zenon
      <4>3. /\ v = LabelAt(c.value).entry - q /\ v + 1 <= Reach
            /\ ~LabelAt(c.value).forward /\ LabelAt(c.value).process = p
        BY <1>9, <3>1, <3>2
      <4>4. Leads(c, p, q, labels, places)
        BY <3>4, <4>1
      <4>5. Leads(Resolved(c, v), p, q, labels, places)
        BY <1>5, <1>7, <2>2, <4>2, <4>3, <4>4, ResolvedLeads, Zenon
      <4>6. QED
        BY <2>5, <4>1, <4>5
    <3>7. QED
      BY <3>5, <3>6
  <2>6. QED
    BY <2>4, <2>5
<1>13. Sound(lists', labels, places, entries, at, FALSE, FALSE, warned)
  BY <1>11, <1>12, Zenon DEF Sound
<1>14. Sound(lists', labels', places', entries', at', FALSE, FALSE, warned')
  BY <1>6, <1>13
<1>15. FALSE = (expect' \in Inside) /\ FALSE = (expect' = "behind label")
  BY <1>5, <1>6 DEF Inside
<1>16. QED
  BY <1>14, <1>15, SoundByExpect, Zenon

(* The next entry of the walk.                                             *)
LEMMA NextEntryAt ==
  ASSUME entries \in Entries, WalkedTo(entries, fix), fix[1] <= MAX_PROCESSES
  PROVE  /\ WalkedTo(entries, NextEntry)
         /\ \A p \in 0..MAX_PROCESSES : \A i \in DOMAIN entries[p] :
              Behind(p, i, NextEntry) => Behind(p, i, fix) \/ (p = fix[1] /\ i = fix[2] + 1)
<1> DEFINE p0 == fix[1]
           i0 == fix[2]
           n == Len(entries[p0])
           next == NextEntry
<1>1. p0 \in Nat /\ i0 \in Nat /\ p0 \in 0..MAX_PROCESSES /\ (i0 = 0 \/ i0 < n) /\ fix = <<p0, i0>>
  BY LimitsAssumption DEF WalkedTo
<1>2. \A p \in 0..MAX_PROCESSES : Len(entries[p]) \in Nat /\ DOMAIN entries[p] = 1..Len(entries[p])
  BY DEF Entries
<1>3. next = IF i0 + 1 < n THEN <<p0, i0 + 1>> ELSE <<p0 + 1, 0>>
  BY DEF NextEntry
<1>4. n \in Nat
  BY <1>1, <1>2
<1> HIDE DEF p0, i0, next
<1>5. next \in Nat \X Nat
  BY <1>1, <1>3
<1>6. next[1] <= MAX_PROCESSES => next[2] = 0 \/ next[2] < Len(entries[next[1]])
  <2>1. CASE i0 + 1 < n
    BY <1>3, <2>1
  <2>2. CASE ~(i0 + 1 < n)
    BY <1>3, <2>2
  <2>3. QED
    BY <2>1, <2>2
<1>7. ASSUME NEW p \in 0..MAX_PROCESSES, NEW i \in DOMAIN entries[p], Behind(p, i, next)
      PROVE  Behind(p, i, fix) \/ (p = p0 /\ i = i0 + 1)
  <2>1. p \in Int /\ i \in 1..Len(entries[p])
    BY <1>2, LimitsAssumption
  <2>2. fix[1] = p0 /\ fix[2] = i0
    BY <1>1
  <2> HIDE DEF n
  <2>3. CASE i0 + 1 < n
    <3>1. next[1] = p0 /\ next[2] = i0 + 1
      BY <1>3, <2>3
    <3>2. QED
      BY <1>1, <1>7, <2>1, <2>2, <3>1 DEF Behind
  <2>4. CASE ~(i0 + 1 < n)
    <3>1. next[1] = p0 + 1 /\ next[2] = 0
      BY <1>3, <2>4
    <3>2. p < p0 \/ p = p0
      BY <1>1, <1>7, <2>1, <3>1 DEF Behind
    <3>3. CASE p < p0
      BY <2>2, <3>3 DEF Behind
    <3>4. CASE p = p0
      <4>1. i \in 1..n
        BY <2>1, <3>4 DEF n
      <4>2. i <= i0 \/ i = i0 + 1
        BY <1>1, <1>4, <2>4, <4>1
      <4>3. QED
        BY <2>2, <3>4, <4>2 DEF Behind
    <3>5. QED
      BY <3>2, <3>3, <3>4
  <2>5. QED
    BY <2>3, <2>4
<1>8. QED
  BY <1>5, <1>6, <1>7 DEF WalkedTo, next, p0, i0

(* Nothing is behind the start of the walk.                                *)
LEMMA WalkStart ==
  ASSUME NEW e \in Entries
  PROVE  WalkedTo(e, <<0, 0>>) /\ \A ls : AllCleared(ls, e, <<0, 0>>)
<1>1. WalkedTo(e, <<0, 0>>)
  BY DEF WalkedTo
<1>2. \A p \in 0..MAX_PROCESSES : \A i \in DOMAIN e[p] : ~Behind(p, i, <<0, 0>>)
  <2> SUFFICES ASSUME NEW p \in 0..MAX_PROCESSES, NEW i \in DOMAIN e[p]
               PROVE  ~Behind(p, i, <<0, 0>>)
    OBVIOUS
  <2>1. e[p] \in Seq(Nat)
    BY DEF Entries
  <2>2. i >= 1 /\ i \in Nat /\ p >= 0 /\ p \in Int
    BY <2>1, LimitsAssumption
  <2>3. QED
    BY <2>2 DEF Behind
<1>3. QED
  BY <1>1, <1>2, Zenon DEF AllCleared

(* A step of the walk leaves an entry cleared behind it.                   *)
LEMMA WalksStep ==
  ASSUME Tables, Going, Grammar, FixSkips \/ FixSets
  PROVE  WalkedTo(entries', fix') /\ AllCleared(lists', entries', fix')
<1>1. /\ status = "fixing" /\ fix[1] <= MAX_PROCESSES /\ fix' = NextEntry /\ entries' = entries
  BY Zenon DEF FixSkips, FixSets, Walks
<1>2. WalkedTo(entries, fix) /\ AllCleared(lists, entries, fix) /\ entries \in Entries
  BY <1>1 DEF Grammar, Walk, Going, Entries
<1>3. /\ WalkedTo(entries, NextEntry)
      /\ \A p \in 0..MAX_PROCESSES : \A i \in DOMAIN entries[p] :
           Behind(p, i, NextEntry) => Behind(p, i, fix) \/ (p = fix[1] /\ i = fix[2] + 1)
  BY <1>1, <1>2, NextEntryAt
<1>4. ASSUME NEW p \in 0..MAX_PROCESSES, NEW i \in DOMAIN entries[p], Behind(p, i, NextEntry)
      PROVE  Cleared(lists'[entries[p][i]])
  <2> DEFINE m == entries[p][i]
  <2>1. CASE FixSkips
    <3>1. lists' = lists
      BY <2>1 DEF FixSkips
    <3>2. CASE Behind(p, i, fix)
      BY <1>2, <3>1, <3>2 DEF AllCleared
    <3>3. CASE p = fix[1] /\ i = fix[2] + 1
      <4>1. entries[fix[1]] # <<>>
        BY <3>3
      <4>2. Pendings(lists[m]) = {}
        BY <2>1, <3>3, <4>1 DEF FixSkips
      <4>3. Cleared(lists[m])
        BY <4>2, Zenon DEF Pendings, Cleared
      <4>4. QED
        BY <3>1, <4>3
    <3>4. QED
      BY <1>3, <1>4, <3>2, <3>3
  <2>2. CASE FixSets
    <3>1. PICK n \in 1..Len(lists) : \E k \in 1..Len(lists[n]) : \E v \in Int : HasResolved(n, k, v)
      BY <2>2, FixSet, Zenon
    <3>2. PICK k \in 1..Len(lists[n]) : \E v \in Int : HasResolved(n, k, v)
      BY <3>1, Zenon
    <3>9. PICK v \in Int : HasResolved(n, k, v)
      BY <3>2, Zenon
    <3>3. /\ entries[fix[1]] # <<>> /\ n = entries[fix[1]][fix[2] + 1]
          /\ \A y \in Pendings(lists[n]) : k <= y
          /\ lists' \in Seq(Seq(CONDACT)) /\ Len(lists') = Len(lists)
          /\ \A l \in 1..Len(lists) : l # n => lists'[l] = lists[l]
          /\ Len(lists'[n]) = Len(lists[n])
          /\ \A j \in 1..Len(lists[n]) :
               lists'[n][j] = IF j = k THEN Resolved(lists[n][k], v) ELSE lists[n][j]
      BY <3>9, Zenon DEF HasResolved
    <3>4. lists[n] \in Seq(CONDACT) /\ lists'[n] \in Seq(CONDACT)
      BY <3>3, ElementOfSeq, Zenon DEF Tables
    <3>5. m \in 1..Len(lists)
      <4>1. m \in DOMAIN lists /\ lists \in Seq(Seq(CONDACT))
        BY <1>1 DEF Grammar, Sound, Shared, Tables
      <4>2. QED
        BY <4>1
    <3>6. CASE m = n
      <4>1. Resolved(lists[n][k], v).op = SKIP /\ SKIP # PENDINGSKIP
        <5>1. lists[n][k] \in CONDACT
          BY <3>4
        <5>2. QED
          BY <5>1 DEF Resolved, CONDACT, SKIP, PENDINGSKIP
      <4>2. lists'[n][k].op = SKIP
        BY <3>3, <4>1
      <4>3. ASSUME NEW j \in DOMAIN lists'[n], lists'[n][j].op = PENDINGSKIP
            PROVE  \E x \in 1..j - 1 : lists'[n][x].op = SKIP
        <5>1. j \in 1..Len(lists[n]) /\ j # k
          <6>1. j \in 1..Len(lists'[n])
            BY <3>4
          <6>2. QED
            BY <3>3, <4>1, <4>2, <4>3, <6>1
        <5>2. lists[n][j].op = PENDINGSKIP /\ j \in DOMAIN lists[n]
          <6>1. lists'[n][j] = lists[n][j] /\ DOMAIN lists[n] = 1..Len(lists[n])
            <7>1. lists'[n][j] = lists[n][j]
              BY <3>3, <5>1
            <7>2. DOMAIN lists[n] = 1..Len(lists[n])
              BY <3>4
            <7>3. QED
              BY <7>1, <7>2
          <6>2. QED
            BY <4>3, <5>1, <6>1
        <5>3. k <= j
          BY <3>3, <5>2 DEF Pendings
        <5>4. k \in 1..j - 1
          BY <3>4, <5>1, <5>3
        <5>5. QED
          BY <4>2, <5>4
      <4>4. QED
        BY <3>6, <4>3 DEF Cleared
    <3>7. CASE m # n
      <4>1. lists'[m] = lists[m]
        BY <3>3, <3>5, <3>7
      <4>2. ~(p = fix[1] /\ i = fix[2] + 1)
        BY <3>3, <3>7
      <4>3. Cleared(lists[m])
        BY <1>2, <1>3, <1>4, <4>2 DEF AllCleared
      <4>4. QED
        BY <4>1, <4>3
    <3>8. QED
      BY <3>6, <3>7
  <2>3. QED
    BY <2>1, <2>2
<1>5. QED
  BY <1>1, <1>3, <1>4, Zenon DEF AllCleared

(* Grammar holds after every step.                                         *)
LEMMA GrammarStep ==
  ASSUME Tables, Going, Grammar, [Next]_vars
  PROVE  Grammar'
<1>1. Kind
  BY StepKinds
<1>2. CASE status' = "failed"
  BY <1>2 DEF Grammar
<1> SUFFICES ASSUME status' # "failed" PROVE SoundNext /\ Walk'
  BY <1>2, Zenon DEF Grammar, SoundNext
<1>3. entries' \in Entries /\ Going'
  <2>1. Going'
    BY TypedStep
  <2>2. QED
    BY <2>1 DEF Going, Entries
<1>4. ASSUME status = "parsing", status' = "parsing", fix' = fix PROVE Walk'
  <2>1. fix' = <<0, 0>>
    BY <1>4 DEF Grammar, Walk
  <2>2. QED
    BY <1>3, <1>4, <2>1, WalkStart DEF Walk
<1>5. CASE Rests
  <2>1. UNCHANGED <<status, lists, entries, fix>>
    BY <1>5 DEF Rests
  <2>2. Walk'
    BY <2>1, Zenon DEF Grammar, Walk
  <2>3. QED
    BY <1>5, <2>1, <2>2, RestsSound
<1>6. CASE Opens
  <2>1. status = "parsing" /\ status' = "parsing" /\ fix' = fix
    BY <1>6, Zenon DEF Opens
  <2>2. QED
    BY <1>4, <1>6, <2>1, OpensSound
<1>7. CASE AddsPlain \/ AddsText \/ AddsBack \/ AddsForward
  <2>1. status = "parsing" /\ status' = "parsing" /\ fix' = fix
    BY <1>7, Zenon DEF AddsPlain, AddsText, AddsBack, AddsForward, Adds
  <2>2. QED
    BY <1>4, <1>7, <2>1, FilledSound
<1>8. CASE LabelsEnd
  <2>1. status = "parsing" /\ status' = "parsing" /\ fix' = fix
    BY <1>8, Zenon DEF LabelsEnd
  <2>2. QED
    BY <1>4, <1>8, <2>1, LabelsEndSound
<1>9. CASE LabelsNext
  <2>1. status = "parsing" /\ status' = "parsing" /\ fix' = fix
    BY <1>9, Zenon DEF LabelsNext, Between
  <2>2. QED
    BY <1>4, <1>9, <2>1, LabelsNextSound
<1>10. CASE Starts
  <2>1. status = "parsing" /\ status' = "parsing" /\ fix' = fix
    BY <1>10, Zenon DEF Starts, Between
  <2>2. QED
    BY <1>4, <1>10, <2>1, TurnsSound
<1>11. CASE Leaves
  <2>1. status = "parsing" /\ fix' = fix /\ status' \in {"parsing", "fixing"}
    BY <1>11, Zenon DEF Leaves, Between
  <2>2. fix' = <<0, 0>>
    BY <2>1 DEF Grammar, Walk
  <2>3. Walk'
    BY <1>3, <2>1, <2>2, WalkStart DEF Walk
  <2>4. QED
    BY <1>11, <2>3, TurnsSound
<1>12. CASE FixSkips \/ FixSets
  <2>1. status = "fixing" /\ status' = "fixing"
    BY <1>12, Zenon DEF FixSkips, FixSets, Walks
  <2>2. Walk'
    BY <1>12, <2>1, WalksStep DEF Walk
  <2>3. SoundNext
    <3>1. CASE FixSets
      BY <3>1, FixSetsSound
    <3>2. CASE FixSkips
      <4>1. UNCHANGED <<expect, at, lists, entries, labels, places, warned>>
        BY <3>2, Zenon DEF FixSkips, Walks
      <4>2. QED
        BY <2>1, <4>1, Zenon DEF Grammar, SoundNext
    <3>3. QED
      BY <1>12, <3>1, <3>2
  <2>4. QED
    BY <2>2, <2>3
<1>13. CASE Ends
  <2>1. /\ status = "fixing" /\ fix[1] > MAX_PROCESSES /\ status' = "done"
        /\ UNCHANGED <<expect, at, lists, entries, labels, places, warned, fix>>
    BY <1>13, Zenon DEF Ends
  <2>2. SoundNext
    BY <2>1, Zenon DEF Grammar, SoundNext
  <2>3. Walk'
    BY <2>1 DEF Grammar, Walk
  <2>4. QED
    BY <2>2, <2>3
<1>14. QED
  BY <1>1, <1>5, <1>6, <1>7, <1>8, <1>9, <1>10, <1>11, <1>12, <1>13, Zenon DEF Kind, Fails

-----------------------------------------------------------------------------
(* The theorems.                                                           *)

(* All of it holds before the first token.                                 *)
LEMMA IInvInit ==
  ASSUME Init
  PROVE  IInv
<1>1. Tables
  <2>1. IsJob(job)
    BY JobsAssumption DEF Init
  <2>2. QED
    BY <2>1 DEF Init, Tables, IsJob
<1>2. Going
  <2>1. /\ at = Start(0) /\ entries = [p \in 0..MAX_PROCESSES |-> <<>>]
        /\ expect = "process" /\ status = "parsing" /\ warned = FALSE
    BY DEF Init
  <2>2. Start(0) \in AT
    <3>1. 0 \in 0..MAX_PROCESSES
      BY LimitsAssumption
    <3>2. QED
      BY <3>1 DEF Start, AT
  <2>3. entries \in [0..MAX_PROCESSES -> Seq(Nat)]
    BY <2>1
  <2>4. QED
    BY <2>1, <2>2, <2>3 DEF Going
<1>3. at = Start(0) /\ at.entry = 0 /\ at.copies = 0 /\ at.process = 0
  BY DEF Init, Start
<1>4. /\ entries \in Entries /\ \A p \in 0..MAX_PROCESSES : entries[p] = <<>>
      /\ lists = <<>> /\ labels = <<>> /\ expect = "process" /\ warned = FALSE
      /\ status = "parsing" /\ fix = <<0, 0>> /\ 0 \in 0..MAX_PROCESSES
  BY LimitsAssumption DEF Init, Entries
<1>5. Shared(entries, at, FALSE, lists)
  BY <1>3, <1>4 DEF Shared
<1>6. Numbered(labels, places, entries, at, FALSE)
  BY <1>3, <1>4 DEF Numbered
<1>7. AllLead(lists, labels, places, entries, at, FALSE)
  BY <1>4 DEF AllLead
<1>8. FALSE = (expect \in Inside) /\ FALSE = (expect = "behind label")
  BY <1>4 DEF Inside
<1>9. Sound(lists, labels, places, entries, at, expect \in Inside, expect = "behind label", warned)
  <2>1. Sound(lists, labels, places, entries, at, FALSE, FALSE, warned)
    BY <1>5, <1>6, <1>7 DEF Sound
  <2>2. QED
    BY <1>8, <2>1, Zenon
<1>10. Walk
  BY <1>4, WalkStart DEF Walk
<1>11. TextsFound
  BY <1>4 DEF TextsFound
<1>12. QED
  BY <1>1, <1>2, <1>9, <1>10, <1>11 DEF IInv, Grammar

(* And after every step.                                                   *)
LEMMA IInvStep ==
  ASSUME IInv, [Next]_vars
  PROVE  IInv'
<1>1. Tables /\ Going /\ Grammar /\ TextsFound
  BY DEF IInv
<1>2. Tables' /\ Going'
  BY <1>1, TypedStep
<1>3. Grammar'
  BY <1>1, GrammarStep
<1>4. TextsFound'
  BY <1>1, StepKinds, TextsStep
<1>5. QED
  BY <1>2, <1>3, <1>4, Zenon DEF IInv

(* So always.                                                              *)
LEMMA Invariance == Spec => []IInv
<1>1. Init => IInv
  BY IInvInit
<1>2. IInv /\ [Next]_vars => IInv'
  BY IInvStep
<1>3. QED
  BY <1>1, <1>2, PTL DEF Spec

(* A label, once it has a slot and a place, keeps both, whatever is parsed *)
(* and fixed later.                                                        *)
THEOREM LabelsNeverMove == Spec => LabelsStick
<1> DEFINE Stick == \A i \in DOMAIN labels :
                      /\ i \in DOMAIN labels' /\ labels'[i].name = labels[i].name
                      /\ ~labels[i].forward => labels'[i] = labels[i]
<1>1. IInv /\ [Next]_vars => [Stick]_vars
  <2> SUFFICES ASSUME IInv, [Next]_vars PROVE Stick
    OBVIOUS
  <2>1. labels \in Seq(LABEL) /\ labels' \in Seq(LABEL) /\ Keeps(labels, labels')
    BY StepKinds, LabelsKept DEF IInv, Tables
  <2>2. QED
    BY <2>1 DEF Keeps
<1> HIDE DEF Stick
<1>2. Spec => [][Stick]_vars
  BY <1>1, Invariance, PTL DEF Spec
<1>3. QED
  BY <1>2, Zenon DEF LabelsStick, Stick

(* The text an inline text of the source was replaced with is, in whatever *)
(* table it went to and whatever its condact became, the one that was      *)
(* written.                                                                *)
THEOREM InlineTextsReadBack == Spec => []InlineTextsFound
<1>1. IInv => InlineTextsFound
  <2> SUFFICES ASSUME IInv, NEW l \in DOMAIN lists, NEW i \in DOMAIN lists[l],
                      lists[l][i].text # NoText
               PROVE  /\ lists[l][i].value + 1 \in DOMAIN TableOf(lists[l][i].op)
                      /\ Printed(lists[l][i].op, TableOf(lists[l][i].op)[lists[l][i].value + 1])
                           = lists[l][i].text
    BY DEF InlineTextsFound
  <2> DEFINE c == lists[l][i]
  <2>1. /\ c.op \in TextOps /\ c.value + 1 \in DOMAIN msgs[NameOf(c.op)]
        /\ Printed(c.op, msgs[NameOf(c.op)][c.value + 1]) = c.text
    BY DEF IInv, TextsFound, Found
  <2> HIDE DEF c
  <2>2. TableOf(c.op) = msgs[NameOf(c.op)]
    BY <2>1 DEF TextOps, TableOf, NameOf, MES, MESSAGE, SYSMESS, DESC, XMES, XPLAY, XDATA
  <2>3. QED
    BY <2>1, <2>2 DEF c
<1>2. QED
  BY <1>1, Invariance, PTL

(* In a plain source every SKIP that was resolved, back or ahead, leads to *)
(* its label, and one that was not stands behind another.                  *)
THEOREM SkipsArrive == Spec => []SkipsLeadToLabels
<1>1. IInv => SkipsLeadToLabels
  <2> SUFFICES ASSUME IInv, status = "done", Plain,
                      NEW p \in 0..MAX_PROCESSES, NEW i \in DOMAIN entries[p],
                      NEW k \in DOMAIN lists[entries[p][i]]
               PROVE  LET list == lists[entries[p][i]]
                      IN  /\ list[k].label # NoLabel /\ list[k].op = SKIP /\ ~list[k].indirect =>
                               places[list[k].label] = <<p, i + Signed(list[k].value)>>
                          /\ list[k].op = PENDINGSKIP => \E j \in 1..k - 1 : list[j].op = SKIP
    BY Zenon DEF SkipsLeadToLabels
  <2>1. expect = "nothing" /\ entries \in Entries /\ at \in AT /\ Grammar /\ lists \in Lists
    BY DEF IInv, Going, Entries, Tables, Lists
  <2>2. FALSE = (expect \in Inside) /\ FALSE = (expect = "behind label")
    BY <2>1 DEF Inside
  <2>3. Sound(lists, labels, places, entries, at, FALSE, FALSE, warned)
    <3>1. Sound(lists, labels, places, entries, at, expect \in Inside, expect = "behind label",
                warned)
      BY <2>1 DEF Grammar
    <3>2. QED
      BY <2>2, <3>1
  <2>4. at.copies = 0 /\ entries[p][i] \in DOMAIN lists
    BY <2>3 DEF Sound, Shared
  <2>5. Simple(entries, at, warned)
    BY <2>4 DEF Simple, Plain
  <2>6. AllLead(lists, labels, places, entries, at, FALSE)
    BY <2>3, <2>5 DEF Sound
  <2>7. i \in Nat /\ Stands(entries[p][i], p, i, entries, at, FALSE)
    BY <2>1 DEF Stands, Entries
  <2>8. Leads(lists[entries[p][i]][k], p, i, labels, places)
    BY <2>4, <2>6, <2>7, Zenon DEF AllLead
  <2>9. Behind(p, i, fix)
    <3>1. fix[1] > MAX_PROCESSES /\ fix[1] \in Nat
      BY <2>1 DEF Grammar, Walk, WalkedTo
    <3>2. QED
      BY <3>1, LimitsAssumption DEF Behind
  <2>10. Cleared(lists[entries[p][i]])
    BY <2>1, <2>9 DEF Grammar, Walk, AllCleared
  <2>11. QED
    BY <2>8, <2>10, Zenon DEF Leads, Cleared
<1>2. QED
  BY <1>1, Invariance, PTL
=============================================================================
