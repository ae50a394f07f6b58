------------------------------- MODULE Basics -------------------------------
(***************************************************************************)
(* Lemmas the proofs about several components share.  Parts of sequences:  *)
(* what is written at the end of a file is found there, and stays found    *)
(* when more is appended.  Induction over the naturals for a set instead   *)
(* of a predicate, and what it gives: that the recursive functions over    *)
(* the places of a sequence exist, so that the operators defined by them   *)
(* can be reasoned about.                                                  *)
(***************************************************************************)
EXTENDS Integers, Sequences, SequenceTheorems, WellFoundedInduction, TLAPS

(* Concatenation, its length and its elements.                             *)
LEMMA Concat ==
  ASSUME NEW S, NEW s \in Seq(S), NEW t \in Seq(S)
  PROVE  /\ s \o t \in Seq(S)
         /\ Len(s) \in Nat /\ Len(t) \in Nat
         /\ Len(s \o t) = Len(s) + Len(t)
         /\ \A k \in 1..Len(s) : (s \o t)[k] = s[k]
         /\ \A k \in 1..Len(t) : (s \o t)[Len(s) + k] = t[k]
<1>1. /\ s \o t \in Seq(S)
      /\ Len(s \o t) = Len(s) + Len(t)
      /\ \A k \in 1 .. Len(s) + Len(t) : (s \o t)[k] =
            IF k <= Len(s) THEN s[k] ELSE t[k - Len(s)]
  BY ConcatProperties, Zenon
<1>2. Len(s) \in Nat /\ Len(t) \in Nat
  BY LenProperties, Zenon
<1>3. ASSUME NEW k \in 1..Len(s) PROVE (s \o t)[k] = s[k]
  BY <1>1, <1>2
<1>4. ASSUME NEW k \in 1..Len(t) PROVE (s \o t)[Len(s) + k] = t[k]
  <2> DEFINE at == Len(s) + k
  <2>1. at \in 1 .. Len(s) + Len(t) /\ ~(at <= Len(s)) /\ at - Len(s) = k
    BY <1>2
  <2> HIDE DEF at
  <2>2. (s \o t)[at] = t[at - Len(s)]
    BY <1>1, <2>1, Zenon
  <2>3. QED
    BY <2>1, <2>2 DEF at
<1>5. QED
  BY <1>1, <1>2, <1>3, <1>4

(* A part of a sequence: its length and its elements.                      *)
LEMMA Part ==
  ASSUME NEW S, NEW s \in Seq(S), NEW from \in Nat, NEW n \in Nat, from + n <= Len(s)
  PROVE  /\ SubSeq(s, from + 1, from + n) \in Seq(S)
         /\ Len(SubSeq(s, from + 1, from + n)) = n
         /\ \A k \in 1..n : SubSeq(s, from + 1, from + n)[k] = s[from + k]
<1> DEFINE a == from + 1
           b == from + n
<1>1. a \in Int /\ b \in Int /\ Len(s) \in Nat
  BY LenProperties
<1>2. \A k \in a..b : s[k] \in S
  <2> SUFFICES ASSUME NEW k \in a..b PROVE s[k] \in S
    OBVIOUS
  <2>1. k \in 1..Len(s)
    BY <1>1
  <2>2. QED
    BY <2>1, ElementOfSeq
<1>3. (IF a <= b THEN b - a + 1 ELSE 0) = n /\ b - a + 1 = n
  OBVIOUS
<1> HIDE DEF a, b
<1>4. /\ SubSeq(s, a, b) \in Seq(S)
      /\ Len(SubSeq(s, a, b)) = IF a <= b THEN b - a + 1 ELSE 0
      /\ \A k \in 1 .. b - a + 1 : SubSeq(s, a, b)[k] = s[a + k - 1]
  BY <1>1, <1>2, SubSeqProperties, SMT
<1>5. \A k \in 1..n : SubSeq(s, a, b)[k] = s[from + k]
  <2> SUFFICES ASSUME NEW k \in 1..n PROVE SubSeq(s, a, b)[k] = s[from + k]
    OBVIOUS
  <2>1. SubSeq(s, a, b)[k] = s[a + k - 1]
    BY <1>3, <1>4, Zenon
  <2>2. a + k - 1 = from + k
    BY DEF a
  <2>3. QED
    BY <2>1, <2>2
<1>6. Len(SubSeq(s, a, b)) = n
  BY <1>3, <1>4, Zenon
<1>7. QED
  BY <1>4, <1>5, <1>6, Zenon DEF a, b

(* What is found in a sequence is found in whatever it grows to.           *)
LEMMA PartStays ==
  ASSUME NEW S, NEW s \in Seq(S), NEW t \in Seq(S),
         NEW from \in Nat, NEW n \in Nat, from + n <= Len(s)
  PROVE  /\ from + n <= Len(s \o t)
         /\ SubSeq(s \o t, from + 1, from + n) = SubSeq(s, from + 1, from + n)
<1>1. /\ s \o t \in Seq(S) /\ Len(s) \in Nat /\ Len(t) \in Nat
      /\ Len(s \o t) = Len(s) + Len(t)
      /\ \A k \in 1..Len(s) : (s \o t)[k] = s[k]
  BY Concat
<1>2. from + n <= Len(s \o t)
  BY <1>1
<1> DEFINE new == SubSeq(s \o t, from + 1, from + n)
           old == SubSeq(s, from + 1, from + n)
<1>3. /\ new \in Seq(S) /\ Len(new) = n
      /\ \A k \in 1..n : new[k] = (s \o t)[from + k]
  BY <1>1, <1>2, Part
<1>4. /\ old \in Seq(S) /\ Len(old) = n
      /\ \A k \in 1..n : old[k] = s[from + k]
  BY Part
<1>5. \A k \in 1..n : from + k \in 1..Len(s)
  BY <1>1
<1> HIDE DEF new, old
<1>6. \A k \in 1..Len(new) : new[k] = old[k]
  BY <1>1, <1>3, <1>4, <1>5, Zenon
<1>7. new = old
  BY <1>3, <1>4, <1>6, SeqEqual
<1>8. QED
  BY <1>2, <1>7 DEF new, old

(* What is appended is found at the old end.                               *)
LEMMA PartAppended ==
  ASSUME NEW S, NEW s \in Seq(S), NEW t \in Seq(S)
  PROVE  SubSeq(s \o t, Len(s) + 1, Len(s) + Len(t)) = t
<1>1. /\ s \o t \in Seq(S) /\ Len(s) \in Nat /\ Len(t) \in Nat
      /\ Len(s \o t) = Len(s) + Len(t)
      /\ \A k \in 1..Len(t) : (s \o t)[Len(s) + k] = t[k]
  BY Concat
<1> DEFINE new == SubSeq(s \o t, Len(s) + 1, Len(s) + Len(t))
<1>2. /\ new \in Seq(S) /\ Len(new) = Len(t)
      /\ \A k \in 1..Len(t) : new[k] = (s \o t)[Len(s) + k]
  BY <1>1, Part
<1> HIDE DEF new
<1>3. \A k \in 1..Len(new) : new[k] = t[k]
  BY <1>1, <1>2
<1>4. new = t
  BY <1>2, <1>3, SeqEqual
<1>5. QED
  BY <1>4 DEF new

(* A word's two bytes, least significant first, give the value back up to  *)
(* its 16 bits.                                                            *)
LEMMA TwoBytes ==
  ASSUME NEW v \in Nat
  PROVE  /\ (v % 256) \in 0..255
         /\ (v \div 256) % 256 \in 0..255
         /\ (v % 256) + 256 * ((v \div 256) % 256) = v % 65536
<1> DEFINE q == v \div 256
           lo == v % 256
           hi == q % 256
           w == q \div 256
<1>1. q \in Nat /\ lo \in 0..255 /\ v = 256 * q + lo
  OBVIOUS
<1>2. w \in Nat /\ hi \in 0..255 /\ q = 256 * w + hi
  BY <1>1
<1> HIDE DEF q, lo, hi, w
<1> DEFINE r == lo + 256 * hi
<1>3. v = 65536 * w + r /\ r \in Nat /\ r < 65536
  BY <1>1, <1>2, SMT
<1> HIDE DEF r
<1>4. v % 65536 = r
  BY <1>2, <1>3, SMT
<1>5. QED
  BY <1>1, <1>2, <1>4, SMT DEF q, lo, hi, r

(* A place inside page p of pages of s: the page and the place come back.  *)
LEMMA PageAndPlace ==
  ASSUME NEW s \in Nat, NEW p \in Nat, NEW c \in Nat, c < s
  PROVE  /\ c + p * s \in Nat
         /\ (c + p * s) % s = c
         /\ (c + p * s) \div s = p
<1> DEFINE v == c + p * s
           q == v \div s
           r == v % s
<1>1. p * s \in Nat /\ s > 0
  BY SMT
<1>2. v \in Nat /\ s \in Int
  BY <1>1
<1> HIDE DEF v
<1>3. q \in Int /\ r \in Int /\ 0 <= r /\ r < s /\ v = s * q + r
  BY <1>1, <1>2, SMT
<1> HIDE DEF q, r
<1>4. s * q + r = c + p * s
  BY <1>3 DEF v
<1>5. CASE q = p
  <2>1. s * q = p * s
    BY <1>3, <1>5, SMT
  <2>2. r = c
    BY <1>1, <1>3, <1>4, <2>1, SMT
  <2>3. QED
    BY <1>2, <1>5, <2>2 DEF v, q, r
<1>6. CASE q > p
  <2> DEFINE d == q - p - 1
  <2>1. d \in Nat /\ q = p + 1 + d
    BY <1>3, <1>6
  <2> HIDE DEF d
  <2>2. s * q = p * s + s + s * d /\ s * d \in Nat
    BY <2>1, SMT
  <2>3. QED
    BY <1>1, <1>3, <1>4, <2>2, SMT
<1>7. CASE q < p
  <2> DEFINE d == p - q - 1
  <2>1. d \in Nat /\ p = q + 1 + d
    BY <1>3, <1>7
  <2> HIDE DEF d
  <2>2. p * s = s * q + s + s * d /\ s * d \in Nat
    BY <1>3, <2>1, SMT
  <2>3. s * q \in Int
    BY <1>3, SMT
  <2>4. QED
    BY <1>1, <1>3, <1>4, <2>2, <2>3, SMT
<1>8. QED
  BY <1>3, <1>5, <1>6, <1>7

-----------------------------------------------------------------------------
(* A non-empty set of naturals has a least element.                        *)
LEMMA LeastNatural ==
  ASSUME NEW T, T \subseteq Nat, T # {}
  PROVE  \E n \in T : \A m \in T : n <= m
<1>1. PICK n \in T : \A m \in T : ~ (<<m, n>> \in OpToRel(<, Nat))
  BY NatLessThanWellFounded, WFMin
<1>2. \A m \in T : ~ (m < n)
  BY <1>1 DEF OpToRel
<1>3. QED
  BY <1>2

(* A set that has 0 and the successors of its elements has every natural.  *)
LEMMA Induction ==
  ASSUME NEW T, T \subseteq Nat, 0 \in T, \A n \in T : n + 1 \in T
  PROVE  T = Nat
<1> SUFFICES ASSUME Nat \ T # {} PROVE FALSE
  OBVIOUS
<1>1. PICK n \in Nat \ T : \A m \in Nat \ T : n <= m
  BY LeastNatural
<1>2. n - 1 \in T /\ n # 0
  BY <1>1
<1>3. QED
  BY <1>1, <1>2

(* A function over 1..n+1 whose value at a place comes from the next one.  *)
IsBackward(f, n, S, last, step) ==
  /\ f \in [1 .. n + 1 -> S]
  /\ f[n + 1] = last
  /\ \A i \in 1..n : f[i] = step[<<i, f[i + 1]>>]

(* There is one, whatever the last value and the step.                     *)
LEMMA BackwardRecursion ==
  ASSUME NEW n, n \in Nat, NEW S, NEW last, last \in S,
         NEW step, step \in [(1..n) \X S -> S]
  PROVE  \E f : IsBackward(f, n, S, last, step)
<1> DEFINE Good(m, f) == /\ f[n + 1] = last
                         /\ \A i \in n + 1 - m .. n : f[i] = step[<<i, f[i + 1]>>]
           T == {m \in Nat : m <= n => \E f \in [1 .. n + 1 -> S] : Good(m, f)}
<1>1. 0 \in T
  <2> DEFINE f == [i \in 1 .. n + 1 |-> last]
  <2>1. f \in [1 .. n + 1 -> S] /\ f[n + 1] = last
    OBVIOUS
  <2>2. n + 1 - 0 .. n = {}
    OBVIOUS
  <2>3. QED
    BY <2>1, <2>2
<1>2. ASSUME NEW m \in T PROVE m + 1 \in T
  <2> SUFFICES ASSUME m + 1 <= n
               PROVE  \E f \in [1 .. n + 1 -> S] : Good(m + 1, f)
    BY <1>2
  <2>1. m \in Nat /\ m <= n
    BY <1>2
  <2>2. PICK g \in [1 .. n + 1 -> S] : Good(m, g)
    BY <1>2, <2>1
  <2> DEFINE k == n - m
  <2>3. k \in 1..n /\ k + 1 \in 1 .. n + 1 /\ k \in 1 .. n + 1
    BY <2>1
  <2>4. step[<<k, g[k + 1]>>] \in S
    BY <2>2, <2>3
  <2> DEFINE f == [g EXCEPT ![k] = step[<<k, g[k + 1]>>]]
  <2>5. /\ f \in [1 .. n + 1 -> S]
        /\ f[k] = step[<<k, g[k + 1]>>]
        /\ \A i \in 1 .. n + 1 : i # k => f[i] = g[i]
    BY <2>2, <2>3, <2>4
  <2> HIDE DEF f
  <2>6. f[n + 1] = last
    BY <2>1, <2>2, <2>5
  <2>7. ASSUME NEW i \in n + 1 - (m + 1) .. n
        PROVE  f[i] = step[<<i, f[i + 1]>>]
    <3>1. i \in 1 .. n + 1 /\ i + 1 \in 1 .. n + 1 /\ i + 1 # k /\ i \in Int
      BY <2>1
    <3>2. f[i + 1] = g[i + 1]
      BY <2>5, <3>1
    <3>3. CASE i = k
      BY <2>5, <3>2, <3>3
    <3>4. CASE i # k
      <4>1. i \in n + 1 - m .. n
        BY <2>1, <3>1, <3>4
      <4>2. g[i] = step[<<i, g[i + 1]>>]
        BY <2>2, <4>1
      <4>3. f[i] = g[i]
        BY <2>5, <3>1, <3>4
      <4>4. QED
        BY <3>2, <4>2, <4>3
    <3>5. QED
      BY <3>3, <3>4
  <2>8. QED
    BY <2>5, <2>6, <2>7
<1>3. T = Nat
  <2> HIDE DEF Good
  <2>1. T \subseteq Nat
    OBVIOUS
  <2> HIDE DEF T
  <2>2. QED
    BY <1>1, <1>2, <2>1, Induction
<1>4. PICK f \in [1 .. n + 1 -> S] : Good(n, f)
  <2>1. n \in T
    BY <1>3
  <2>2. QED
    BY <2>1
<1>5. \A i \in 1..n : i \in n + 1 - n .. n
  OBVIOUS
<1>6. QED
  BY <1>4, <1>5 DEF IsBackward

(* The same from the first place on.                                       *)
IsForward(f, n, S, first, step) ==
  /\ f \in [1 .. n + 1 -> S]
  /\ f[1] = first
  /\ \A i \in 1..n : f[i + 1] = step[<<i, f[i]>>]

(* It is the backward one read from the other end.                         *)
LEMMA ForwardRecursion ==
  ASSUME NEW n, n \in Nat, NEW S, NEW first, first \in S,
         NEW step, step \in [(1..n) \X S -> S]
  PROVE  \E f : IsForward(f, n, S, first, step)
<1> DEFINE back == [x \in (1..n) \X S |-> step[<<n + 1 - x[1], x[2]>>]]
<1>1. back \in [(1..n) \X S -> S]
  <2> SUFFICES ASSUME NEW x \in (1..n) \X S
               PROVE  step[<<n + 1 - x[1], x[2]>>] \in S
    OBVIOUS
  <2>1. n + 1 - x[1] \in 1..n /\ x[2] \in S
    OBVIOUS
  <2>2. QED
    BY <2>1
<1>2. \A i \in 1..n : \A v \in S : back[<<i, v>>] = step[<<n + 1 - i, v>>]
  OBVIOUS
<1> HIDE DEF back
<1>3. PICK g : IsBackward(g, n, S, first, back)
  BY <1>1, BackwardRecursion, Zenon
<1>4. /\ g \in [1 .. n + 1 -> S]
      /\ g[n + 1] = first
      /\ \A i \in 1..n : g[i] = back[<<i, g[i + 1]>>]
  BY <1>3 DEF IsBackward
<1> DEFINE f == [i \in 1 .. n + 1 |-> g[n + 2 - i]]
<1>5. f \in [1 .. n + 1 -> S] /\ \A i \in 1 .. n + 1 : f[i] = g[n + 2 - i]
  BY <1>4
<1> HIDE DEF f
<1>6. f[1] = first
  <2>1. 1 \in 1 .. n + 1 /\ n + 2 - 1 = n + 1
    OBVIOUS
  <2>2. QED
    BY <1>4, <1>5, <2>1
<1>7. ASSUME NEW i \in 1..n PROVE f[i + 1] = step[<<i, f[i]>>]
  <2> DEFINE j == n + 1 - i
  <2>1. /\ j \in 1..n /\ n + 1 - j = i /\ j + 1 = n + 2 - i /\ j = n + 2 - (i + 1)
        /\ i \in 1 .. n + 1 /\ i + 1 \in 1 .. n + 1 /\ j + 1 \in 1 .. n + 1
    OBVIOUS
  <2> HIDE DEF j
  <2>2. f[i + 1] = g[j] /\ f[i] = g[j + 1] /\ g[j + 1] \in S
    BY <1>4, <1>5, <2>1
  <2>3. g[j] = back[<<j, g[j + 1]>>]
    BY <1>4, <2>1
  <2>4. back[<<j, g[j + 1]>>] = step[<<i, g[j + 1]>>]
    BY <1>2, <2>1, <2>2
  <2>5. QED
    BY <2>2, <2>3, <2>4
<1>8. QED
  BY <1>5, <1>6, <1>7 DEF IsForward

(* A sequence is one of its elements; one of them replaced makes another.  *)
LEMMA Replaced ==
  ASSUME NEW S, NEW s \in Seq(S), NEW i \in 1..Len(s), NEW v \in S
  PROVE  /\ [s EXCEPT ![i] = v] \in Seq(S)
         /\ Len([s EXCEPT ![i] = v]) = Len(s)
         /\ \A k \in 1..Len(s) : [s EXCEPT ![i] = v][k] = IF k = i THEN v ELSE s[k]
OBVIOUS

(* A sequence over a set is one over any larger set.                       *)
LEMMA SeqOfMore ==
  ASSUME NEW S, NEW T, S \subseteq T, NEW s \in Seq(S)
  PROVE  s \in Seq(T)
OBVIOUS

(* An element of a sequence replaced by another sequence.                  *)
SplicedIn(s, c, t) == SubSeq(s, 1, c - 1) \o t \o SubSeq(s, c + 1, Len(s))

(* What stands where after an element is replaced by a sequence.           *)
LEMMA Spliced ==
  ASSUME NEW S, NEW s \in Seq(S), NEW t \in Seq(S), NEW c \in 1..Len(s)
  PROVE  /\ SplicedIn(s, c, t) \in Seq(S)
         /\ Len(SplicedIn(s, c, t)) = Len(s) + Len(t) - 1
         /\ \A k \in 1 .. c - 1 : SplicedIn(s, c, t)[k] = s[k]
         /\ \A k \in 1..Len(t) : SplicedIn(s, c, t)[c - 1 + k] = t[k]
         /\ \A k \in c + 1 .. Len(s) : SplicedIn(s, c, t)[k - 1 + Len(t)] = s[k]
<1> DEFINE r == SplicedIn(s, c, t)
<1> DEFINE a == SubSeq(s, 1, c - 1)
           b == SubSeq(s, c + 1, Len(s))
<1>1. Len(s) \in Nat /\ Len(t) \in Nat /\ c \in Nat
  BY LenProperties
<1>2. a \in Seq(S) /\ Len(a) = c - 1 /\ \A k \in 1 .. c - 1 : a[k] = s[k]
  <2> DEFINE n == c - 1
  <2>1. n \in Nat /\ 0 + n <= Len(s) /\ 0 \in Nat /\ a = SubSeq(s, 0 + 1, 0 + n)
    BY <1>1
  <2> HIDE DEF n, a
  <2>2. /\ a \in Seq(S) /\ Len(a) = n
        /\ \A k \in 1..n : a[k] = s[0 + k]
    BY <2>1, Part
  <2>3. \A k \in 1..n : 0 + k = k
    BY <2>1
  <2>4. QED
    BY <2>2, <2>3 DEF n
<1>3. /\ b \in Seq(S) /\ Len(b) = Len(s) - c
      /\ \A k \in 1 .. Len(s) - c : b[k] = s[c + k]
  <2> DEFINE n == Len(s) - c
  <2>1. n \in Nat /\ c + n <= Len(s) /\ b = SubSeq(s, c + 1, c + n)
    BY <1>1
  <2> HIDE DEF n, b
  <2>2. /\ b \in Seq(S) /\ Len(b) = n
        /\ \A k \in 1..n : b[k] = s[c + k]
    BY <1>1, <2>1, Part
  <2>3. QED
    BY <2>2 DEF n
<1> HIDE DEF a, b
<1>4. /\ a \o t \in Seq(S) /\ Len(a \o t) = c - 1 + Len(t)
      /\ \A k \in 1 .. c - 1 : (a \o t)[k] = a[k]
      /\ \A k \in 1..Len(t) : (a \o t)[c - 1 + k] = t[k]
  <2>1. /\ a \o t \in Seq(S) /\ Len(a \o t) = Len(a) + Len(t)
        /\ \A k \in 1..Len(a) : (a \o t)[k] = a[k]
        /\ \A k \in 1..Len(t) : (a \o t)[Len(a) + k] = t[k]
    <3>1. a \in Seq(S)
      BY <1>2
    <3>2. QED
      BY <3>1, Concat
  <2>2. QED
    BY <1>2, <2>1
<1> DEFINE h == a \o t
<1>5. r = h \o b
  BY DEF SplicedIn, h, a, b
<1>6. h \in Seq(S) /\ Len(h) = c - 1 + Len(t)
  BY <1>4
<1> HIDE DEF h, r
<1>7. /\ r \in Seq(S) /\ Len(r) = Len(h) + Len(b)
      /\ \A k \in 1..Len(h) : r[k] = h[k]
      /\ \A k \in 1..Len(b) : r[Len(h) + k] = b[k]
  <2>1. b \in Seq(S) /\ h \in Seq(S)
    BY <1>3, <1>6
  <2>2. /\ h \o b \in Seq(S) /\ Len(h \o b) = Len(h) + Len(b)
        /\ \A k \in 1..Len(h) : (h \o b)[k] = h[k]
        /\ \A k \in 1..Len(b) : (h \o b)[Len(h) + k] = b[k]
    BY <2>1, Concat
  <2>3. QED
    BY <1>5, <2>2, Zenon
<1>8. Len(r) = Len(s) + Len(t) - 1
  <2>1. /\ Len(r) = Len(h) + Len(b) /\ Len(b) = Len(s) - c
        /\ Len(h) = c - 1 + Len(t)
    BY <1>3, <1>6, <1>7
  <2>2. QED
    BY ONLY <1>1, <2>1
<1>9. ASSUME NEW k \in 1 .. c - 1 PROVE r[k] = s[k]
  <2>1. k \in 1..Len(h)
    BY <1>1, <1>6
  <2>2. QED
    BY <1>2, <1>4, <1>7, <2>1 DEF h
<1>10. ASSUME NEW k \in 1..Len(t) PROVE r[c - 1 + k] = t[k]
  <2>1. c - 1 + k \in 1..Len(h)
    BY <1>1, <1>6
  <2>2. QED
    BY <1>4, <1>7, <2>1 DEF h
<1>11. ASSUME NEW k \in c + 1 .. Len(s) PROVE r[k - 1 + Len(t)] = s[k]
  <2> DEFINE j == k - c
  <2>1. j \in 1..Len(b) /\ j \in 1 .. Len(s) - c /\ Len(h) + j = k - 1 + Len(t) /\ c + j = k
    BY <1>1, <1>3, <1>6
  <2> HIDE DEF j
  <2>2. r[Len(h) + j] = b[j] /\ b[j] = s[c + j]
    BY <1>3, <1>7, <2>1
  <2>3. QED
    BY <2>1, <2>2
<1>12. QED
  BY <1>7, <1>8, <1>9, <1>10, <1>11 DEF r

=============================================================================
