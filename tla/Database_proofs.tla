--------------------------- MODULE Database_proofs ---------------------------
(***************************************************************************)
(* Proofs about the symbols of a source and about the file made from it.   *)
(*                                                                         *)
(* The table of the symbols: however keys collide and however often it     *)
(* grows, a search ends at the entry of its key, or at a free bucket,      *)
(* which there always is (SymbolsAreFound).                                *)
(*                                                                         *)
(* The file: what stands in it stays where it is while the driver writes   *)
(* on, every header word noted leads to what its emitter wrote, and        *)
(* patching changes nothing behind the header; so a reader finds           *)
(* everything from there (FilesReadBack).                                  *)
(***************************************************************************)
EXTENDS Database, Basics, FiniteSetTheorems

(* The hash of a sequence of bytes is a number: hash_key returns an        *)
(* unsigned integer.                                                       *)
HashesAreNumbers == \A key \in Keys : Hash(key) \in Nat

-----------------------------------------------------------------------------
(* Probing.                                                                *)

(* Counting on from any number, modulo n, meets every bucket.              *)
LEMMA MeetsAll ==
  ASSUME NEW n \in Nat \ {0}, NEW h \in Nat, NEW b \in 0..n - 1
  PROVE  \E d \in 0..n - 1 : (h + d) % n = b
<1> DEFINE q == h \div n
           r == h % n
<1>1. q \in Nat /\ r \in 0..n - 1 /\ h = r + q * n
  OBVIOUS
<1> HIDE DEF q, r
<1>2. CASE b >= r
  <2>1. b - r \in 0..n - 1 /\ h + (b - r) = b + q * n
    BY <1>1, <1>2
  <2>2. (b + q * n) % n = b
    BY <1>1, PageAndPlace
  <2>3. QED
    BY <2>1, <2>2
<1>3. CASE b < r
  <2>1. b - r + n \in 0..n - 1 /\ h + (b - r + n) = b + (q + 1) * n
    BY <1>1, <1>3
  <2>2. q + 1 \in Nat
    BY <1>1
  <2>3. (b + (q + 1) * n) % n = b
    BY <2>2, PageAndPlace
  <2>4. QED
    BY <2>1, <2>3
<1>4. QED
  BY <1>1, <1>2, <1>3

(* A search ends at the first of its stops.                                *)
LEMMA ProbeStops ==
  ASSUME NEW n \in Nat \ {0}, NEW key, Hash(key) \in Nat,
         NEW stops, stops \subseteq 0..n - 1, stops # {}
  PROVE  \E d \in 0..n - 1 :
           /\ Probe(n, key, stops) = (Hash(key) + d) % n
           /\ Probe(n, key, stops) \in stops
           /\ \A e0 \in 0..d - 1 : (Hash(key) + e0) % n \notin stops
<1> DEFINE h == Hash(key)
           Met(d) == (h + d) % n
           T == {d \in 0..n - 1 : Met(d) \in stops}
<1>1. h \in Nat
  OBVIOUS
<1> HIDE DEF h
<1>2. T # {}
  <2>1. PICK b : b \in stops
    OBVIOUS
  <2>2. \E d \in 0..n - 1 : (h + d) % n = b
    BY <1>1, <2>1, MeetsAll
  <2>3. QED
    BY <2>1, <2>2
<1>3. PICK least \in T : \A m \in T : least <= m
  <2>1. T \subseteq Nat
    OBVIOUS
  <2> HIDE DEF T
  <2>2. QED
    BY <1>2, <2>1, LeastNatural
<1>4. least \in 0..n - 1 /\ Met(least) \in stops /\ \A e0 \in 0..least - 1 : Met(e0) \notin stops
  <2>1. least \in 0..n - 1 /\ Met(least) \in stops
    OBVIOUS
  <2>2. ASSUME NEW e0 \in 0..least - 1, Met(e0) \in stops PROVE FALSE
    <3>1. e0 \in T /\ e0 < least
      BY <2>1, <2>2
    <3>2. QED
      BY <1>3, <2>1, <3>1
  <2>3. QED
    BY <2>1, <2>2
<1> DEFINE First(d) == Met(d) \in stops /\ \A e0 \in 0..d - 1 : Met(e0) \notin stops
           found == CHOOSE d \in 0..n - 1 : First(d)
<1>5. found \in 0..n - 1 /\ First(found)
  <2>1. \E d \in 0..n - 1 : First(d)
    BY <1>4
  <2> HIDE DEF First
  <2>2. QED
    BY <2>1, Zenon
<1>6. Probe(n, key, stops) = Met(found)
  BY Zenon DEF Probe, h
<1> HIDE DEF found
<1>7. QED
  BY <1>5, <1>6 DEF h

-----------------------------------------------------------------------------
(* Buckets.                                                                *)

(* As long as there are more buckets than entries one is free.             *)
LEMMA OneIsFree ==
  ASSUME NEW n \in Nat, NEW k \in Nat, k < n, NEW entries0, NEW buckets,
         Holds(entries0, buckets, n, k)
  PROVE  Free(buckets) # {} /\ Free(buckets) \subseteq 0..n - 1
<1>1. /\ buckets \in [0..n - 1 -> 0..k]
      /\ \A a, b \in 0..n - 1 : buckets[a] # 0 /\ buckets[a] = buckets[b] => a = b
  BY DEF Holds
<1>2. DOMAIN buckets = 0..n - 1
  BY <1>1
<1>3. ASSUME Free(buckets) = {} PROVE FALSE
  <2>1. ASSUME NEW b \in 0..n - 1 PROVE buckets[b] \in 1..k
    <3>1. buckets[b] \in 0..k
      BY <1>1
    <3>2. buckets[b] # 0
      BY <1>2, <1>3, <2>1 DEF Free
    <3>3. QED
      BY <3>1, <3>2
  <2>2. buckets \in [0..n - 1 -> 1..k]
    BY <1>1, <2>1
  <2>3. IsFiniteSet(0..n - 1) /\ Cardinality(0..n - 1) = n
    <3>1. 0 \in Int /\ n - 1 \in Int /\ ~(0 > n - 1) /\ n - 1 - 0 + 1 = n
      OBVIOUS
    <3>2. QED
      BY <3>1, FS_Interval
  <2>4. IsFiniteSet(1..k) /\ Cardinality(1..k) = k
    <3>1. 1 \in Int /\ k \in Int /\ (IF 1 > k THEN 0 ELSE k - 1 + 1) = k
      OBVIOUS
    <3>2. QED
      BY <3>1, FS_Interval
  <2>5. \E a, b \in 0..n - 1 : a # b /\ buckets[a] = buckets[b]
    BY <2>2, <2>3, <2>4, FS_PigeonHole
  <2>6. QED
    BY <1>1, <2>1, <2>5
<1>4. QED
  BY <1>2, <1>3 DEF Free

(* An entry put where its search ends: each one before it is still met.    *)
LEMMA SeatedHolds ==
  ASSUME NEW n \in Nat, NEW k \in Nat, k < n, NEW entries0, NEW buckets,
         Holds(entries0, buckets, n, k), Hash(entries0[k + 1].key) \in Nat,
         \A i \in 1..k : Hash(entries0[i].key) \in Nat
  PROVE  Holds(entries0, Seated(buckets, n, entries0[k + 1].key, k + 1), n, k + 1)
<1> DEFINE key == entries0[k + 1].key
           b == Probe(n, key, Free(buckets))
           after == [buckets EXCEPT ![b] = k + 1]
<1>1. /\ buckets \in [0..n - 1 -> 0..k]
      /\ \A x, y \in 0..n - 1 : buckets[x] # 0 /\ buckets[x] = buckets[y] => x = y
      /\ \A i \in 1..k : Reaches(buckets, n, entries0[i].key, i)
  BY DEF Holds
<1>2. Free(buckets) # {} /\ Free(buckets) \subseteq 0..n - 1
  BY OneIsFree
<1>3. n \in Nat \ {0} /\ Hash(key) \in Nat
  OBVIOUS
<1> HIDE DEF key
<1>4. PICK d \in 0..n - 1 :
        /\ b = (Hash(key) + d) % n
        /\ b \in Free(buckets)
        /\ \A e0 \in 0..d - 1 : (Hash(key) + e0) % n \notin Free(buckets)
  BY <1>2, <1>3, ProbeStops
<1> HIDE DEF b
<1>5. /\ b \in 0..n - 1 /\ buckets[b] = 0
      /\ \A x \in 0..n - 1 : after[x] = IF x = b THEN k + 1 ELSE buckets[x]
  BY <1>1, <1>2, <1>4 DEF Free
<1>6. after \in [0..n - 1 -> 0..k + 1]
  <2>1. \A x \in 0..n - 1 : buckets[x] \in 0..k + 1
    BY <1>1
  <2>2. QED
    BY <1>1, <1>5, <2>1
<1>7. DOMAIN buckets = 0..n - 1 /\ \A x \in 0..n - 1 : buckets[x] \in 0..k
  BY <1>1
<1> HIDE DEF after
<1>8. ASSUME NEW x \in 0..n - 1, NEW y \in 0..n - 1, after[x] # 0, after[x] = after[y]
      PROVE  x = y
  <2>1. CASE x = b
    <3>1. after[x] = k + 1 /\ buckets[y] # k + 1
      BY <1>5, <1>7, <2>1
    <3>2. QED
      BY <1>5, <1>8, <2>1, <3>1
  <2>2. CASE x # b
    <3>1. after[x] = buckets[x] /\ after[x] # k + 1
      BY <1>5, <1>7, <2>2
    <3>2. y # b /\ after[y] = buckets[y]
      BY <1>5, <1>8, <3>1
    <3>3. QED
      BY <1>1, <1>8, <3>1, <3>2
  <2>3. QED
    BY <2>1, <2>2
<1>9. \A g \in Nat : g % n \in 0..n - 1
  BY <1>3
<1>10. ASSUME NEW i \in 1..k PROVE Reaches(after, n, entries0[i].key, i)
  <2> DEFINE h == Hash(entries0[i].key)
  <2>1. h \in Nat
    OBVIOUS
  <2>2. PICK x \in 0..n - 1 :
          buckets[(h + x) % n] = i /\ \A y \in 0..x - 1 : buckets[(h + y) % n] # 0
    BY <1>1 DEF Reaches
  <2> HIDE DEF h
  <2>3. after[(h + x) % n] = i
    <3>1. (h + x) % n \in 0..n - 1
      <4>1. h + x \in Nat
        BY <2>1
      <4>2. QED
        BY <1>9, <4>1
    <3>2. (h + x) % n # b
      BY <1>5, <2>2
    <3>3. QED
      BY <1>5, <2>2, <3>1, <3>2
  <2>4. ASSUME NEW y \in 0..x - 1 PROVE after[(h + y) % n] # 0
    <3>1. (h + y) % n \in 0..n - 1
      <4>1. h + y \in Nat
        BY <2>1, <2>4
      <4>2. QED
        BY <1>9, <4>1
    <3>2. buckets[(h + y) % n] # 0
      BY <2>2
    <3>3. QED
      BY <1>5, <3>1, <3>2
  <2>5. QED
    BY <2>3, <2>4 DEF Reaches, h
<1>11. Reaches(after, n, key, k + 1)
  <2>1. after[(Hash(key) + d) % n] = k + 1
    BY <1>4, <1>5
  <2>2. ASSUME NEW e0 \in 0..d - 1 PROVE after[(Hash(key) + e0) % n] # 0
    <3>1. (Hash(key) + e0) % n \in 0..n - 1
      BY <1>3, <1>9
    <3>2. (Hash(key) + e0) % n \notin Free(buckets)
      BY <1>4
    <3>3. QED
      BY <1>5, <1>7, <3>1, <3>2 DEF Free
  <2>3. QED
    BY <2>1, <2>2 DEF Reaches
<1>12. \A i \in 1..k + 1 : Reaches(after, n, entries0[i].key, i)
  BY <1>10, <1>11 DEF key
<1>13. Holds(entries0, after, n, k + 1)
  BY <1>6, <1>8, <1>12 DEF Holds
<1>14. QED
  BY <1>13, Zenon DEF Seated, after, b, key

-----------------------------------------------------------------------------
(* The map.                                                                *)

(* Sequences hold their elements, and an appended one.                     *)
LEMMA Appended ==
  ASSUME NEW list, list \in Seq(ToSet(list)), NEW x
  PROVE  /\ Append(list, x) \in Seq(ToSet(Append(list, x)))
         /\ Len(list) \in Nat /\ DOMAIN list = 1..Len(list)
         /\ Len(Append(list, x)) = Len(list) + 1
         /\ \A i \in 1..Len(list) : Append(list, x)[i] = list[i]
         /\ Append(list, x)[Len(list) + 1] = x
<1> DEFINE S == ToSet(list) \cup {x}
           new == Append(list, x)
<1>1. list \in Seq(S) /\ x \in S
  BY SeqOfMore
<1>2. Len(list) \in Nat /\ DOMAIN list = 1..Len(list)
  BY LenProperties
<1> HIDE DEF S
<1>3. /\ new \in Seq(S) /\ Len(new) = Len(list) + 1
      /\ \A i \in 1..Len(list) : new[i] = list[i]
      /\ new[Len(list) + 1] = x
  BY <1>1, <1>2
<1> HIDE DEF new
<1>4. new \in Seq(ToSet(new))
  <2>1. DOMAIN new = 1..Len(new) /\ Len(new) \in Nat
    BY <1>3, LenProperties
  <2>2. \A i \in 1..Len(new) : new[i] \in ToSet(new)
    BY <2>1 DEF ToSet
  <2>3. new = [i \in 1..Len(new) |-> new[i]]
    BY <1>3
  <2>4. QED
    BY <2>1, <2>2, <2>3
<1>5. QED
  BY <1>2, <1>3, <1>4 DEF new

(* A search for a key ends at its entry, or free when there is none.       *)
LEMMA MapFinds ==
  ASSUME HashesAreNumbers, NEW m, IsMap(m), NEW key \in Keys
  PROVE  /\ \A i \in 1..Len(m.entries) : m.entries[i].key = key => m.buckets[Slot(m, key)] = i
         /\ Has(m, key) <=> \E i \in 1..Len(m.entries) : m.entries[i].key = key
<1> DEFINE n == Buckets(m)
           k == Len(m.entries)
           buckets == m.buckets
           stops == {b \in DOMAIN buckets : buckets[b] = 0 \/ m.entries[buckets[b]].key = key}
           slot == Slot(m, key)
<1>1. /\ \A i, j \in 1..k : m.entries[i].key = m.entries[j].key => i = j
      /\ n \in Nat /\ n > 2 /\ (k + 1) * 10 <= n * 7
      /\ Holds(m.entries, buckets, n, k)
      /\ m.entries \in Seq(ToSet(m.entries))
  BY Zenon DEF IsMap
<1>2. k \in Nat /\ k < n /\ n \in Nat \ {0}
  BY <1>1, LenProperties
<1>3. /\ buckets \in [0..n - 1 -> 0..k]
      /\ \A i \in 1..k : Reaches(buckets, n, m.entries[i].key, i)
  BY <1>1 DEF Holds
<1>4. Free(buckets) # {} /\ Free(buckets) \subseteq 0..n - 1
  BY <1>1, <1>2, OneIsFree
<1>5. slot = Probe(n, key, stops)
  BY Zenon DEF Slot
<1> HIDE DEF slot, n, k, buckets
<1>6. stops \subseteq 0..n - 1 /\ stops # {}
  BY <1>3, <1>4 DEF Free
<1>7. Hash(key) \in Nat
  BY DEF HashesAreNumbers
<1>8. PICK d \in 0..n - 1 :
        /\ slot = (Hash(key) + d) % n
        /\ slot \in stops
        /\ \A f \in 0..d - 1 : (Hash(key) + f) % n \notin stops
  <2> HIDE DEF stops
  <2>1. \E d \in 0..n - 1 :
          /\ Probe(n, key, stops) = (Hash(key) + d) % n
          /\ Probe(n, key, stops) \in stops
          /\ \A f \in 0..d - 1 : (Hash(key) + f) % n \notin stops
    BY <1>2, <1>6, <1>7, ProbeStops
  <2>2. QED
    BY <1>5, <2>1
<1>9. ASSUME NEW i \in 1..k, m.entries[i].key = key PROVE buckets[slot] = i
  <2>1. PICK x \in 0..n - 1 :
          /\ buckets[(Hash(key) + x) % n] = i
          /\ \A y \in 0..x - 1 : buckets[(Hash(key) + y) % n] # 0
    BY <1>3, <1>9 DEF Reaches
  <2>2. CASE d < x
    <3>1. buckets[slot] # 0
      BY <1>8, <2>1, <2>2
    <3>2. buckets[slot] \in 1..k /\ m.entries[buckets[slot]].key = key
      BY <1>2, <1>3, <1>8, <3>1
    <3>3. QED
      BY <1>1, <1>9, <3>2 DEF k
  <2>3. CASE d > x
    <3>1. (Hash(key) + x) % n \in 0..n - 1
      <4>1. Hash(key) + x \in Nat
        BY <1>7
      <4> HIDE DEF stops
      <4>2. QED
        BY <1>2, <4>1
    <3>2. (Hash(key) + x) % n \in stops
      BY <1>3, <1>9, <2>1, <3>1
    <3>3. x \in 0..d - 1
      BY <2>3
    <3>4. QED
      BY <1>8, <3>2, <3>3
  <2>4. CASE d = x
    BY <1>8, <2>1, <2>4
  <2>5. QED
    BY <2>2, <2>3, <2>4
<1>10. buckets[slot] # 0 => \E i \in 1..k : m.entries[i].key = key
  <2>1. buckets[slot] \in 0..k
    BY <1>3, <1>8
  <2>2. QED
    BY <1>2, <1>8, <2>1
<1>11. Has(m, key) <=> buckets[slot] # 0
  BY Zenon DEF Has, buckets, slot
<1>12. (\E i \in 1..k : m.entries[i].key = key) => buckets[slot] # 0
  BY <1>2, <1>9
<1>13. QED
  BY <1>9, <1>10, <1>11, <1>12, Zenon DEF slot, buckets, k

(* The value of a key is that of its entry.                                *)
LEMMA GetsValue ==
  ASSUME HashesAreNumbers, NEW m, IsMap(m), NEW i \in 1..Len(m.entries)
  PROVE  /\ Has(m, m.entries[i].key) /\ Get(m, m.entries[i].key) = m.entries[i].val
         /\ m.buckets[Slot(m, m.entries[i].key)] = i
<1> DEFINE key == m.entries[i].key
<1>1. key \in Keys
  BY Zenon DEF IsMap
<1>2. m.entries[i].key = key
  OBVIOUS
<1> HIDE DEF key
<1>3. m.buckets[Slot(m, key)] = i /\ Has(m, key)
  BY <1>1, <1>2, MapFinds
<1>4. QED
  BY <1>3 DEF Get, key

(* The buckets of a rehash, entry by entry.                                *)
LEMMA RehashSteps ==
  ASSUME NEW list, Len(list) \in Nat, NEW n
  PROVE  /\ BucketsBefore(list, n)[1] = Empty(n)
         /\ \A i \in 1..Len(list) :
              BucketsBefore(list, n)[i + 1] = Seated(BucketsBefore(list, n)[i], n, list[i].key, i)
<1> DEFINE Turn(i, v) == Seated(v, n, list[i].key, i)
           Good(f, m) == f = [i \in 1 .. m + 1 |-> IF i = 1 THEN Empty(n)
                                                    ELSE Turn(i - 1, f[i - 1])]
           T == {m \in Nat : \E f : Good(f, m)}
           g == BucketsBefore(list, n)
           last == Len(list)
<1>1. last \in Nat
  OBVIOUS
<1>2. T = Nat
  <2>1. 0 \in T
    <3> DEFINE f == [i \in 1..1 |-> Empty(n)]
    <3>1. Good(f, 0)
      <4> HIDE DEF Turn
      <4>1. QED
        OBVIOUS
    <3>2. QED
      BY <3>1
  <2>2. ASSUME NEW m \in T PROVE m + 1 \in T
    <3>1. m \in Nat
      OBVIOUS
    <3>2. PICK f : Good(f, m)
      OBVIOUS
    <3> DEFINE h == [i \in 1 .. m + 2 |-> IF i = m + 2 THEN Turn(m + 1, f[m + 1]) ELSE f[i]]
    <3>3. Good(h, m + 1)
      <4> HIDE DEF Turn
      <4>1. \A i \in 1 .. m + 1 : f[i] = IF i = 1 THEN Empty(n) ELSE Turn(i - 1, f[i - 1])
        BY <3>2, Zenon
      <4>2. ASSUME NEW i \in 1 .. m + 2
            PROVE  h[i] = IF i = 1 THEN Empty(n) ELSE Turn(i - 1, h[i - 1])
        <5>1. CASE i = m + 2
          <6>1. i # 1 /\ i - 1 = m + 1 /\ h[i] = Turn(m + 1, f[m + 1]) /\ h[m + 1] = f[m + 1]
            BY <3>1, <5>1
          <6> HIDE DEF h
          <6>2. QED
            BY <6>1
        <5>2. CASE i # m + 2
          <6>1. i \in 1 .. m + 1 /\ h[i] = f[i] /\ (i # 1 => h[i - 1] = f[i - 1])
            BY <3>1, <5>2
          <6> HIDE DEF h
          <6>2. QED
            BY <4>1, <6>1
        <5>3. QED
          BY <5>1, <5>2
      <4>3. m + 1 + 1 = m + 2
        BY <3>1
      <4>4. h = [i \in 1 .. m + 2 |-> h[i]]
        OBVIOUS
      <4> HIDE DEF h
      <4>5. [i \in 1 .. m + 2 |-> h[i]]
              = [i \in 1 .. m + 2 |-> IF i = 1 THEN Empty(n) ELSE Turn(i - 1, h[i - 1])]
        BY <4>2
      <4>6. QED
        BY <4>3, <4>4, <4>5
    <3>4. m + 1 \in Nat
      BY <3>1
    <3> HIDE DEF Good, h
    <3>5. QED
      BY <3>3, <3>4
  <2>3. T \subseteq Nat
    OBVIOUS
  <2> HIDE DEF T
  <2>4. QED
    BY <2>1, <2>2, <2>3, Induction
<1>3. \E f : Good(f, last)
  <2>1. last \in T
    BY <1>1, <1>2
  <2> HIDE DEF last, Good
  <2>2. QED
    BY <2>1
<1>4. Good(g, last)
  BY <1>3, Zenon DEF BucketsBefore
<1>5. \A i \in 1 .. last + 1 : g[i] = IF i = 1 THEN Empty(n) ELSE Turn(i - 1, g[i - 1])
  <2> HIDE DEF Turn, g, last
  <2>1. QED
    BY <1>4, Zenon
<1>6. ASSUME NEW i \in 1..last PROVE g[i + 1] = Turn(i, g[i])
  <2> HIDE DEF Turn, g, last
  <2>1. i + 1 \in 1 .. last + 1 /\ i + 1 # 1 /\ i + 1 - 1 = i
    BY <1>1
  <2>2. g[i + 1] = Turn(i + 1 - 1, g[i + 1 - 1])
    BY <1>5, <2>1
  <2>3. QED
    BY <2>1, <2>2
<1>7. g[1] = Empty(n)
  <2> HIDE DEF Turn, g, last
  <2>1. 1 \in 1 .. last + 1
    BY <1>1
  <2>2. QED
    BY <1>5, <2>1
<1>8. QED
  BY <1>6, <1>7, Zenon

(* A rehash gives each entry a bucket where a search meets it.             *)
LEMMA RehashHolds ==
  ASSUME HashesAreNumbers, NEW list, Len(list) \in Nat, NEW n \in Nat, Len(list) < n,
         \A i \in 1..Len(list) : list[i].key \in Keys
  PROVE  Holds(list, Rehashed(list, n), n, Len(list))
<1> DEFINE g == BucketsBefore(list, n)
           last == Len(list)
           T == {m \in Nat : m <= last => Holds(list, g[m + 1], n, m)}
<1>1. last \in Nat /\ last < n /\ \A i \in 1..last : list[i].key \in Keys
  OBVIOUS
<1>2. g[1] = Empty(n) /\ \A i \in 1..last : g[i + 1] = Seated(g[i], n, list[i].key, i)
  BY RehashSteps, Zenon
<1> HIDE DEF g, last
<1>3. 0 \in T
  <2>1. Holds(list, Empty(n), n, 0)
    BY DEF Holds, Empty
  <2>2. 0 + 1 = 1
    OBVIOUS
  <2>3. QED
    BY <1>2, <2>1, <2>2
<1>4. ASSUME NEW m \in T PROVE m + 1 \in T
  <2>1. m \in Nat /\ m + 1 \in Nat
    OBVIOUS
  <2>2. SUFFICES ASSUME m + 1 <= last PROVE Holds(list, g[m + 1 + 1], n, m + 1)
    BY <2>1
  <2>3. m + 1 \in 1..last /\ m < n /\ m <= last
    BY <1>1, <2>1, <2>2
  <2>4. Holds(list, g[m + 1], n, m)
    BY <2>3
  <2>5. g[m + 1 + 1] = Seated(g[m + 1], n, list[m + 1].key, m + 1)
    BY <1>2, <2>3
  <2>6. Hash(list[m + 1].key) \in Nat /\ \A i \in 1..m : Hash(list[i].key) \in Nat
    <3>1. \A i \in 1..m : i \in 1..last
      BY <1>1, <2>1, <2>3
    <3>2. QED
      BY <1>1, <2>3, <3>1, Zenon DEF HashesAreNumbers
  <2> HIDE DEF T
  <2>7. Holds(list, Seated(g[m + 1], n, list[m + 1].key, m + 1), n, m + 1)
    BY <2>1, <2>3, <2>4, <2>6, SeatedHolds
  <2>8. QED
    BY <2>5, <2>7
<1>5. T \subseteq Nat
  OBVIOUS
<1>6. T = Nat
  <2> HIDE DEF T
  <2>1. QED
    BY <1>3, <1>4, <1>5, Induction
<1>7. Holds(list, g[last + 1], n, last)
  <2>1. last \in T
    BY <1>1, <1>6
  <2>2. QED
    BY <1>1, <2>1
<1>8. QED
  BY <1>7 DEF Rehashed, g, last

(* Entries and buckets alone say whether there is a map.                   *)
LEMMA MapOf ==
  ASSUME NEW n \in Nat, n > 2, NEW list, list \in Seq(ToSet(list)),
         \A i \in 1..Len(list) : list[i].key \in Keys,
         \A i, j \in 1..Len(list) : list[i].key = list[j].key => i = j,
         (Len(list) + 1) * 10 <= n * 7,
         NEW buckets, Holds(list, buckets, n, Len(list)),
         NEW m, m = [entries |-> list, buckets |-> buckets]
  PROVE  IsMap(m)
<1>1. m.entries = list /\ m.buckets = buckets
  OBVIOUS
<1>2. Buckets(m) = n
  <2>1. DOMAIN m.buckets = 0..n - 1
    BY <1>1 DEF Holds
  <2>2. Cardinality(0..n - 1) = n
    <3>1. 0 \in Int /\ n - 1 \in Int /\ ~(0 > n - 1) /\ n - 1 - 0 + 1 = n
      OBVIOUS
    <3>2. QED
      BY <3>1, FS_Interval
  <2>3. QED
    BY <2>1, <2>2 DEF Buckets
<1>3. QED
  BY <1>1, <1>2, Zenon DEF IsMap

(* An empty table is a map.                                                *)
LEMMA NewIsMap == IsMap(NewMap)
<1> DEFINE n == InitialBuckets
<1>1. n \in Nat /\ n > 2
  BY BucketsAssumption
<1>2. Holds(<<>>, Empty(n), n, 0)
  BY <1>1 DEF Holds, Empty
<1>3. Len(<<>>) = 0 /\ <<>> \in Seq(ToSet(<<>>))
  OBVIOUS
<1>4. (0 + 1) * 10 <= n * 7
  BY <1>1
<1>5. NewMap = [entries |-> <<>>, buckets |-> Empty(n)]
  BY DEF NewMap
<1> HIDE DEF n
<1>6. \A list, buckets, m :
        /\ list \in Seq(ToSet(list)) /\ Len(list) = 0
        /\ Holds(list, buckets, n, 0)
        /\ m = [entries |-> list, buckets |-> buckets]
        => IsMap(m)
  <2> SUFFICES ASSUME NEW list, NEW buckets, NEW m,
                      list \in Seq(ToSet(list)), Len(list) = 0,
                      Holds(list, buckets, n, 0),
                      m = [entries |-> list, buckets |-> buckets]
               PROVE  IsMap(m)
    OBVIOUS
  <2>1. /\ \A i, j \in 1..Len(list) : list[i].key = list[j].key => i = j
        /\ \A i \in 1..Len(list) : list[i].key \in Keys
    OBVIOUS
  <2>2. (Len(list) + 1) * 10 <= n * 7
    BY <1>4
  <2>3. Holds(list, buckets, n, Len(list))
    OBVIOUS
  <2>4. QED
    BY <1>1, <2>1, <2>2, <2>3, MapOf
<1>7. QED
  BY <1>2, <1>3, <1>5, <1>6, Zenon

(* Putting a new key appends its entry and keeps the map, whether the      *)
(* table grows or not.                                                     *)
LEMMA PutNew ==
  ASSUME HashesAreNumbers, NEW m, IsMap(m), NEW key \in Keys, ~Has(m, key), NEW val
  PROVE  /\ IsMap(Put(m, key, val))
         /\ Put(m, key, val).entries = Append(m.entries, [key |-> key, val |-> val])
<1> DEFINE n == Buckets(m)
           old == m.entries
           k == Len(old)
           list == Append(old, [key |-> key, val |-> val])
           slot == Slot(m, key)
           buckets == IF (Len(list) + 1) * 10 > n * 7 THEN Rehashed(list, 2 * n)
                      ELSE [m.buckets EXCEPT ![slot] = Len(list)]
           p == [entries |-> list, buckets |-> buckets]
<1>1. Put(m, key, val) = p
  BY DEF Put
<1>2. /\ \A i, j \in 1..k : old[i].key = old[j].key => i = j
      /\ n \in Nat /\ n > 2 /\ (k + 1) * 10 <= n * 7
      /\ Holds(old, m.buckets, n, k)
      /\ old \in Seq(ToSet(old))
      /\ \A i \in 1..k : old[i].key \in Keys
  BY Zenon DEF IsMap
<1>3. /\ list \in Seq(ToSet(list)) /\ Len(list) = k + 1 /\ k \in Nat
      /\ \A i \in 1..k : list[i] = old[i]
      /\ list[k + 1] = [key |-> key, val |-> val]
  BY <1>2, Appended
<1>4. \A i \in 1..k : old[i].key # key
  BY MapFinds
<1> HIDE DEF list, n
<1>5. list[k + 1].key = key
  BY <1>3
<1>6. \A i, j \in 1..Len(list) : list[i].key = list[j].key => i = j
  <2> SUFFICES ASSUME NEW i \in 1..k + 1, NEW j \in 1..k + 1, list[i].key = list[j].key
               PROVE  i = j
    BY <1>3
  <2>1. CASE i \in 1..k /\ j \in 1..k
    BY <1>2, <1>3, <2>1
  <2>2. CASE i = k + 1 /\ j \in 1..k
    BY <1>3, <1>4, <1>5, <2>2
  <2>3. CASE i \in 1..k /\ j = k + 1
    BY <1>3, <1>4, <1>5, <2>3
  <2>4. CASE i = k + 1 /\ j = k + 1
    BY <2>4
  <2>5. QED
    BY <1>3, <2>1, <2>2, <2>3, <2>4
<1>7. \A i \in 1..Len(list) : list[i].key \in Keys
  <2> SUFFICES ASSUME NEW i \in 1..k + 1 PROVE list[i].key \in Keys
    BY <1>3
  <2>1. CASE i \in 1..k
    BY <1>2, <1>3, <2>1
  <2>2. CASE i = k + 1
    BY <1>5, <2>2
  <2>3. QED
    BY <1>3, <2>1, <2>2
<1>8. CASE (Len(list) + 1) * 10 > n * 7
  <2>1. 2 * n \in Nat /\ 2 * n > 2 /\ Len(list) < 2 * n /\ (Len(list) + 1) * 10 <= (2 * n) * 7
    BY <1>2, <1>3
  <2>2. Holds(list, Rehashed(list, 2 * n), 2 * n, Len(list))
    BY <1>3, <1>7, <2>1, RehashHolds
  <2>3. buckets = Rehashed(list, 2 * n)
    BY <1>8
  <2> HIDE DEF buckets
  <2>4. IsMap(p)
    BY <1>3, <1>6, <1>7, <2>1, <2>2, <2>3, MapOf
  <2>5. QED
    BY <1>1, <2>4 DEF list
<1>9. CASE ~((Len(list) + 1) * 10 > n * 7)
  <2>1. (Len(list) + 1) * 10 <= n * 7 /\ k < n
    BY <1>2, <1>3, <1>9
  <2>2. Holds(list, m.buckets, n, k)
    BY <1>2, <1>3 DEF Holds
  <2>3. Hash(list[k + 1].key) \in Nat /\ \A i \in 1..k : Hash(list[i].key) \in Nat
    BY <1>2, <1>3, <1>5, Zenon DEF HashesAreNumbers
  <2>4. slot = Probe(n, key, Free(m.buckets))
    <3>1. \A b \in DOMAIN m.buckets : m.buckets[b] \in 0..k
      BY <1>2 DEF Holds
    <3>2. {b \in DOMAIN m.buckets : m.buckets[b] = 0 \/ m.entries[m.buckets[b]].key = key}
            = Free(m.buckets)
      <4>1. ASSUME NEW b \in DOMAIN m.buckets, m.entries[m.buckets[b]].key = key
            PROVE  m.buckets[b] = 0
        <5>1. m.buckets[b] \in 0..k
          BY <3>1
        <5>2. m.buckets[b] \notin 1..k
          BY <1>4, <4>1
        <5>3. QED
          BY <1>3, <5>1, <5>2
      <4>2. QED
        BY <4>1 DEF Free
    <3>3. QED
      BY <3>2, Zenon DEF Slot, n
  <2>5. buckets = Seated(m.buckets, n, list[k + 1].key, k + 1)
    BY <1>3, <1>5, <1>9, <2>4 DEF Seated
  <2>6. Holds(list, Seated(m.buckets, n, list[k + 1].key, k + 1), n, k + 1)
    BY <1>2, <1>3, <2>1, <2>2, <2>3, SeatedHolds
  <2> HIDE DEF buckets
  <2>7. IsMap(p)
    BY <1>2, <1>3, <1>6, <1>7, <2>1, <2>5, <2>6, MapOf
  <2>8. QED
    BY <1>1, <2>7 DEF list
<1>10. QED
  BY <1>8, <1>9

(* Upper case is a sequence of bytes.                                      *)
LEMMA UpperIsKey ==
  ASSUME NEW name \in Keys
  PROVE  Upper(name) \in Keys
<1> DEFINE Bytes == 0..255
           new == Upper(name)
<1>1. Len(name) \in Nat /\ DOMAIN name = 1..Len(name) /\ \A i \in 1..Len(name) : name[i] \in Bytes
  <2> name \in Seq(Bytes)
    BY DEF Keys
  <2> HIDE DEF Bytes
  <2>1. QED
    BY LenProperties, ElementOfSeq
<1>2. \A b \in 0..255 : (IF b \in 97..122 \/ b \in 224..254 \ {247} THEN b - 32
                         ELSE IF b = 255 THEN 159 ELSE b) \in 0..255
  OBVIOUS
<1>3. new \in [1..Len(name) -> Bytes]
  BY <1>1, <1>2 DEF Upper
<1> HIDE DEF new, Bytes
<1>4. new \in Seq(Bytes)
  BY <1>1, <1>3
<1>5. QED
  BY <1>4 DEF Keys, new, Bytes

(* A symbol declared is there, first value first.                          *)
LEMMA DeclareKeeps ==
  ASSUME HashesAreNumbers, NEW m, IsMap(m), NEW name \in Keys, NEW value
  PROVE  /\ IsMap(Declare(m, name, value))
         /\ Len(m.entries) <= Len(Declare(m, name, value).entries)
         /\ \A i \in 1..Len(m.entries) : Declare(m, name, value).entries[i] = m.entries[i]
<1> DEFINE new == Put(m, Upper(name), value)
<1>1. CASE Has(m, Upper(name))
  <2>1. m.entries \in Seq(ToSet(m.entries))
    BY Zenon DEF IsMap
  <2>2. Len(m.entries) \in Nat
    BY <2>1, LenProperties
  <2>3. Declare(m, name, value) = m
    BY <1>1 DEF Declare
  <2>4. QED
    BY <2>2, <2>3
<1>2. CASE ~Has(m, Upper(name))
  <2>1. Declare(m, name, value) = new
    BY <1>2 DEF Declare
  <2>2. /\ IsMap(new)
        /\ new.entries = Append(m.entries, [key |-> Upper(name), val |-> value])
    BY <1>2, UpperIsKey, PutNew
  <2> HIDE DEF new
  <2>3. m.entries \in Seq(ToSet(m.entries))
    BY Zenon DEF IsMap
  <2>4. /\ Len(new.entries) = Len(m.entries) + 1 /\ Len(m.entries) \in Nat
        /\ \A i \in 1..Len(m.entries) : new.entries[i] = m.entries[i]
    BY <2>2, <2>3, Appended
  <2>5. QED
    BY <2>1, <2>2, <2>4
<1>3. QED
  BY <1>1, <1>2

-----------------------------------------------------------------------------
(* The symbols of a source.                                                *)

(* The symbols there are at first, definition by definition.               *)
LEMMA DefinedSteps ==
  ASSUME NEW list, Len(list) \in Nat
  PROVE  /\ SymbolsBefore(list)[1] = NewMap
         /\ \A i \in 1..Len(list) :
              SymbolsBefore(list)[i + 1] = Declare(SymbolsBefore(list)[i], list[i].name, list[i].value)
<1> DEFINE Turn(i, v) == Declare(v, list[i].name, list[i].value)
           Good(f, m) == f = [i \in 1 .. m + 1 |-> IF i = 1 THEN NewMap
                                                    ELSE Turn(i - 1, f[i - 1])]
           T == {m \in Nat : \E f : Good(f, m)}
           g == SymbolsBefore(list)
           last == Len(list)
<1>1. last \in Nat
  OBVIOUS
<1>2. T = Nat
  <2>1. 0 \in T
    <3> DEFINE f == [i \in 1..1 |-> NewMap]
    <3>1. Good(f, 0)
      <4> HIDE DEF Turn
      <4>1. QED
        OBVIOUS
    <3>2. QED
      BY <3>1
  <2>2. ASSUME NEW m \in T PROVE m + 1 \in T
    <3>1. m \in Nat
      OBVIOUS
    <3>2. PICK f : Good(f, m)
      OBVIOUS
    <3> DEFINE h == [i \in 1 .. m + 2 |-> IF i = m + 2 THEN Turn(m + 1, f[m + 1]) ELSE f[i]]
    <3>3. Good(h, m + 1)
      <4> HIDE DEF Turn
      <4>1. \A i \in 1 .. m + 1 : f[i] = IF i = 1 THEN NewMap ELSE Turn(i - 1, f[i - 1])
        BY <3>2, Zenon
      <4>2. ASSUME NEW i \in 1 .. m + 2
            PROVE  h[i] = IF i = 1 THEN NewMap ELSE Turn(i - 1, h[i - 1])
        <5>1. CASE i = m + 2
          <6>1. i # 1 /\ i - 1 = m + 1 /\ h[i] = Turn(m + 1, f[m + 1]) /\ h[m + 1] = f[m + 1]
            BY <3>1, <5>1
          <6> HIDE DEF h
          <6>2. QED
            BY <6>1
        <5>2. CASE i # m + 2
          <6>1. i \in 1 .. m + 1 /\ h[i] = f[i] /\ (i # 1 => h[i - 1] = f[i - 1])
            BY <3>1, <5>2
          <6> HIDE DEF h
          <6>2. QED
            BY <4>1, <6>1
        <5>3. QED
          BY <5>1, <5>2
      <4>3. m + 1 + 1 = m + 2
        BY <3>1
      <4>4. h = [i \in 1 .. m + 2 |-> h[i]]
        OBVIOUS
      <4> HIDE DEF h
      <4>5. [i \in 1 .. m + 2 |-> h[i]]
              = [i \in 1 .. m + 2 |-> IF i = 1 THEN NewMap ELSE Turn(i - 1, h[i - 1])]
        BY <4>2
      <4>6. QED
        BY <4>3, <4>4, <4>5
    <3>4. m + 1 \in Nat
      BY <3>1
    <3> HIDE DEF Good, h
    <3>5. QED
      BY <3>3, <3>4
  <2>3. T \subseteq Nat
    OBVIOUS
  <2> HIDE DEF T
  <2>4. QED
    BY <2>1, <2>2, <2>3, Induction
<1>3. \E f : Good(f, last)
  <2>1. last \in T
    BY <1>1, <1>2
  <2> HIDE DEF last, Good
  <2>2. QED
    BY <2>1
<1>4. Good(g, last)
  BY <1>3, Zenon DEF SymbolsBefore
<1>5. \A i \in 1 .. last + 1 : g[i] = IF i = 1 THEN NewMap ELSE Turn(i - 1, g[i - 1])
  <2> HIDE DEF Turn, g, last
  <2>1. QED
    BY <1>4, Zenon
<1>6. ASSUME NEW i \in 1..last PROVE g[i + 1] = Turn(i, g[i])
  <2> HIDE DEF Turn, g, last
  <2>1. i + 1 \in 1 .. last + 1 /\ i + 1 # 1 /\ i + 1 - 1 = i
    BY <1>1
  <2>2. g[i + 1] = Turn(i + 1 - 1, g[i + 1 - 1])
    BY <1>5, <2>1
  <2>3. QED
    BY <2>1, <2>2
<1>7. g[1] = NewMap
  <2> HIDE DEF Turn, g, last
  <2>1. 1 \in 1 .. last + 1
    BY <1>1
  <2>2. QED
    BY <1>5, <2>1
<1>8. QED
  BY <1>6, <1>7, Zenon

(* Those make a map.                                                       *)
LEMMA DefinedIsMap ==
  ASSUME HashesAreNumbers, NEW list, Len(list) \in Nat,
         \A i \in 1..Len(list) : list[i].name \in Keys
  PROVE  IsMap(SymbolsBefore(list)[Len(list) + 1])
<1> DEFINE g == SymbolsBefore(list)
           last == Len(list)
           T == {m \in Nat : m <= last => IsMap(g[m + 1])}
<1>1. last \in Nat /\ \A i \in 1..last : list[i].name \in Keys
  OBVIOUS
<1>2. g[1] = NewMap /\ \A i \in 1..last : g[i + 1] = Declare(g[i], list[i].name, list[i].value)
  BY DefinedSteps, Zenon
<1> HIDE DEF g, last
<1>3. 0 \in T
  <2>1. 0 + 1 = 1
    OBVIOUS
  <2>2. QED
    BY <1>2, <2>1, NewIsMap
<1>4. ASSUME NEW m \in T PROVE m + 1 \in T
  <2>1. m \in Nat /\ m + 1 \in Nat
    OBVIOUS
  <2>2. SUFFICES ASSUME m + 1 <= last PROVE IsMap(g[m + 1 + 1])
    BY <2>1
  <2>3. m + 1 \in 1..last /\ m <= last
    BY <1>1, <2>1, <2>2
  <2>4. IsMap(g[m + 1])
    BY <2>3
  <2>5. g[m + 1 + 1] = Declare(g[m + 1], list[m + 1].name, list[m + 1].value)
    BY <1>2, <2>3
  <2>6. QED
    BY <1>1, <2>3, <2>4, <2>5, DeclareKeeps
<1>5. T \subseteq Nat
  OBVIOUS
<1>6. last \in T
  <2> HIDE DEF T
  <2>1. T = Nat
    BY <1>3, <1>4, <1>5, Induction
  <2>2. QED
    BY <1>1, <2>1
<1>7. QED
  BY <1>1, <1>6 DEF g, last

(* A word's symbol has a sequence of bytes for its name.                   *)
LEMMA SymbolIsKey ==
  ASSUME NEW word \in Keys
  PROVE  VocSymbol(Canonical(word)) \in Keys
<1> DEFINE Bytes == 0..255
           part == SubSeq(word, 1, Min({5, Len(word)}))
           upper == Upper(part)
           folded == Canonical(word)
<1>1. word \in Seq(Bytes) /\ Len(word) \in Nat
  BY LenProperties DEF Keys
<1>2. Min({5, Len(word)}) \in 0..Len(word)
  <2> DEFINE n == Len(word)
             T == {5, n}
  <2>1. \E x \in T : \A y \in T : x <= y
    BY <1>1
  <2>2. Min(T) \in T /\ \A y \in T : Min(T) <= y
    <3> HIDE DEF T
    <3>1. QED
      BY <2>1, Zenon DEF Min
  <2> HIDE DEF n
  <2>3. n \in Nat /\ Min(T) \in {5, n} /\ Min(T) <= n
    BY <1>1, <2>2 DEF n
  <2>4. QED
    BY <2>3 DEF n
<1>3. part \in Keys
  <2> HIDE DEF Bytes
  <2>1. PICK m \in 0..Len(word) : m = Min({5, Len(word)})
    BY <1>2
  <2>2. 0 + 1 = 1 /\ 0 + m = m /\ m \in Nat /\ m <= Len(word) /\ 0 \in Nat
    BY <1>1
  <2>3. SubSeq(word, 0 + 1, 0 + m) \in Seq(Bytes)
    BY <1>1, <2>2, Part
  <2>4. QED
    BY <2>1, <2>2, <2>3 DEF Keys, Bytes
<1>4. upper \in Seq(Bytes)
  BY <1>3, UpperIsKey DEF Keys
<1> HIDE DEF part, upper
<1>5. Len(upper) \in Nat /\ DOMAIN upper = 1..Len(upper)
      /\ \A i \in 1..Len(upper) : upper[i] \in Bytes
  <2> HIDE DEF Bytes
  <2>1. QED
    BY <1>4, LenProperties, ElementOfSeq
<1>6. folded \in [1..Len(upper) -> Bytes]
  <2> DEFINE Lowered == {193, 201, 205, 211, 218, 220, 209, 199}
  <2>1. folded = [i \in DOMAIN upper |-> IF upper[i] \in Lowered THEN upper[i] + 32 ELSE upper[i]]
    BY DEF Canonical, upper, part
  <2>2. \A b \in Bytes : (IF b \in Lowered THEN b + 32 ELSE b) \in Bytes
    OBVIOUS
  <2> HIDE DEF Lowered, Bytes, folded
  <2>3. QED
    BY <1>5, <2>1, <2>2
<1> HIDE DEF Bytes, folded
<1>7. folded \in Seq(Bytes)
  BY <1>5, <1>6
<1>8. <<7>> \in Seq(Bytes)
  BY DEF Bytes
<1>9. <<7>> \o folded \in Seq(Bytes)
  BY <1>7, <1>8, Concat
<1>10. QED
  BY <1>9 DEF VocSymbol, Keys, Bytes, folded

(* A sequence with an element inserted.                                    *)
LEMMA Inserted ==
  ASSUME NEW s, s \in Seq(ToSet(s)), NEW place \in 1 .. Len(s) + 1, NEW e
  PROVE  /\ InsertAt(s, place, e) \in Seq(ToSet(InsertAt(s, place, e)))
         /\ ToSet(InsertAt(s, place, e)) \subseteq ToSet(s) \cup {e}
<1> DEFINE S == ToSet(s) \cup {e}
           before == SubSeq(s, 1, place - 1)
           after == SubSeq(s, place, Len(s))
           new == InsertAt(s, place, e)
<1>1. s \in Seq(S) /\ e \in S
  BY SeqOfMore
<1>2. Len(s) \in Nat
  BY LenProperties
<1> HIDE DEF S
<1>3. before \in Seq(S)
  <2>1. 0 + 1 = 1 /\ 0 + (place - 1) = place - 1 /\ place - 1 \in Nat
        /\ place - 1 <= Len(s) /\ 0 \in Nat
    BY <1>2
  <2>2. SubSeq(s, 0 + 1, 0 + (place - 1)) \in Seq(S)
    BY <1>1, <2>1, Part
  <2>3. QED
    BY <2>1, <2>2
<1>4. after \in Seq(S)
  <2>1. PICK from \in Nat : place = from + 1
    BY <1>2
  <2>2. PICK n \in Nat : from + n = Len(s)
    BY <1>2, <2>1
  <2>3. SubSeq(s, from + 1, from + n) \in Seq(S)
    BY <1>1, <2>2, Part
  <2>4. QED
    BY <2>1, <2>2, <2>3
<1>5. <<e>> \in Seq(S)
  BY <1>1
<1> HIDE DEF before, after
<1>6. new \in Seq(S)
  <2>1. before \o <<e>> \in Seq(S)
    BY <1>3, <1>5, Concat
  <2>2. (before \o <<e>>) \o after \in Seq(S)
    BY <1>4, <2>1, Concat
  <2>3. QED
    BY <2>2 DEF InsertAt, before, after
<1> HIDE DEF new
<1>7. DOMAIN new = 1..Len(new) /\ Len(new) \in Nat /\ \A i \in 1..Len(new) : new[i] \in S
  BY <1>6, LenProperties, ElementOfSeq
<1>8. new \in Seq(ToSet(new))
  <2>1. \A i \in 1..Len(new) : new[i] \in ToSet(new)
    BY <1>7 DEF ToSet
  <2>2. new = [i \in 1..Len(new) |-> new[i]]
    BY <1>6
  <2>3. QED
    BY <1>7, <2>1, <2>2
<1>9. ToSet(new) \subseteq S
  BY <1>7 DEF ToSet
<1>10. QED
  BY <1>8, <1>9 DEF new, S

(* At first.                                                               *)
LEMMA SymbolsInvInit ==
  ASSUME HashesAreNumbers, Init
  PROVE  SymbolsInv
<1>1. job \in Jobs /\ rest = job.source /\ voc = <<>>
      /\ symbols = SymbolsBefore(job.symbols)[Len(job.symbols) + 1]
  BY DEF Init, FrontInit
<1>2. rest \in Seq(Token) /\ job.symbols \in Seq([name : Keys, value : Int])
  BY <1>1, JobsAssumption
<1>3. IsMap(symbols)
  <2> DEFINE list == job.symbols
             S == [name : Keys, value : Int]
  <2>1. \A r \in S : r.name \in Keys
    OBVIOUS
  <2>2. Len(list) \in Nat /\ \A i \in 1..Len(list) : list[i] \in S
    <3> HIDE DEF S
    <3>1. QED
      BY <1>2, LenProperties, ElementOfSeq DEF S
  <2>3. \A i \in 1..Len(list) : list[i].name \in Keys
    BY <2>1, <2>2
  <2>4. QED
    BY <1>1, <2>2, <2>3, DefinedIsMap
<1>4. voc \in Seq(ToSet(voc)) /\ ToSet(voc) = {}
  BY <1>1 DEF ToSet
<1>5. QED
  BY <1>2, <1>3, <1>4 DEF SymbolsInv

(* What is left of the source.                                             *)
LEMMA RestRemains ==
  ASSUME rest \in Seq(Token), NEW n \in Nat, Read(n)
  PROVE  rest' \in Seq(Token)
<1>1. Len(rest) \in Nat
  BY LenProperties
<1>2. CASE n <= Len(rest)
  <2>1. PICK m \in Nat : n + m = Len(rest)
    BY <1>1, <1>2
  <2>2. SubSeq(rest, n + 1, n + m) \in Seq(Token)
    BY <2>1, Part
  <2>3. QED
    BY <2>1, <2>2 DEF Read
<1>3. CASE n > Len(rest)
  <2>1. SubSeq(rest, n + 1, Len(rest)) = <<>>
    BY <1>1, <1>3
  <2>2. QED
    BY <2>1 DEF Read
<1>4. QED
  BY <1>1, <1>2, <1>3

(* Whatever leaves the words and keeps the symbols in their places keeps   *)
(* the words named.                                                        *)
LEMMA NamesStay ==
  ASSUME SymbolsInv, IsMap(symbols)', rest' \in Seq(Token), voc' = voc,
         Len(symbols.entries) <= Len(symbols'.entries),
         \A i \in 1..Len(symbols.entries) : symbols'.entries[i] = symbols.entries[i]
  PROVE  SymbolsInv'
<1>1. Len(symbols.entries) \in Nat /\ Len(symbols'.entries) \in Nat
  <2>1. /\ symbols.entries \in Seq(ToSet(symbols.entries))
        /\ symbols'.entries \in Seq(ToSet(symbols'.entries))
    BY Zenon DEF SymbolsInv, IsMap
  <2>2. QED
    BY <2>1, LenProperties
<1>2. ASSUME NEW word \in ToSet(voc) PROVE Named(word)'
  <2>1. PICK j \in 1..Len(symbols.entries) :
          /\ symbols.entries[j].key = Upper(VocSymbol(word.word))
          /\ symbols.entries[j].val = word.value
    BY DEF SymbolsInv, Named
  <2>2. j \in 1..Len(symbols'.entries) /\ symbols'.entries[j] = symbols.entries[j]
    BY <1>1
  <2>3. QED
    BY <2>1, <2>2, Zenon DEF Named
<1>3. QED
  BY <1>2, Zenon DEF SymbolsInv

(* A step that reads on and leaves symbols and words.                      *)
LEMMA Untouched ==
  ASSUME SymbolsInv, rest' \in Seq(Token), symbols' = symbols, voc' = voc
  PROVE  SymbolsInv'
<1>1. IsMap(symbols) /\ voc \in Seq(ToSet(voc)) /\ \A word \in ToSet(voc) : Named(word)
  BY DEF SymbolsInv
<1>2. IsMap(symbols)'
  BY <1>1
<1>3. \A word : Named(word) => Named(word)'
  BY DEF Named
<1>4. QED
  BY <1>1, <1>2, <1>3 DEF SymbolsInv

(* The place of a word among those defined.                                *)
LEMMA PlaceFits ==
  ASSUME voc \in Seq(ToSet(voc)), NEW word
  PROVE  Cardinality({i \in DOMAIN voc : Precedes(voc[i].word, word)}) + 1 \in 1 .. Len(voc) + 1
<1> DEFINE D == DOMAIN voc
           E == {i \in D : Precedes(voc[i].word, word)}
<1>1. D = 1..Len(voc) /\ Len(voc) \in Nat
  BY LenProperties
<1>2. IsFiniteSet(D) /\ Cardinality(D) = Len(voc)
  <2>1. 1 \in Int /\ Len(voc) \in Int /\ (IF 1 > Len(voc) THEN 0 ELSE Len(voc) - 1 + 1) = Len(voc)
    BY <1>1
  <2>2. /\ IsFiniteSet(1..Len(voc))
        /\ Cardinality(1..Len(voc)) = IF 1 > Len(voc) THEN 0 ELSE Len(voc) - 1 + 1
    BY <2>1, FS_Interval, Zenon
  <2>3. QED
    BY <1>1, <2>1, <2>2, Zenon
<1>3. E \subseteq D
  OBVIOUS
<1> HIDE DEF E, D
<1>4. IsFiniteSet(E) /\ Cardinality(E) <= Cardinality(D)
  BY <1>2, <1>3, FS_Subset
<1>5. Cardinality(E) \in Nat
  BY <1>4, FS_CardinalityType
<1>6. QED
  BY <1>1, <1>2, <1>4, <1>5 DEF D, E

(* A word defined becomes a symbol; nothing can have had its name.         *)
LEMMA NewWordNamed ==
  ASSUME HashesAreNumbers, SymbolsInv, ParseNewWord
  PROVE  SymbolsInv'
<1> DEFINE word == Canonical(rest[1].text)
           new == [word |-> word, value |-> Value(rest[2]), type |-> Types[Upper(rest[3].text)]]
           place == Cardinality({i \in DOMAIN voc : Precedes(voc[i].word, word)}) + 1
           name == VocSymbol(word)
           key == Upper(name)
           old == symbols.entries
           k == Len(old)
<1>1. /\ voc' = InsertAt(voc, place, new)
      /\ symbols' = Declare(symbols, name, new.value)
      /\ Read(3)
      /\ ~Has(symbols, key)
      /\ Len(rest) >= 3
  BY DEF ParseNewWord, NewWordFits, Ahead
<1>2. rest \in Seq(Token) /\ IsMap(symbols) /\ voc \in Seq(ToSet(voc))
      /\ \A w \in ToSet(voc) : Named(w)
  BY DEF SymbolsInv
<1>3. rest' \in Seq(Token)
  BY <1>1, <1>2, RestRemains
<1>4. name \in Keys /\ key \in Keys
  <2>1. 1 \in 1..Len(rest)
    <3>1. Len(rest) \in Nat
      BY <1>2, LenProperties
    <3>2. QED
      BY <1>1, <3>1
  <2>2. rest[1] \in Token
    BY <1>2, <2>1, ElementOfSeq
  <2>3. rest[1].text \in Keys
    BY <2>2 DEF Token
  <2> HIDE DEF name
  <2>4. name \in Keys
    BY <2>3, SymbolIsKey DEF name
  <2>5. QED
    BY <2>4, UpperIsKey
<1>5. place \in 1 .. Len(voc) + 1
  BY <1>2, PlaceFits
<1> HIDE DEF place, new, name, key, k
<1>6. /\ voc' \in Seq(ToSet(voc'))
      /\ ToSet(voc') \subseteq ToSet(voc) \cup {new}
  BY <1>1, <1>2, <1>5, Inserted
<1>7. symbols' = Put(symbols, key, new.value)
  BY <1>1 DEF Declare, key
<1>8. /\ IsMap(symbols')
      /\ symbols'.entries = Append(old, [key |-> key, val |-> new.value])
  BY <1>1, <1>2, <1>4, <1>7, PutNew
<1>9. /\ k \in Nat /\ Len(symbols'.entries) = k + 1
      /\ \A i \in 1..k : symbols'.entries[i] = old[i]
      /\ symbols'.entries[k + 1] = [key |-> key, val |-> new.value]
  <2>1. old \in Seq(ToSet(old))
    BY <1>2, Zenon DEF IsMap
  <2>2. QED
    BY <1>8, <2>1, Appended DEF k
<1>10. ASSUME NEW w \in ToSet(voc) PROVE Named(w)'
  <2>1. PICK j \in 1..k : old[j].key = Upper(VocSymbol(w.word)) /\ old[j].val = w.value
    BY <1>2, Zenon DEF Named, k
  <2>2. j \in 1..Len(symbols'.entries) /\ symbols'.entries[j] = old[j]
    BY <1>9
  <2>3. QED
    BY <2>1, <2>2, Zenon DEF Named
<1>11. ASSUME NEW w, w = new PROVE Named(w)'
  <2>1. PICK j : j = k + 1
    OBVIOUS
  <2>2. j \in 1..Len(symbols'.entries)
    BY <1>9, <2>1
  <2>3. symbols'.entries[j].key = key /\ symbols'.entries[j].val = w.value
    BY <1>9, <1>11, <2>1
  <2>4. key = Upper(VocSymbol(w.word))
    BY <1>11 DEF key, name, new
  <2>5. QED
    BY <2>2, <2>3, <2>4, Zenon DEF Named
<1>12. \A w \in ToSet(voc') : Named(w)'
  <2> SUFFICES ASSUME NEW w \in ToSet(voc') PROVE Named(w)'
    OBVIOUS
  <2>1. w \in ToSet(voc) \/ w = new
    BY <1>6
  <2>2. QED
    BY <1>10, <1>11, <2>1
<1>13. QED
  BY <1>3, <1>6, <1>8, <1>12, Zenon DEF SymbolsInv

(* Two symbols declared, as sections that end do.                          *)
LEMMA TwoDeclared ==
  ASSUME HashesAreNumbers, NEW m, IsMap(m), NEW a \in Keys, NEW x, NEW b \in Keys, NEW y,
         NEW p, p = Declare(Declare(m, a, x), b, y)
  PROVE  /\ IsMap(p) /\ Len(m.entries) <= Len(p.entries)
         /\ \A i \in 1..Len(m.entries) : p.entries[i] = m.entries[i]
<1> DEFINE o == Declare(m, a, x)
<1>1. /\ IsMap(o) /\ Len(m.entries) <= Len(o.entries)
      /\ \A i \in 1..Len(m.entries) : o.entries[i] = m.entries[i]
  BY DeclareKeeps
<1> HIDE DEF o
<1>2. /\ IsMap(p) /\ Len(o.entries) <= Len(p.entries)
      /\ \A i \in 1..Len(o.entries) : p.entries[i] = o.entries[i]
  BY <1>1, DeclareKeeps DEF o
<1>3. Len(m.entries) \in Nat /\ Len(o.entries) \in Nat /\ Len(p.entries) \in Nat
  <2>1. m.entries \in Seq(ToSet(m.entries)) /\ o.entries \in Seq(ToSet(o.entries))
        /\ p.entries \in Seq(ToSet(p.entries))
    BY <1>1, <1>2, Zenon DEF IsMap
  <2>2. QED
    BY <2>1, LenProperties
<1>4. Len(m.entries) <= Len(p.entries)
  BY <1>1, <1>2, <1>3
<1>5. ASSUME NEW i \in 1..Len(m.entries) PROVE p.entries[i] = m.entries[i]
  <2>1. i \in 1..Len(o.entries)
    BY <1>1, <1>3
  <2>2. p.entries[i] = o.entries[i] /\ o.entries[i] = m.entries[i]
    BY <1>1, <1>2, <2>1
  <2>3. QED
    BY <2>2
<1>6. QED
  BY <1>2, <1>4, <1>5

(* The symbols a section that ends declares leave the words named.         *)
LEMMA CountsStay ==
  ASSUME HashesAreNumbers, SymbolsInv, EndSection
  PROVE  SymbolsInv'
<1>1. symbols' = Counted /\ Read(1) /\ voc' = voc
  BY DEF EndSection
<1>2. rest \in Seq(Token) /\ IsMap(symbols)
  BY DEF SymbolsInv
<1>3. rest' \in Seq(Token)
  BY <1>1, <1>2, RestRemains
<1>4. /\ LAST_OBJECT \in Keys /\ NUM_OBJECTS \in Keys /\ LAST_LOCATION \in Keys
      /\ NUM_LOCATIONS \in Keys /\ NUM_CARRIED \in Keys /\ NUM_WORN \in Keys
  BY DEF Keys, LAST_OBJECT, NUM_OBJECTS, LAST_LOCATION, NUM_LOCATIONS, NUM_CARRIED, NUM_WORN
<1>5. CASE section = "OTX"
  <2>1. symbols' = Declare(Declare(symbols, LAST_OBJECT, Len(texts.OTX) - 1),
                           NUM_OBJECTS, Len(texts.OTX))
    BY <1>1, <1>5 DEF Counted
  <2>2. QED
    BY <1>1, <1>2, <1>3, <1>4, <2>1, TwoDeclared, NamesStay
<1>6. CASE section = "LTX"
  <2>1. symbols' = Declare(Declare(symbols, LAST_LOCATION, Len(texts.LTX) - 1),
                           NUM_LOCATIONS, Len(texts.LTX))
    BY <1>1, <1>6 DEF Counted
  <2>2. QED
    BY <1>1, <1>2, <1>3, <1>4, <2>1, TwoDeclared, NamesStay
<1>7. CASE section = "OBJ"
  <2>1. symbols' = Declare(Declare(symbols, NUM_CARRIED, Started(LOC_CARRIED)),
                           NUM_WORN, Started(LOC_WORN))
    BY <1>1, <1>7 DEF Counted
  <2>2. QED
    BY <1>1, <1>2, <1>3, <1>4, <2>1, TwoDeclared, NamesStay
<1>8. CASE section \notin {"OTX", "LTX", "OBJ"}
  <2>1. symbols' = symbols
    BY <1>1, <1>8 DEF Counted
  <2>2. QED
    BY <1>1, <1>3, <2>1, Untouched
<1>9. QED
  BY <1>5, <1>6, <1>7, <1>8

(* Every step.                                                             *)
LEMMA SymbolsInvStep ==
  ASSUME HashesAreNumbers, SymbolsInv, [Next]_vars
  PROVE  SymbolsInv'
<1>1. rest \in Seq(Token)
  BY DEF SymbolsInv
<1>2. CASE ParseNext
  <2>1. CASE ParseNewWord
    BY <2>1, NewWordNamed
  <2>2. CASE EndSection
    BY <2>2, CountsStay
  <2>3. CASE ParseCtl
    <3>1. Read(1) /\ symbols' = symbols /\ voc' = voc
      BY <2>3 DEF ParseCtl
    <3>2. QED
      BY <1>1, <3>1, RestRemains, Untouched
  <2>4. CASE ParseMessage
    <3>1. Read(2) /\ symbols' = symbols /\ voc' = voc
      BY <2>4 DEF ParseMessage
    <3>2. QED
      BY <1>1, <3>1, RestRemains, Untouched
  <2>5. CASE ParseLocation
    <3>1. Read(1) /\ symbols' = symbols /\ voc' = voc
      BY <2>5 DEF ParseLocation
    <3>2. QED
      BY <1>1, <3>1, RestRemains, Untouched
  <2>6. CASE ParseConnection
    <3>1. Read(2) /\ symbols' = symbols /\ voc' = voc
      BY <2>6 DEF ParseConnection
    <3>2. QED
      BY <1>1, <3>1, RestRemains, Untouched
  <2>7. CASE ParseObject
    <3>1. Read(23) /\ symbols' = symbols /\ voc' = voc
      BY <2>7 DEF ParseObject, ObjectTokens
    <3>2. QED
      BY <1>1, <3>1, RestRemains, Untouched
  <2>8. CASE ParsePro
    <3>1. rest' = rest /\ symbols' = symbols /\ voc' = voc
      BY <2>8 DEF ParsePro
    <3>2. QED
      BY <1>1, <3>1, Untouched
  <2>9. CASE Refuse
    <3>1. rest' = rest /\ symbols' = symbols /\ voc' = voc
      BY <2>9 DEF Refuse
    <3>2. QED
      BY <1>1, <3>1, Untouched
  <2>10. QED
    BY <1>2, <2>1, <2>2, <2>3, <2>4, <2>5, <2>6, <2>7, <2>8, <2>9 DEF ParseNext
<1>3. CASE UNCHANGED source
  <2>1. rest' = rest /\ symbols' = symbols /\ voc' = voc
    BY <1>3 DEF source
  <2>2. QED
    BY <1>1, <2>1, Untouched
<1>4. ParseNext \/ UNCHANGED source
  <2>1. CASE Next
    <3>1. CASE LoadModel
      BY <3>1 DEF LoadModel
    <3>2. CASE RefuseText
      BY <3>2 DEF RefuseText
    <3>3. CASE WriteHeader
      BY <3>3 DEF WriteHeader, Emit
    <3>4. CASE WriteExterns
      BY <3>4 DEF WriteExterns
    <3>5. CASE MissingExtern
      BY <3>5 DEF MissingExtern
    <3>6. CASE Truncate
      BY <3>6 DEF Truncate
    <3>7. CASE WriteObjectTexts
      BY <3>7 DEF WriteObjectTexts, Emit
    <3>8. CASE WriteObjects
      BY <3>8 DEF WriteObjects, Emit
    <3>9. CASE WriteVocabulary
      BY <3>9 DEF WriteVocabulary, Emit
    <3>10. CASE WriteTokens
      BY <3>10 DEF WriteTokens, Emit
    <3>11. CASE WriteSTX
      BY <3>11 DEF WriteSTX, WriteTexts, Emit
    <3>12. CASE WriteMTX
      BY <3>12 DEF WriteMTX, WriteTexts, Emit
    <3>13. CASE WriteLTX
      BY <3>13 DEF WriteLTX, WriteTexts, Emit
    <3>14. CASE WriteConnections
      BY <3>14 DEF WriteConnections, Emit
    <3>15. CASE WriteProcesses
      BY <3>15 DEF WriteProcesses, Emit
    <3>16. CASE PatchHeader
      BY <3>16 DEF PatchHeader
    <3>17. QED
      BY <2>1, <3>1, <3>2, <3>3, <3>4, <3>5, <3>6, <3>7, <3>8, <3>9, <3>10,
        <3>11, <3>12, <3>13, <3>14, <3>15, <3>16, Zenon DEF Next
  <2>2. CASE UNCHANGED vars
    BY <2>2 DEF vars
  <2>3. QED
    BY <2>1, <2>2
<1>5. QED
  BY <1>2, <1>3, <1>4

(* The invariant has every symbol found, and every word of the vocabulary. *)
LEMMA AreFound ==
  ASSUME HashesAreNumbers, SymbolsInv
  PROVE  SymbolsFound
<1>1. /\ IsMap(symbols) /\ voc \in Seq(ToSet(voc)) /\ \A word \in ToSet(voc) : Named(word)
  BY DEF SymbolsInv
<1>2. DOMAIN symbols.entries = 1..Len(symbols.entries)
  <2>1. symbols.entries \in Seq(ToSet(symbols.entries))
    BY <1>1, Zenon DEF IsMap
  <2>2. QED
    BY <2>1, LenProperties
<1>3. ASSUME NEW i \in DOMAIN symbols.entries
      PROVE  symbols.buckets[Slot(symbols, symbols.entries[i].key)] = i
  BY <1>1, <1>2, GetsValue
<1>4. ASSUME NEW i \in DOMAIN voc, NEW symbol, symbol = Upper(VocSymbol(voc[i].word))
      PROVE  Has(symbols, symbol) /\ Get(symbols, symbol) = voc[i].value
  <2>1. voc[i] \in ToSet(voc)
    BY DEF ToSet
  <2>2. PICK j \in 1..Len(symbols.entries) :
          /\ symbols.entries[j].key = Upper(VocSymbol(voc[i].word))
          /\ symbols.entries[j].val = voc[i].value
    BY <1>1, <2>1, Zenon DEF Named
  <2>3. Has(symbols, symbols.entries[j].key)
        /\ Get(symbols, symbols.entries[j].key) = symbols.entries[j].val
    BY <1>1, GetsValue
  <2>4. QED
    BY <1>4, <2>2, <2>3
<1>5. QED
  BY <1>3, <1>4, Zenon DEF SymbolsFound

(* However its keys collide and however often it grows, the table finds    *)
(* every symbol where a search ends, and each word of the vocabulary is a  *)
(* symbol with its value (SymbolsFound): a lookup in map.c never reports a *)
(* name missing that was declared, and never takes one name for another.   *)
THEOREM SymbolsAreFound ==
  ASSUME HashesAreNumbers
  PROVE  Spec => []SymbolsFound
<1>1. Init => SymbolsInv
  BY SymbolsInvInit
<1>2. SymbolsInv /\ [Next]_vars => SymbolsInv'
  BY SymbolsInvStep
<1>3. SymbolsInv => SymbolsFound
  BY AreFound
<1>4. QED
  BY <1>1, <1>2, <1>3, PTL DEF Spec

-----------------------------------------------------------------------------
(* Sequences of any elements, and functions that refer to their own values.*)

(* A sequence over a set is one of its own elements.                       *)
LEMMA OwnElements ==
  ASSUME NEW S, NEW s \in Seq(S)
  PROVE  IsSequence(s)
<1>1. Len(s) \in Nat /\ DOMAIN s = 1..Len(s) /\ s = [i \in 1..Len(s) |-> s[i]]
  BY LenProperties
<1>2. \A i \in 1..Len(s) : s[i] \in ToSet(s)
  BY <1>1 DEF ToSet
<1>3. s \in [1..Len(s) -> ToSet(s)]
  BY <1>1, <1>2
<1>4. QED
  BY <1>1, <1>3, SeqDef DEF IsSequence

(* Two of them, one behind the other.                                      *)
LEMMA ConcatOwn ==
  ASSUME NEW s, IsSequence(s), NEW t, IsSequence(t)
  PROVE  /\ IsSequence(s \o t)
         /\ Len(s) \in Nat /\ Len(t) \in Nat /\ Len(s \o t) = Len(s) + Len(t)
         /\ \A k \in 1..Len(s) : (s \o t)[k] = s[k]
         /\ \A k \in 1..Len(t) : (s \o t)[Len(s) + k] = t[k]
<1> DEFINE S == ToSet(s) \cup ToSet(t)
<1>1. s \in Seq(S) /\ t \in Seq(S)
  BY SeqOfMore DEF IsSequence
<1> HIDE DEF S
<1>2. /\ s \o t \in Seq(S)
      /\ Len(s) \in Nat /\ Len(t) \in Nat /\ Len(s \o t) = Len(s) + Len(t)
      /\ \A k \in 1..Len(s) : (s \o t)[k] = s[k]
      /\ \A k \in 1..Len(t) : (s \o t)[Len(s) + k] = t[k]
  BY <1>1, Concat
<1>3. IsSequence(s \o t)
  BY <1>2, OwnElements
<1>4. QED
  BY <1>2, <1>3

(* What holds of a value and is kept by each step holds of all.            *)
LEMMA ForwardDefined ==
  ASSUME NEW n \in Nat, NEW S, NEW first \in S, NEW step, NEW f,
         step \in [(1..n) \X S -> S],
         f = [i \in 1 .. n + 1 |-> f[i]], f[1] = first,
         \A i \in 1..n : f[i] \in S => f[i + 1] = step[<<i, f[i]>>]
  PROVE  IsForward(f, n, S, first, step)
<1> DEFINE T == {m \in Nat : m <= n => f[m + 1] \in S}
<1>1. 0 \in T
  OBVIOUS
<1>2. ASSUME NEW m \in T PROVE m + 1 \in T
  <2>1. m \in Nat /\ (m <= n => f[m + 1] \in S)
    OBVIOUS
  <2> SUFFICES ASSUME m + 1 <= n PROVE f[m + 1 + 1] \in S
    BY <2>1
  <2>2. m + 1 \in 1..n /\ f[m + 1] \in S
    BY <2>1
  <2>3. f[m + 1 + 1] = step[<<m + 1, f[m + 1]>>]
    BY <2>2
  <2>4. <<m + 1, f[m + 1]>> \in (1..n) \X S
    BY <2>2
  <2>5. QED
    BY <2>3, <2>4
<1>3. T \subseteq Nat
  OBVIOUS
<1> HIDE DEF T
<1>4. T = Nat
  BY <1>1, <1>2, <1>3, Induction
<1>5. ASSUME NEW i \in 1 .. n + 1 PROVE f[i] \in S
  <2>1. i - 1 \in T /\ i - 1 <= n /\ i - 1 + 1 = i
    BY <1>4
  <2>2. QED
    BY <2>1 DEF T
<1>6. f \in [1 .. n + 1 -> S]
  BY <1>5
<1>7. ASSUME NEW i \in 1..n PROVE f[i + 1] = step[<<i, f[i]>>]
  <2>1. f[i] \in S
    BY <1>5
  <2>2. QED
    BY <2>1
<1>8. QED
  BY <1>6, <1>7 DEF IsForward

(* A sequence of sequences is flattened one after the other.               *)
LEMMA FlattenSteps ==
  ASSUME NEW S, NEW seqs \in Seq(Seq(S)), Len(seqs) # 0
  PROVE  \E f : /\ f \in [1..Len(seqs) -> Seq(S)]
                /\ f[1] = seqs[1]
                /\ \A i \in 1 .. Len(seqs) - 1 : f[i + 1] = f[i] \o seqs[i + 1]
                /\ FlattenSeq(seqs) = f[Len(seqs)]
<1> DEFINE n == Len(seqs) - 1
           step == [x \in (1..n) \X Seq(S) |-> x[2] \o seqs[x[1] + 1]]
           Good(f) == f = [i \in 1..Len(seqs) |-> IF i = 1 THEN seqs[i] ELSE f[i - 1] \o seqs[i]]
           h == CHOOSE f : Good(f)
<1>1. /\ n \in Nat /\ Len(seqs) = n + 1
      /\ \A i \in 1 .. n + 1 : seqs[i] \in Seq(S)
  BY LenProperties, ElementOfSeq
<1> HIDE DEF n
<1>2. step \in [(1..n) \X Seq(S) -> Seq(S)]
  <2> SUFFICES ASSUME NEW x \in (1..n) \X Seq(S) PROVE x[2] \o seqs[x[1] + 1] \in Seq(S)
    OBVIOUS
  <2>1. x[2] \in Seq(S) /\ x[1] + 1 \in 1 .. n + 1
    BY <1>1
  <2>2. seqs[x[1] + 1] \in Seq(S)
    BY <1>1, <2>1
  <2>3. QED
    BY <2>1, <2>2, Concat
<1>3. \A i \in 1..n : \A v \in Seq(S) : step[<<i, v>>] = v \o seqs[i + 1]
  OBVIOUS
<1>4. seqs[1] \in Seq(S)
  BY <1>1
<1> HIDE DEF step
<1>5. PICK g : IsForward(g, n, Seq(S), seqs[1], step)
  BY <1>1, <1>2, <1>4, ForwardRecursion, Zenon
<1>6. /\ g \in [1 .. n + 1 -> Seq(S)] /\ g[1] = seqs[1]
      /\ \A i \in 1..n : g[i + 1] = step[<<i, g[i]>>]
  BY <1>5 DEF IsForward
<1>7. ASSUME NEW i \in 1..n PROVE g[i + 1] = g[i] \o seqs[i + 1]
  <2>1. g[i] \in Seq(S)
    BY <1>1, <1>6
  <2>2. QED
    BY <1>3, <1>6, <2>1
<1>8. Good(g)
  <2>1. ASSUME NEW i \in 1 .. n + 1
        PROVE  g[i] = IF i = 1 THEN seqs[i] ELSE g[i - 1] \o seqs[i]
    <3>1. CASE i = 1
      BY <1>6, <3>1
    <3>2. CASE i # 1
      <4>1. i - 1 \in 1..n /\ i - 1 + 1 = i
        BY <1>1, <3>2
      <4>2. g[i - 1 + 1] = g[i - 1] \o seqs[i - 1 + 1]
        BY <1>7, <4>1
      <4>3. QED
        BY <3>2, <4>1, <4>2
    <3>3. QED
      BY <3>1, <3>2
  <2>2. g = [i \in 1 .. n + 1 |-> g[i]]
    BY <1>6
  <2>3. QED
    BY <1>1, <2>1, <2>2
<1>9. Good(h)
  <2>1. \E f : Good(f)
    BY <1>8
  <2> HIDE DEF Good
  <2>2. QED
    BY <2>1
<1>10. \A i \in 1 .. n + 1 : h[i] = IF i = 1 THEN seqs[i] ELSE h[i - 1] \o seqs[i]
  <2> HIDE DEF h
  <2>1. QED
    BY <1>1, <1>9, Zenon
<1>11. h = [i \in 1 .. n + 1 |-> h[i]]
  <2> HIDE DEF h
  <2>1. QED
    BY <1>1, <1>9
<1>12. FlattenSeq(seqs) = h[Len(seqs)]
  BY Zenon DEF FlattenSeq
<1> HIDE DEF h
<1>13. h[1] = seqs[1]
  BY <1>1, <1>10
<1>14. ASSUME NEW i \in 1..n PROVE h[i + 1] = h[i] \o seqs[i + 1]
  <2> DEFINE j == i + 1
  <2>1. j \in 1 .. n + 1 /\ j # 1 /\ j - 1 = i
    BY <1>1
  <2> HIDE DEF j
  <2>2. h[j] = h[j - 1] \o seqs[j]
    BY <1>10, <2>1, Zenon
  <2>3. QED
    BY <2>1, <2>2, Zenon DEF j
<1>15. \A i \in 1..n : h[i] \in Seq(S) => h[i + 1] = step[<<i, h[i]>>]
  BY <1>3, <1>14
<1>16. IsForward(h, n, Seq(S), seqs[1], step)
  BY <1>1, <1>2, <1>4, <1>11, <1>13, <1>15, ForwardDefined
<1>17. h \in [1 .. n + 1 -> Seq(S)]
  BY <1>16 DEF IsForward
<1>18. Len(seqs) - 1 = n
  BY <1>1
<1>19. QED
  BY <1>1, <1>12, <1>13, <1>14, <1>17, <1>18

(* The elements stay.                                                      *)
LEMMA FlattenType ==
  ASSUME NEW S, NEW seqs \in Seq(Seq(S))
  PROVE  FlattenSeq(seqs) \in Seq(S)
<1>1. Len(seqs) \in Nat
  BY LenProperties
<1>2. CASE Len(seqs) = 0
  <2>1. seqs = <<>> /\ FlattenSeq(seqs) = seqs
    BY <1>2 DEF FlattenSeq
  <2>2. <<>> \in Seq(S)
    OBVIOUS
  <2>3. QED
    BY <2>1, <2>2
<1>3. CASE Len(seqs) # 0
  <2>1. PICK f : /\ f \in [1..Len(seqs) -> Seq(S)]
                 /\ FlattenSeq(seqs) = f[Len(seqs)]
    BY <1>3, FlattenSteps
  <2>2. Len(seqs) \in 1..Len(seqs)
    BY <1>1, <1>3
  <2>3. QED
    BY <2>1, <2>2
<1>4. QED
  BY <1>2, <1>3

(* When all are of one length, the whole has it so many times.             *)
LEMMA FlattenLength ==
  ASSUME NEW S, NEW seqs \in Seq(Seq(S)), NEW m \in Nat,
         \A i \in 1..Len(seqs) : Len(seqs[i]) = m
  PROVE  Len(FlattenSeq(seqs)) = m * Len(seqs)
<1>1. Len(seqs) \in Nat /\ \A i \in 1..Len(seqs) : seqs[i] \in Seq(S)
  BY LenProperties, ElementOfSeq
<1>2. CASE Len(seqs) = 0
  <2>1. seqs = <<>> /\ FlattenSeq(seqs) = seqs
    BY <1>2 DEF FlattenSeq
  <2>2. QED
    BY <1>2, <2>1
<1>3. CASE Len(seqs) # 0
  <2>1. PICK f : /\ f \in [1..Len(seqs) -> Seq(S)]
                 /\ f[1] = seqs[1]
                 /\ \A i \in 1 .. Len(seqs) - 1 : f[i + 1] = f[i] \o seqs[i + 1]
                 /\ FlattenSeq(seqs) = f[Len(seqs)]
    BY <1>3, FlattenSteps
  <2> DEFINE T == {k \in Nat : k < Len(seqs) => Len(f[k + 1]) = m * (k + 1)}
  <2>2. 0 \in T
    BY <1>1, <1>3, <2>1
  <2>3. ASSUME NEW k \in T PROVE k + 1 \in T
    <3>1. k \in Nat /\ (k < Len(seqs) => Len(f[k + 1]) = m * (k + 1))
      OBVIOUS
    <3> SUFFICES ASSUME k + 1 < Len(seqs) PROVE Len(f[k + 1 + 1]) = m * (k + 1 + 1)
      BY <3>1
    <3>2. /\ k + 1 \in 1 .. Len(seqs) - 1 /\ k + 1 \in 1..Len(seqs) /\ k + 1 + 1 \in 1..Len(seqs)
          /\ k < Len(seqs)
      BY <1>1, <3>1
    <3>3. f[k + 1 + 1] = f[k + 1] \o seqs[k + 1 + 1]
      BY <2>1, <3>2
    <3>4. f[k + 1] \in Seq(S) /\ seqs[k + 1 + 1] \in Seq(S)
      BY <1>1, <2>1, <3>2
    <3>5. Len(f[k + 1] \o seqs[k + 1 + 1]) = Len(f[k + 1]) + Len(seqs[k + 1 + 1])
      BY <3>4, Concat
    <3>6. m * (k + 1) + m = m * (k + 1 + 1)
      BY <3>1
    <3>7. Len(f[k + 1]) = m * (k + 1) /\ Len(seqs[k + 1 + 1]) = m
      BY <3>1, <3>2
    <3>8. QED
      BY <3>3, <3>5, <3>6, <3>7
  <2>4. T \subseteq Nat
    OBVIOUS
  <2> HIDE DEF T
  <2>5. T = Nat
    BY <2>2, <2>3, <2>4, Induction
  <2>6. Len(seqs) - 1 \in T /\ Len(seqs) - 1 < Len(seqs) /\ Len(seqs) - 1 + 1 = Len(seqs)
    BY <1>1, <1>3, <2>5
  <2>7. QED
    BY <2>1, <2>6 DEF T
<1>4. QED
  BY <1>2, <1>3

(* Pairs: where each of them is.                                           *)
LEMMA FlattenPairs ==
  ASSUME NEW S, NEW seqs \in Seq(Seq(S)), \A i \in 1..Len(seqs) : Len(seqs[i]) = 2
  PROVE  /\ FlattenSeq(seqs) \in Seq(S) /\ Len(seqs) \in Nat
         /\ Len(FlattenSeq(seqs)) = 2 * Len(seqs)
         /\ \A i \in 1..Len(seqs) : /\ FlattenSeq(seqs)[2 * i - 1] = seqs[i][1]
                                    /\ FlattenSeq(seqs)[2 * i] = seqs[i][2]
<1>1. Len(seqs) \in Nat /\ \A i \in 1..Len(seqs) : seqs[i] \in Seq(S)
  BY LenProperties, ElementOfSeq
<1>2. FlattenSeq(seqs) \in Seq(S) /\ Len(FlattenSeq(seqs)) = 2 * Len(seqs)
  BY FlattenType, FlattenLength
<1>3. ASSUME Len(seqs) # 0, NEW i \in 1..Len(seqs)
      PROVE  FlattenSeq(seqs)[2 * i - 1] = seqs[i][1] /\ FlattenSeq(seqs)[2 * i] = seqs[i][2]
  <2>1. PICK f : /\ f \in [1..Len(seqs) -> Seq(S)]
                 /\ f[1] = seqs[1]
                 /\ \A j \in 1 .. Len(seqs) - 1 : f[j + 1] = f[j] \o seqs[j + 1]
                 /\ FlattenSeq(seqs) = f[Len(seqs)]
    BY <1>3, FlattenSteps
  <2> DEFINE Has2(k) == /\ Len(f[k]) = 2 * k
                        /\ \A j \in 1..k : f[k][2 * j - 1] = seqs[j][1] /\ f[k][2 * j] = seqs[j][2]
             T == {k \in Nat : k < Len(seqs) => Has2(k + 1)}
  <2>2. 0 \in T
    <3>1. Len(f[1]) = 2 /\ f[1] = seqs[1]
      BY <1>1, <1>3, <2>1
    <3>2. Has2(1)
      BY <3>1
    <3> HIDE DEF Has2
    <3>3. QED
      BY <3>2
  <2>3. ASSUME NEW k \in T PROVE k + 1 \in T
    <3>1. k \in Nat /\ (k < Len(seqs) => Has2(k + 1))
      OBVIOUS
    <3> SUFFICES ASSUME k + 1 < Len(seqs) PROVE Has2(k + 1 + 1)
      BY <3>1
    <3>2. /\ k + 1 \in 1 .. Len(seqs) - 1 /\ k + 1 \in 1..Len(seqs) /\ k + 1 + 1 \in 1..Len(seqs)
          /\ k < Len(seqs) /\ k + 1 + 1 = k + 2
      BY <1>1, <3>1, SMTT(30)
    <3>3. f[k + 2] = f[k + 1] \o seqs[k + 2]
      BY <2>1, <3>2
    <3>4. f[k + 1] \in Seq(S) /\ seqs[k + 2] \in Seq(S) /\ Len(seqs[k + 2]) = 2
      BY <1>1, <2>1, <3>2
    <3>5. Len(f[k + 1]) = 2 * (k + 1)
          /\ \A j \in 1 .. k + 1 : f[k + 1][2 * j - 1] = seqs[j][1] /\ f[k + 1][2 * j] = seqs[j][2]
      BY <3>1, <3>2
    <3> DEFINE old == f[k + 1]
               new == f[k + 2]
               w == seqs[k + 2]
    <3>6. /\ Len(new) = Len(old) + 2
          /\ \A x \in 1..Len(old) : new[x] = old[x]
          /\ \A x \in 1..Len(w) : new[Len(old) + x] = w[x]
      <4>1. old \in Seq(S) /\ w \in Seq(S) /\ Len(w) = 2 /\ new = old \o w
        BY <3>3, <3>4
      <4> HIDE DEF old, new, w
      <4>2. old \in Seq(S) /\ w \in Seq(S)
        BY <4>1
      <4>3. ASSUME NEW a \in Seq(S), NEW b \in Seq(S)
            PROVE  /\ Len(a \o b) = Len(a) + Len(b)
                   /\ \A x \in 1..Len(a) : (a \o b)[x] = a[x]
                   /\ \A x \in 1..Len(b) : (a \o b)[Len(a) + x] = b[x]
        BY Concat
      <4>4. /\ Len(old \o w) = Len(old) + Len(w)
            /\ \A x \in 1..Len(old) : (old \o w)[x] = old[x]
            /\ \A x \in 1..Len(w) : (old \o w)[Len(old) + x] = w[x]
        BY <4>2, <4>3
      <4>5. QED
        BY <4>1, <4>4, Zenon
    <3> HIDE DEF old, new, w
    <3>7. ASSUME NEW j \in 1 .. k + 2
          PROVE  new[2 * j - 1] = seqs[j][1] /\ new[2 * j] = seqs[j][2]
      <4>1. CASE j = k + 2
        <5>1. /\ 2 * j - 1 = Len(old) + 1 /\ 2 * j = Len(old) + 2 /\ Len(w) = 2
              /\ w = seqs[j]
          BY <3>1, <3>4, <3>5, <4>1 DEF old, w
        <5>2. 1 \in 1..Len(w) /\ 2 \in 1..Len(w)
          BY <5>1
        <5>3. QED
          BY <3>6, <5>1, <5>2
      <4>2. CASE j # k + 2
        <5>1. j \in 1 .. k + 1 /\ 2 * j - 1 \in 1..Len(old) /\ 2 * j \in 1..Len(old)
          BY <3>1, <3>5, <4>2 DEF old
        <5>2. old[2 * j - 1] = seqs[j][1] /\ old[2 * j] = seqs[j][2]
          BY <3>5, <5>1 DEF old
        <5>3. QED
          BY <3>6, <5>1, <5>2
      <4>3. QED
        BY <4>1, <4>2
    <3>8. Len(new) = 2 * (k + 2)
      BY <3>1, <3>5, <3>6 DEF old
    <3>9. QED
      BY <3>2, <3>7, <3>8 DEF new
  <2>4. T \subseteq Nat
    OBVIOUS
  <2> HIDE DEF T
  <2>5. T = Nat
    BY <2>2, <2>3, <2>4, Induction
  <2>6. Len(seqs) - 1 \in T /\ Len(seqs) - 1 < Len(seqs) /\ Len(seqs) - 1 + 1 = Len(seqs)
    BY <1>1, <1>3, <2>5
  <2>7. Has2(Len(seqs))
    BY <2>6 DEF T
  <2>8. QED
    BY <2>1, <2>7
<1>4. ASSUME NEW i \in 1..Len(seqs)
      PROVE  FlattenSeq(seqs)[2 * i - 1] = seqs[i][1] /\ FlattenSeq(seqs)[2 * i] = seqs[i][2]
  <2>1. Len(seqs) # 0
    BY <1>1
  <2>2. QED
    BY <1>3, <2>1
<1>5. QED
  BY <1>1, <1>2, <1>4

-----------------------------------------------------------------------------
(* Files that grow.                                                        *)

(* e has what d has, where d has it.                                       *)
Grown(d, e) ==
  /\ IsImage(d) /\ IsImage(e)
  /\ Len(d.out) <= Len(e.out) /\ \A k \in 1..Len(d.out) : e.out[k] = d.out[k]
  /\ Len(d.region) <= Len(e.region) /\ \A k \in 1..Len(d.region) : e.region[k] = d.region[k]

(* What an image's parts are.                                              *)
LEMMA ImageType ==
  ASSUME NEW d, IsImage(d), job.base \in Nat
  PROVE  Len(d.out) \in Nat /\ Len(d.region) \in Nat /\ d.addr \in Nat
<1>1. d.out \in Seq(ToSet(d.out)) /\ d.region \in Seq(ToSet(d.region))
  BY Zenon DEF IsImage, IsSequence
<1>2. Len(d.out) \in Nat /\ Len(d.region) \in Nat
  BY <1>1, LenProperties
<1>3. d.addr = job.base + Len(d.out)
  BY Zenon DEF IsImage
<1>4. QED
  BY <1>2, <1>3

(* What the parts of a file that grows are.                                *)
LEMMA GrownTypes ==
  ASSUME NEW d, NEW e, Grown(d, e), job.base \in Nat
  PROVE  /\ Len(d.out) \in Nat /\ Len(d.region) \in Nat /\ d.addr \in Nat
         /\ Len(e.out) \in Nat /\ Len(e.region) \in Nat /\ e.addr \in Nat
         /\ Len(d.out) <= Len(e.out) /\ Len(d.region) <= Len(e.region) /\ d.addr <= e.addr
         /\ d.addr = job.base + Len(d.out) /\ e.addr = job.base + Len(e.out)
<1>1. IsImage(d) /\ IsImage(e) /\ Len(d.out) <= Len(e.out) /\ Len(d.region) <= Len(e.region)
  BY Zenon DEF Grown
<1>2. d.addr = job.base + Len(d.out) /\ e.addr = job.base + Len(e.out)
  BY <1>1, Zenon DEF IsImage
<1>3. Len(d.out) \in Nat /\ Len(d.region) \in Nat /\ Len(e.out) \in Nat /\ Len(e.region) \in Nat
  BY <1>1, ImageType
<1>4. QED
  BY <1>1, <1>2, <1>3

(* A file grows to itself,                                                 *)
LEMMA GrownSelf ==
  ASSUME NEW d, IsImage(d), job.base \in Nat
  PROVE  Grown(d, d)
<1>1. Len(d.out) \in Nat /\ Len(d.region) \in Nat
  BY ImageType
<1>2. QED
  BY <1>1 DEF Grown

(* and step by step.                                                       *)
LEMMA GrownOn ==
  ASSUME NEW d, NEW e, NEW f, Grown(d, e), Grown(e, f), job.base \in Nat
  PROVE  Grown(d, f)
<1>1. /\ Len(d.out) \in Nat /\ Len(d.region) \in Nat
      /\ Len(e.out) \in Nat /\ Len(e.region) \in Nat
      /\ Len(f.out) \in Nat /\ Len(f.region) \in Nat
  BY GrownTypes
<1>2. /\ IsImage(d) /\ IsImage(f)
      /\ Len(d.out) <= Len(e.out) /\ \A k \in 1..Len(d.out) : e.out[k] = d.out[k]
      /\ Len(d.region) <= Len(e.region) /\ \A k \in 1..Len(d.region) : e.region[k] = d.region[k]
      /\ Len(e.out) <= Len(f.out) /\ \A k \in 1..Len(e.out) : f.out[k] = e.out[k]
      /\ Len(e.region) <= Len(f.region) /\ \A k \in 1..Len(e.region) : f.region[k] = e.region[k]
  BY Zenon DEF Grown
<1>3. Len(d.out) <= Len(f.out) /\ Len(d.region) <= Len(f.region)
  BY <1>1, <1>2
<1>4. ASSUME NEW k \in 1..Len(d.out) PROVE f.out[k] = d.out[k]
  <2>1. k \in 1..Len(e.out)
    BY <1>1, <1>2
  <2>2. QED
    BY <1>2, <2>1, Zenon
<1>5. ASSUME NEW k \in 1..Len(d.region) PROVE f.region[k] = d.region[k]
  <2>1. k \in 1..Len(e.region)
    BY <1>1, <1>2
  <2>2. QED
    BY <1>2, <2>1, Zenon
<1>6. QED
  BY <1>2, <1>3, <1>4, <1>5, Zenon DEF Grown

(* What stands in a file stands in whatever keeps the bytes behind its     *)
(* header.                                                                 *)
Keeps(d, e) ==
  /\ IsImage(d) /\ IsImage(e)
  /\ Len(d.out) <= Len(e.out) /\ \A k \in 61..Len(d.out) : e.out[k] = d.out[k]
  /\ Len(d.region) <= Len(e.region) /\ \A k \in 1..Len(d.region) : e.region[k] = d.region[k]

(* What the parts of a file that keeps its bytes are.                      *)
LEMMA KeptTypes ==
  ASSUME NEW d, NEW e, Keeps(d, e), job.base \in Nat
  PROVE  /\ Len(d.out) \in Nat /\ Len(d.region) \in Nat /\ d.addr \in Nat
         /\ Len(e.out) \in Nat /\ Len(e.region) \in Nat /\ e.addr \in Nat
         /\ Len(d.out) <= Len(e.out) /\ Len(d.region) <= Len(e.region) /\ d.addr <= e.addr
<1>1. IsImage(d) /\ IsImage(e) /\ Len(d.out) <= Len(e.out) /\ Len(d.region) <= Len(e.region)
  BY Zenon DEF Keeps
<1>2. d.addr = job.base + Len(d.out) /\ e.addr = job.base + Len(e.out)
  BY <1>1, Zenon DEF IsImage
<1>3. Len(d.out) \in Nat /\ Len(d.region) \in Nat /\ Len(e.out) \in Nat /\ Len(e.region) \in Nat
  BY <1>1, ImageType
<1>4. QED
  BY <1>1, <1>2, <1>3

(* A file that grows keeps its bytes.                                      *)
LEMMA GrownKeeps ==
  ASSUME NEW d, NEW e, Grown(d, e), job.base \in Nat
  PROVE  Keeps(d, e)
<1>1. \A k \in 61..Len(d.out) : k \in 1..Len(d.out)
  BY GrownTypes
<1>2. QED
  BY <1>1, Zenon DEF Grown, Keeps

(* Bytes that stand in a file that keeps them still stand there,           *)
LEMMA StandsKept ==
  ASSUME NEW d, NEW e, Keeps(d, e), job.base \in Nat, NEW a, NEW b, Stands(d, a, b)
  PROVE  Stands(e, a, b)
<1> DEFINE from == a - job.base
<1>1. /\ IsSequence(b) /\ from \in 60 .. Len(d.out) - Len(b)
      /\ \A k \in 1..Len(b) : d.out[from + k] = b[k]
  BY Zenon DEF Stands
<1>2. Len(b) \in Nat
  BY <1>1, LenProperties DEF IsSequence
<1>3. Len(d.out) \in Nat /\ Len(e.out) \in Nat /\ Len(d.out) <= Len(e.out)
  BY KeptTypes
<1>4. \A k \in 61..Len(d.out) : e.out[k] = d.out[k]
  BY Zenon DEF Keeps
<1> HIDE DEF from
<1>5. ASSUME NEW k \in 1..Len(b) PROVE e.out[from + k] = b[k]
  <2>1. from + k \in 61..Len(d.out)
    BY <1>1, <1>2, <1>3
  <2>2. QED
    BY <1>1, <1>4, <2>1, Zenon
<1>6. from \in 60 .. Len(e.out) - Len(b)
  BY <1>1, <1>2, <1>3
<1>7. QED
  BY <1>1, <1>5, <1>6, Zenon DEF Stands, from

(* so do those in format 2's region,                                       *)
LEMMA InStreamKept ==
  ASSUME NEW d, NEW e, Keeps(d, e), job.base \in Nat, NEW a, NEW b, InStream(d, a, b)
  PROVE  InStream(e, a, b)
<1>1. /\ IsSequence(b) /\ a \in 0 .. Len(d.region) - Len(b)
      /\ \A k \in 1..Len(b) : d.region[a + k] = b[k]
  BY Zenon DEF InStream
<1>2. Len(b) \in Nat
  BY <1>1, LenProperties DEF IsSequence
<1>3. Len(d.region) \in Nat /\ Len(e.region) \in Nat /\ Len(d.region) <= Len(e.region)
  BY KeptTypes
<1>4. \A k \in 1..Len(d.region) : e.region[k] = d.region[k]
  BY Zenon DEF Keeps
<1>5. ASSUME NEW k \in 1..Len(b) PROVE e.region[a + k] = b[k]
  <2>1. a + k \in 1..Len(d.region)
    BY <1>1, <1>2, <1>3
  <2>2. QED
    BY <1>1, <1>4, <2>1, Zenon
<1>6. a \in 0 .. Len(e.region) - Len(b)
  BY <1>1, <1>2, <1>3
<1>7. QED
  BY <1>1, <1>5, <1>6, Zenon DEF InStream

(* a word still leads to its bytes,                                        *)
LEMMA LeadsKept ==
  ASSUME NEW d, NEW e, Keeps(d, e), job.base \in Nat, NEW a, NEW b, Leads(d, a, b)
  PROVE  Leads(e, a, b)
<1>1. PICK to \in job.base..d.addr : Stands(d, a, Word(to)) /\ Stands(d, to, b)
  BY Zenon DEF Leads
<1>2. to \in job.base..e.addr
  BY KeptTypes
<1>3. Stands(e, a, Word(to)) /\ Stands(e, to, b)
  BY <1>1, StandsKept
<1>4. QED
  BY <1>2, <1>3, Zenon DEF Leads

(* also where they are in the region,                                      *)
LEMMA LeadsInStreamKept ==
  ASSUME NEW d, NEW e, Keeps(d, e), job.base \in Nat, NEW a, NEW b, LeadsInStream(d, a, b)
  PROVE  LeadsInStream(e, a, b)
<1>1. PICK at \in 0..Len(d.region) : Stands(d, a, Word(at)) /\ InStream(d, at, b)
  BY Zenon DEF LeadsInStream
<1>2. at \in 0..Len(e.region)
  BY KeptTypes
<1>3. Stands(e, a, Word(at)) /\ InStream(e, at, b)
  BY <1>1, StandsKept, InStreamKept
<1>4. QED
  BY <1>2, <1>3, Zenon DEF LeadsInStream

(* So does every table.                                                    *)
LEMMA TableKept ==
  ASSUME NEW d, NEW e, Keeps(d, e), job.base \in Nat,
         NEW k \in 0..11, NEW a, TableStands(d, k, a)
  PROVE  TableStands(e, k, a)
<1>1. ASSUME NEW t, TextsStand(d, t, a) PROVE TextsStand(e, t, a)
  <2> SUFFICES ASSUME NEW i \in DOMAIN loaded[t]
               PROVE  IF job.text2 THEN LeadsInStream(e, a + 2 * (i - 1), Items(t)[i])
                      ELSE Leads(e, a + 2 * (i - 1), Items(t)[i])
    BY Zenon DEF TextsStand
  <2>1. IF job.text2 THEN LeadsInStream(d, a + 2 * (i - 1), Items(t)[i])
        ELSE Leads(d, a + 2 * (i - 1), Items(t)[i])
    BY <1>1, Zenon DEF TextsStand
  <2>2. QED
    BY <2>1, LeadsKept, LeadsInStreamKept, Zenon
<1>2. ASSUME ProcessesStand(d, a) PROVE ProcessesStand(e, a)
  <2>1. ASSUME NEW i \in 1..job.processes PROVE Leads(e, a + 2 * (i - 1), <<0>>)
    <3>1. Leads(d, a + 2 * (i - 1), <<0>>)
      BY <1>2, Zenon DEF ProcessesStand
    <3>2. QED
      BY <3>1, LeadsKept, Zenon
  <2>2. ASSUME NEW i \in 2..job.processes
        PROVE  \E to \in job.base..e.addr : \E before \in job.base .. to - 1 :
                 /\ Stands(e, a + 2 * (i - 2), Word(before))
                 /\ Stands(e, a + 2 * (i - 1), Word(to))
    <3>1. PICK to \in job.base..d.addr : \E before \in job.base .. to - 1 :
                 /\ Stands(d, a + 2 * (i - 2), Word(before))
                 /\ Stands(d, a + 2 * (i - 1), Word(to))
      BY <1>2, Zenon DEF ProcessesStand
    <3>2. PICK before \in job.base .. to - 1 :
                 /\ Stands(d, a + 2 * (i - 2), Word(before))
                 /\ Stands(d, a + 2 * (i - 1), Word(to))
      BY <3>1
    <3>3. to \in job.base..e.addr
      BY KeptTypes
    <3>4. /\ Stands(e, a + 2 * (i - 2), Word(before))
          /\ Stands(e, a + 2 * (i - 1), Word(to))
      BY <3>2, StandsKept, Zenon
    <3>5. QED
      BY <3>3, <3>4, Zenon
  <2>3. QED
    BY <2>1, <2>2, Zenon DEF ProcessesStand
<1>3. CASE k = 0
  <2>1. IF job.hasTokens /\ ~job.text2 THEN Stands(d, a, TokenBytes) ELSE a = 0
    BY <1>3 DEF TableStands
  <2>2. IF job.hasTokens /\ ~job.text2 THEN Stands(e, a, TokenBytes) ELSE a = 0
    BY <2>1, StandsKept, Zenon
  <2>3. QED
    BY <1>3, <2>2 DEF TableStands
<1>4. CASE k = 1
  BY <1>2, <1>4 DEF TableStands
<1>5. CASE k \in {2, 3, 4, 5}
  <2>1. ASSUME NEW t, TableStands(d, k, a) <=> TextsStand(d, t, a),
               TableStands(e, k, a) <=> TextsStand(e, t, a)
        PROVE  TableStands(e, k, a)
    BY <1>1, <2>1
  <2>2. CASE k = 2
    BY <2>1, <2>2 DEF TableStands
  <2>3. CASE k = 3
    BY <2>1, <2>3 DEF TableStands
  <2>4. CASE k = 4
    BY <2>1, <2>4 DEF TableStands
  <2>5. CASE k = 5
    BY <2>1, <2>5 DEF TableStands
  <2>6. QED
    BY <1>5, <2>2, <2>3, <2>4, <2>5
<1>6. CASE k = 6
  <2>1. \A i \in DOMAIN Exits : Leads(d, a + 2 * (i - 1), Exits[i])
    BY <1>6 DEF TableStands
  <2>2. \A i \in DOMAIN Exits : Leads(e, a + 2 * (i - 1), Exits[i])
    BY <2>1, LeadsKept, Zenon
  <2>3. QED
    BY <1>6, <2>2 DEF TableStands
<1>7. CASE k \in {7, 8, 9, 10}
  <2>1. ASSUME NEW b, TableStands(d, k, a) <=> Stands(d, a, b),
               TableStands(e, k, a) <=> Stands(e, a, b)
        PROVE  TableStands(e, k, a)
    BY <2>1, StandsKept
  <2>2. CASE k = 7
    BY <2>1, <2>2 DEF TableStands
  <2>3. CASE k = 8
    BY <2>1, <2>3 DEF TableStands
  <2>4. CASE k = 9
    BY <2>1, <2>4 DEF TableStands
  <2>5. CASE k = 10
    BY <2>1, <2>5 DEF TableStands
  <2>6. QED
    BY <1>7, <2>2, <2>3, <2>4, <2>5
<1>8. CASE k = 11
  <2>1. \A i \in DOMAIN objects : Stands(d, a + 2 * (i - 1), Word(objects[i].flags))
    BY <1>8 DEF TableStands
  <2>2. \A i \in DOMAIN objects : Stands(e, a + 2 * (i - 1), Word(objects[i].flags))
    BY <2>1, StandsKept, Zenon
  <2>3. QED
    BY <1>8, <2>2 DEF TableStands
<1>9. QED
  BY <1>3, <1>4, <1>5, <1>6, <1>7, <1>8

(* and so is what a vector leads to.                                       *)
LEMMA VectorKept ==
  ASSUME NEW d, NEW e, Keeps(d, e), job.base \in Nat,
         NEW k \in 0..2, NEW a, VectorStands(d, k, a)
  PROVE  VectorStands(e, k, a)
<1>1. /\ a \in 0..d.addr
      /\ (\A i \in DOMAIN job.externs : job.externs[i].type # k) => a = 0
      /\ \A i \in DOMAIN job.externs :
           job.externs[i].type = k /\ LastOfType(i) => Stands(d, a, job.externs[i].bytes)
  BY Zenon DEF VectorStands
<1>2. a \in 0..e.addr
  BY <1>1, KeptTypes
<1>3. QED
  BY <1>1, <1>2, StandsKept, Zenon DEF VectorStands

(* So it does in whatever the file grows to.                               *)
LEMMA StandsOn ==
  ASSUME NEW d, NEW e, Grown(d, e), job.base \in Nat, NEW a, NEW b, Stands(d, a, b)
  PROVE  Stands(e, a, b)
BY GrownKeeps, StandsKept, Zenon

(* in the region too,                                                      *)
LEMMA InStreamOn ==
  ASSUME NEW d, NEW e, Grown(d, e), job.base \in Nat, NEW a, NEW b, InStream(d, a, b)
  PROVE  InStream(e, a, b)
BY GrownKeeps, InStreamKept, Zenon

(* with the words that lead there,                                         *)
LEMMA LeadsOn ==
  ASSUME NEW d, NEW e, Grown(d, e), job.base \in Nat, NEW a, NEW b, Leads(d, a, b)
  PROVE  Leads(e, a, b)
BY GrownKeeps, LeadsKept, Zenon

(* and there,                                                              *)
LEMMA LeadsInStreamOn ==
  ASSUME NEW d, NEW e, Grown(d, e), job.base \in Nat, NEW a, NEW b, LeadsInStream(d, a, b)
  PROVE  LeadsInStream(e, a, b)
BY GrownKeeps, LeadsInStreamKept, Zenon

(* the tables,                                                             *)
LEMMA TableOn ==
  ASSUME NEW d, NEW e, Grown(d, e), job.base \in Nat,
         NEW k \in 0..11, NEW a, TableStands(d, k, a)
  PROVE  TableStands(e, k, a)
BY GrownKeeps, TableKept, Zenon

(* the externs,                                                            *)
LEMMA VectorOn ==
  ASSUME NEW d, NEW e, Grown(d, e), job.base \in Nat,
         NEW k \in 0..2, NEW a, VectorStands(d, k, a)
  PROVE  VectorStands(e, k, a)
BY GrownKeeps, VectorKept, Zenon

(* and the header.                                                         *)
LEMMA HeaderOn ==
  ASSUME NEW d, NEW e, Grown(d, e), job.base \in Nat, NEW v, HeaderStands(d, v)
  PROVE  HeaderStands(e, v)
<1>1. /\ Len(d.out) >= 60 /\ d.out[1] = v /\ d.out[2] = 16 * job.machine + job.lang
      /\ \A k \in 1..5 : d.out[3 + k] = Byte(Counts[k])
  BY Zenon DEF HeaderStands
<1>2. Len(d.out) \in Nat /\ Len(e.out) \in Nat /\ Len(d.out) <= Len(e.out)
  BY GrownTypes
<1>3. \A k \in 1..Len(d.out) : e.out[k] = d.out[k]
  BY Zenon DEF Grown
<1>4. Len(e.out) >= 60 /\ 1 \in 1..Len(d.out) /\ 2 \in 1..Len(d.out)
      /\ \A k \in 1..5 : 3 + k \in 1..Len(d.out)
  <2>1. Len(d.out) >= 60
    BY <1>1, Zenon
  <2>2. QED
    BY <1>2, <2>1
<1>5. \A k \in 1..5 : e.out[3 + k] = Byte(Counts[k])
  BY <1>1, <1>3, <1>4, Zenon
<1>6. e.out[1] = v /\ e.out[2] = 16 * job.machine + job.lang
  BY <1>1, <1>3, <1>4, Zenon
<1>7. QED
  BY <1>4, <1>5, <1>6, Zenon DEF HeaderStands

-----------------------------------------------------------------------------
(* What the emitters are made of.                                          *)

(* One sequence behind another.                                            *)
Joins(u, s, t) ==
  /\ IsSequence(u) /\ Len(u) = Len(s) + Len(t)
  /\ \A k \in 1..Len(s) : u[k] = s[k]
  /\ \A k \in 1..Len(t) : u[Len(s) + k] = t[k]

(* That is what concatenation does.                                        *)
LEMMA Joined ==
  ASSUME NEW s, IsSequence(s), NEW t, IsSequence(t), NEW u, u = s \o t
  PROVE  Joins(u, s, t)
<1>1. IsSequence(u) /\ Len(u) = Len(s) + Len(t)
  BY ConcatOwn
<1>2. \A k \in 1..Len(s) : u[k] = s[k]
  BY ConcatOwn
<1>3. \A k \in 1..Len(t) : u[Len(s) + k] = t[k]
  BY ConcatOwn
<1>4. QED
  BY <1>1, <1>2, <1>3 DEF Joins

(* Bytes pushed stand at the old end.                                      *)
LEMMA Pushed ==
  ASSUME NEW d, IsImage(d), job.base \in Nat, NEW bytes, IsSequence(bytes),
         NEW n, n = Len(bytes), NEW e, e = Push(d, bytes, n)
  PROVE  /\ Grown(d, e) /\ e.addr = d.addr + n /\ n \in Nat /\ e.region = d.region
         /\ Len(d.out) >= 60 => Stands(e, d.addr, bytes)
<1>1. /\ e.out = d.out \o bytes /\ e.addr = d.addr + n /\ e.region = d.region
  BY DEF Push
<1>2. IsSequence(d.out) /\ IsSequence(d.region) /\ d.addr = job.base + Len(d.out)
  BY Zenon DEF IsImage
<1>3. /\ IsSequence(e.out) /\ Len(d.out) \in Nat /\ n \in Nat
      /\ Len(e.out) = Len(d.out) + n
      /\ \A k \in 1..Len(d.out) : e.out[k] = d.out[k]
      /\ \A k \in 1..Len(bytes) : e.out[Len(d.out) + k] = bytes[k]
  <2>1. Joins(e.out, d.out, bytes)
    BY <1>1, <1>2, Joined, Zenon
  <2>2. Len(d.out) \in Nat /\ n \in Nat
    BY <1>2, LenProperties DEF IsSequence
  <2>3. QED
    BY <2>1, <2>2, Zenon DEF Joins
<1>4. Len(d.region) \in Nat
  BY <1>2, LenProperties DEF IsSequence
<1>5. e.addr = job.base + Len(e.out)
  <2>1. /\ e.addr = d.addr + n /\ d.addr = job.base + Len(d.out)
        /\ Len(e.out) = Len(d.out) + n /\ Len(d.out) \in Nat /\ n \in Nat
    BY <1>1, <1>2, <1>3, Zenon
  <2>2. PICK m \in Nat, l \in Nat, b \in Nat : m = n /\ l = Len(d.out) /\ b = job.base
    BY <2>1
  <2>3. d.addr = b + l /\ e.addr = d.addr + m /\ Len(e.out) = l + m
    BY <2>1, <2>2, Zenon
  <2>4. QED
    BY <2>2, <2>3, SMTT(30)
<1>6. IsImage(e)
  <2>1. e = [out |-> e.out, addr |-> e.addr, region |-> e.region]
    BY DEF Push
  <2>2. QED
    BY <1>1, <1>2, <1>3, <1>5, <2>1, Zenon DEF IsImage
<1>7. Grown(d, e)
  <2>1. Len(d.out) <= Len(e.out) /\ Len(d.region) <= Len(e.region)
    BY <1>1, <1>3, <1>4
  <2>2. \A k \in 1..Len(d.region) : e.region[k] = d.region[k]
    BY <1>1
  <2>3. QED
    BY <1>3, <1>6, <2>1, <2>2, Zenon DEF Grown
<1>8. ASSUME Len(d.out) >= 60 PROVE Stands(e, d.addr, bytes)
  <2>1. d.addr - job.base = Len(d.out) /\ Len(d.out) \in 60 .. Len(e.out) - Len(bytes)
    BY <1>2, <1>3, <1>8
  <2>2. QED
    BY <1>3, <2>1, Zenon DEF Stands
<1>9. QED
  BY <1>1, <1>3, <1>7, <1>8

(* Padding adds at most a byte, and ends at an even address.               *)
LEMMA Padded ==
  ASSUME NEW d, IsImage(d), job.base \in Nat
  PROVE  /\ Grown(d, Pad(d)) /\ Pad(d).region = d.region
         /\ job.padding => Pad(d).addr % 2 = 0
<1>1. d.addr \in Nat
  BY ImageType
<1>2. CASE job.padding /\ d.addr % 2 = 1
  <2> DEFINE e == Push(d, <<0>>, 1)
  <2>1. Pad(d) = e
    BY <1>2 DEF Pad
  <2>2. IsSequence(<<0>>) /\ Len(<<0>>) = 1
    <3>1. <<0>> \in Seq({0})
      OBVIOUS
    <3>2. QED
      BY <3>1, OwnElements
  <2> HIDE DEF e
  <2>3. Grown(d, e) /\ e.addr = d.addr + 1 /\ e.region = d.region
    <3>1. ASSUME NEW bytes, IsSequence(bytes), NEW n, n = Len(bytes), e = Push(d, bytes, n)
          PROVE  Grown(d, e) /\ e.addr = d.addr + n /\ e.region = d.region
      BY <3>1, Pushed
    <3>2. e = Push(d, <<0>>, 1)
      BY DEF e
    <3>3. 1 = Len(<<0>>)
      BY <2>2
    <3>4. QED
      BY <2>2, <3>1, <3>2, <3>3, Zenon
  <2>4. QED
    BY <1>1, <1>2, <2>1, <2>3
<1>3. CASE ~(job.padding /\ d.addr % 2 = 1)
  <2>1. Pad(d) = d
    BY <1>3 DEF Pad
  <2>2. job.padding => d.addr % 2 = 0
    BY <1>1, <1>3
  <2>3. QED
    BY <2>1, <2>2, GrownSelf
<1>4. QED
  BY <1>2, <1>3

(* Words as bytes, two of each.                                            *)
LEMMA WordBytes ==
  ASSUME NEW values, IsSequence(values),
         NEW bytes, bytes = FlattenSeq([i \in DOMAIN values |-> Word(values[i])])
  PROVE  /\ IsSequence(bytes) /\ Len(values) \in Nat /\ Len(bytes) = 2 * Len(values)
         /\ \A i \in 1..Len(values) :
              /\ IsSequence(Word(values[i])) /\ Len(Word(values[i])) = 2
              /\ bytes[2 * i - 1] = Word(values[i])[1] /\ bytes[2 * i] = Word(values[i])[2]
<1> DEFINE words == [i \in DOMAIN values |-> Word(values[i])]
           S == {Word(values[i])[1] : i \in 1..Len(values)}
                  \cup {Word(values[i])[2] : i \in 1..Len(values)}
<1>1. Len(values) \in Nat /\ DOMAIN values = 1..Len(values)
  BY LenProperties DEF IsSequence
<1>2. \A i \in 1..Len(values) : \E x, y : Word(values[i]) = <<x, y>>
  BY DEF Word
<1>3. /\ words \in Seq(Seq(S)) /\ Len(words) = Len(values)
      /\ \A i \in 1..Len(values) : /\ words[i] = Word(values[i])
                                   /\ Word(values[i]) \in Seq(S) /\ Len(Word(values[i])) = 2
  <2>1. ASSUME NEW i \in 1..Len(values)
        PROVE  Word(values[i]) \in Seq(S) /\ Len(Word(values[i])) = 2
    <3>1. PICK x, y : Word(values[i]) = <<x, y>>
      BY <1>2
    <3>2. Word(values[i])[1] = x /\ Word(values[i])[2] = y
      BY <3>1
    <3>3. x \in S /\ y \in S
      BY <3>2
    <3> HIDE DEF S
    <3>4. <<x, y>> \in Seq(S) /\ Len(<<x, y>>) = 2
      BY <3>3
    <3>5. QED
      BY <3>1, <3>4
  <2> HIDE DEF S
  <2>2. words \in [1..Len(values) -> Seq(S)]
    BY <1>1, <2>1
  <2>3. QED
    BY <1>1, <2>1, <2>2, LenProperties
<1> HIDE DEF words, S
<1>4. bytes = FlattenSeq(words)
  BY DEF words
<1>5. /\ bytes \in Seq(S) /\ Len(bytes) = 2 * Len(values)
      /\ \A i \in 1..Len(values) : /\ bytes[2 * i - 1] = words[i][1]
                                   /\ bytes[2 * i] = words[i][2]
  <2>1. \A i \in 1..Len(words) : Len(words[i]) = 2
    BY <1>3
  <2>2. /\ FlattenSeq(words) \in Seq(S) /\ Len(FlattenSeq(words)) = 2 * Len(words)
        /\ \A i \in 1..Len(words) : /\ FlattenSeq(words)[2 * i - 1] = words[i][1]
                                    /\ FlattenSeq(words)[2 * i] = words[i][2]
    BY <1>3, <2>1, FlattenPairs
  <2>3. QED
    BY <1>3, <1>4, <2>2
<1>6. \A i \in 1..Len(values) :
        /\ IsSequence(Word(values[i])) /\ Len(Word(values[i])) = 2
        /\ bytes[2 * i - 1] = Word(values[i])[1] /\ bytes[2 * i] = Word(values[i])[2]
  BY <1>3, <1>5, OwnElements
<1>7. IsSequence(bytes)
  BY <1>5, OwnElements
<1>8. QED
  BY <1>1, <1>5, <1>6, <1>7

(* Words written, each of two bytes.                                       *)
LEMMA WordsWritten ==
  ASSUME NEW d, IsImage(d), job.base \in Nat, NEW values, IsSequence(values),
         NEW e, e = Words(d, values)
  PROVE  /\ Grown(d, e) /\ Len(values) \in Nat /\ e.addr = d.addr + 2 * Len(values)
         /\ e.region = d.region
         /\ Len(d.out) >= 60 =>
              \A i \in 1..Len(values) : Stands(e, d.addr + 2 * (i - 1), Word(values[i]))
<1> DEFINE bytes == FlattenSeq([i \in DOMAIN values |-> Word(values[i])])
<1> HIDE DEF bytes
<1>1. bytes = FlattenSeq([i \in DOMAIN values |-> Word(values[i])])
  BY DEF bytes
<1>2. /\ IsSequence(bytes) /\ Len(values) \in Nat /\ Len(bytes) = 2 * Len(values)
      /\ \A i \in 1..Len(values) :
           /\ IsSequence(Word(values[i])) /\ Len(Word(values[i])) = 2
           /\ bytes[2 * i - 1] = Word(values[i])[1] /\ bytes[2 * i] = Word(values[i])[2]
  BY <1>1, WordBytes
<1>3. e = Push(d, bytes, 2 * Len(values))
  BY Zenon DEF Words, bytes
<1>4. /\ Grown(d, e) /\ e.addr = d.addr + 2 * Len(values) /\ e.region = d.region
      /\ Len(d.out) >= 60 => Stands(e, d.addr, bytes)
  <2>1. 2 * Len(values) = Len(bytes)
    BY <1>2
  <2>2. ASSUME NEW n, n = Len(bytes), e = Push(d, bytes, n)
        PROVE  /\ Grown(d, e) /\ e.addr = d.addr + n /\ e.region = d.region
               /\ Len(d.out) >= 60 => Stands(e, d.addr, bytes)
    BY <1>2, <2>2, Pushed
  <2>3. QED
    BY <1>3, <2>1, <2>2, Zenon
<1>5. ASSUME Len(d.out) >= 60, NEW i \in 1..Len(values)
      PROVE  Stands(e, d.addr + 2 * (i - 1), Word(values[i]))
  <2> DEFINE from == d.addr - job.base
             to == (d.addr + 2 * (i - 1)) - job.base
             w == Word(values[i])
  <2>1. /\ from \in 60 .. Len(e.out) - Len(bytes)
        /\ \A k \in 1..Len(bytes) : e.out[from + k] = bytes[k]
    BY <1>4, <1>5, Zenon DEF Stands
  <2>2. d.addr \in Nat /\ Len(e.out) \in Nat
    BY <1>4, GrownTypes
  <2>3. IsSequence(w) /\ Len(w) = 2
    BY <1>2
  <2>4. to = from + 2 * (i - 1)
    BY <2>2
  <2> HIDE DEF from, to, w
  <2>5. to \in 60 .. Len(e.out) - Len(w)
    BY <1>2, <2>1, <2>2, <2>3, <2>4
  <2>6. /\ 2 * i - 1 \in 1..Len(bytes) /\ 2 * i \in 1..Len(bytes)
        /\ to + 1 = from + (2 * i - 1) /\ to + 2 = from + 2 * i
    BY <1>2, <2>1, <2>2, <2>4
  <2>7. e.out[to + 1] = w[1] /\ e.out[to + 2] = w[2]
    <3>1. e.out[from + (2 * i - 1)] = bytes[2 * i - 1] /\ e.out[from + 2 * i] = bytes[2 * i]
      BY <2>1, <2>6, Zenon
    <3>2. bytes[2 * i - 1] = w[1] /\ bytes[2 * i] = w[2]
      BY <1>2 DEF w
    <3>3. QED
      BY <2>6, <3>1, <3>2
  <2>8. \A k \in 1..Len(w) : e.out[to + k] = w[k]
    BY <2>3, <2>7
  <2>9. QED
    BY <2>3, <2>5, <2>8, Zenon DEF Stands, to, w
<1>6. QED
  BY <1>2, <1>4, <1>5

-----------------------------------------------------------------------------
(* Items laid one after the other.                                         *)

(* A place noted behind those before it.                                   *)
LEMMA Noted ==
  ASSUME NEW at, IsSequence(at), NEW x
  PROVE  /\ IsSequence(Append(at, x)) /\ Len(at) \in Nat /\ Len(Append(at, x)) = Len(at) + 1
         /\ \A j \in 1..Len(at) : Append(at, x)[j] = at[j]
         /\ Append(at, x)[Len(at) + 1] = x
BY Appended DEF IsSequence

(* The first n items are laid: each where its place says, behind the one   *)
(* before it.                                                              *)
Rests(d, e, at, item, how) ==
  IF how = "region" THEN InStream(e, at, item)
  ELSE at \in d.addr..e.addr /\ Stands(e, at, item)
LaidOut(d, items, how, n, s) ==
  /\ Grown(d, s.db) /\ IsSequence(s.at) /\ Len(s.at) = n
  /\ IF how = "region" THEN s.db.out = d.out /\ s.db.addr = d.addr
     ELSE s.db.region = d.region
  /\ \A j \in 1..n : Rests(d, s.db, s.at[j], items[j], how)
  /\ how # "region" => \A j \in 2..n : s.at[j - 1] + Len(items[j - 1]) <= s.at[j]

(* One more, in the file.                                                  *)
LEMMA OneInFile ==
  ASSUME NEW d, job.base \in Nat, Len(d.out) >= 60,
         NEW items, NEW how \in {"plain", "padded"}, NEW n \in Nat, NEW s,
         LaidOut(d, items, how, n, s), IsSequence(items[n + 1]),
         NEW p, Grown(s.db, p), p.region = s.db.region,
         NEW e, e = InFile(p, s.at, items[n + 1])
  PROVE  LaidOut(d, items, how, n + 1, e)
<1> DEFINE item == items[n + 1]
<1>1. /\ Grown(d, s.db) /\ IsSequence(s.at) /\ Len(s.at) = n /\ s.db.region = d.region
      /\ \A j \in 1..n : s.at[j] \in d.addr..s.db.addr /\ Stands(s.db, s.at[j], items[j])
      /\ \A j \in 2..n : s.at[j - 1] + Len(items[j - 1]) <= s.at[j]
  BY DEF LaidOut, Rests
<1>2. Grown(d, p)
  BY <1>1, GrownOn
<1>3. /\ d.addr \in Nat /\ s.db.addr \in Nat /\ p.addr \in Nat
      /\ Len(d.out) \in Nat /\ Len(p.out) \in Nat
      /\ d.addr <= s.db.addr /\ s.db.addr <= p.addr /\ Len(d.out) <= Len(p.out)
  BY <1>1, <1>2, GrownTypes
<1>4. e.db = Push(p, item, Len(item)) /\ e.at = Append(s.at, p.addr)
  BY DEF InFile
<1>5. /\ Grown(p, e.db) /\ e.db.addr = p.addr + Len(item) /\ Len(item) \in Nat
      /\ e.db.region = p.region /\ Stands(e.db, p.addr, item)
  <2>1. IsImage(p)
    BY <1>2, Zenon DEF Grown
  <2>2. ASSUME NEW m, m = Len(item), NEW f, f = Push(p, item, m)
        PROVE  /\ Grown(p, f) /\ f.addr = p.addr + m /\ m \in Nat /\ f.region = p.region
               /\ Len(p.out) >= 60 => Stands(f, p.addr, item)
    BY <2>1, <2>2, Pushed
  <2>3. Len(p.out) >= 60
    BY <1>3
  <2>4. QED
    BY <1>4, <2>2, <2>3, Zenon
<1>6. Grown(d, e.db) /\ Grown(s.db, e.db)
  BY <1>2, <1>5, GrownOn
<1>7. /\ IsSequence(e.at) /\ Len(e.at) = n + 1
      /\ \A j \in 1..n : e.at[j] = s.at[j]
      /\ e.at[n + 1] = p.addr
  BY <1>1, <1>4, Noted
<1>8. e.db.region = d.region
  BY <1>1, <1>5
<1> HIDE DEF item
<1>9. ASSUME NEW j \in 1 .. n + 1
      PROVE  e.at[j] \in d.addr..e.db.addr /\ Stands(e.db, e.at[j], items[j])
  <2>1. CASE j = n + 1
    <3>1. p.addr \in d.addr..e.db.addr
      BY <1>3, <1>5
    <3>2. QED
      BY <1>5, <1>7, <2>1, <3>1 DEF item
  <2>2. CASE j # n + 1
    <3>1. j \in 1..n
      BY <2>2
    <3>2. s.at[j] \in d.addr..e.db.addr
      BY <1>1, <1>3, <1>5, <3>1, SMTT(30)
    <3>3. Stands(e.db, s.at[j], items[j])
      BY <1>1, <1>6, <3>1, StandsOn
    <3>4. QED
      BY <1>7, <3>1, <3>2, <3>3, Zenon
  <2>3. QED
    BY <2>1, <2>2
<1>10. ASSUME NEW j \in 2 .. n + 1 PROVE e.at[j - 1] + Len(items[j - 1]) <= e.at[j]
  <2>1. CASE j = n + 1
    <3>1. n \in 1..n /\ j - 1 = n
      BY <2>1
    <3>2. Stands(s.db, s.at[n], items[n]) /\ s.at[n] \in d.addr..s.db.addr
      BY <1>1, <3>1
    <3>3. IsSequence(items[n])
          /\ s.at[n] - job.base \in 60 .. Len(s.db.out) - Len(items[n])
      BY <3>2, Zenon DEF Stands
    <3>4. Len(items[n]) \in Nat
      BY <3>3, LenProperties DEF IsSequence
    <3>5. Len(s.db.out) \in Nat /\ s.db.addr = job.base + Len(s.db.out)
      BY <1>1, GrownTypes
    <3>6. s.at[n] \in Int
      BY <1>3, <3>2
    <3>7. s.at[n] + Len(items[n]) <= s.db.addr
      <4>1. ASSUME NEW a \in Int, NEW l \in Nat, NEW o \in Nat, NEW b \in Nat,
                   a - b \in 60 .. o - l
            PROVE  a + l <= b + o
        BY <4>1
      <4>2. QED
        BY <3>3, <3>4, <3>5, <3>6, <4>1
    <3>8. s.at[n] + Len(items[n]) <= p.addr
      BY <1>3, <3>4, <3>6, <3>7
    <3>9. e.at[n] = s.at[n] /\ e.at[n + 1] = p.addr
      BY <1>7, <3>1
    <3>10. QED
      BY <2>1, <3>1, <3>8, <3>9
  <2>2. CASE j # n + 1
    <3>1. j \in 2..n /\ j \in 1..n /\ j - 1 \in 1..n
      BY <2>2
    <3>2. e.at[j] = s.at[j] /\ e.at[j - 1] = s.at[j - 1]
      BY <1>7, <3>1
    <3>3. QED
      BY <1>1, <3>1, <3>2, Zenon
  <2>3. QED
    BY <2>1, <2>2
<1>11. how # "region"
  OBVIOUS
<1>12. \A j \in 1 .. n + 1 : Rests(d, e.db, e.at[j], items[j], how)
  BY <1>9, <1>11, Zenon DEF Rests
<1>13. QED
  BY <1>6, <1>7, <1>8, <1>10, <1>11, <1>12, Zenon DEF LaidOut

(* The region grows by an item; the file does not.                         *)
LEMMA StreamGrows ==
  ASSUME NEW d, IsImage(d), job.base \in Nat, NEW item, IsSequence(item),
         NEW e, e = [out |-> d.out, addr |-> d.addr, region |-> d.region \o item]
  PROVE  /\ Grown(d, e) /\ InStream(e, Len(d.region), item)
         /\ e.out = d.out /\ e.addr = d.addr
<1>1. e.out = d.out /\ e.addr = d.addr /\ e.region = d.region \o item
  OBVIOUS
<1>2. IsSequence(d.out) /\ IsSequence(d.region) /\ d.addr = job.base + Len(d.out)
  BY Zenon DEF IsImage
<1>3. /\ IsSequence(e.region) /\ Len(d.region) \in Nat /\ Len(item) \in Nat
      /\ Len(e.region) = Len(d.region) + Len(item)
      /\ \A k \in 1..Len(d.region) : e.region[k] = d.region[k]
      /\ \A k \in 1..Len(item) : e.region[Len(d.region) + k] = item[k]
  <2>1. ASSUME NEW s, IsSequence(s)
        PROVE  /\ IsSequence(s \o item) /\ Len(s) \in Nat /\ Len(item) \in Nat
               /\ Len(s \o item) = Len(s) + Len(item)
               /\ \A k \in 1..Len(s) : (s \o item)[k] = s[k]
               /\ \A k \in 1..Len(item) : (s \o item)[Len(s) + k] = item[k]
    BY <2>1, ConcatOwn
  <2>2. /\ IsSequence(d.region \o item) /\ Len(d.region) \in Nat /\ Len(item) \in Nat
        /\ Len(d.region \o item) = Len(d.region) + Len(item)
        /\ \A k \in 1..Len(d.region) : (d.region \o item)[k] = d.region[k]
        /\ \A k \in 1..Len(item) : (d.region \o item)[Len(d.region) + k] = item[k]
    BY <1>2, <2>1, Zenon
  <2>3. QED
    BY <1>1, <2>2, Zenon
<1>4. e = [out |-> e.out, addr |-> e.addr, region |-> e.region]
  BY <1>1
<1>5. IsImage(e)
  BY <1>1, <1>2, <1>3, <1>4, Zenon DEF IsImage
<1>6. Len(d.out) \in Nat
  BY ImageType
<1>7. Grown(d, e)
  <2>1. Len(d.out) <= Len(e.out) /\ Len(d.region) <= Len(e.region)
    BY <1>1, <1>3, <1>6
  <2>2. \A k \in 1..Len(d.out) : e.out[k] = d.out[k]
    BY <1>1
  <2>3. QED
    BY <1>3, <1>5, <2>1, <2>2, Zenon DEF Grown
<1>8. InStream(e, Len(d.region), item)
  <2>1. Len(d.region) \in 0 .. Len(e.region) - Len(item)
    BY <1>3
  <2>2. QED
    BY <1>3, <2>1, Zenon DEF InStream
<1>9. QED
  BY <1>1, <1>7, <1>8

(* One more, in the region.                                                *)
LEMMA OneInRegion ==
  ASSUME NEW d, job.base \in Nat, NEW items, NEW n \in Nat, NEW s,
         LaidOut(d, items, "region", n, s), IsSequence(items[n + 1]),
         NEW e, e = InRegion(s.db, s.at, items[n + 1])
  PROVE  LaidOut(d, items, "region", n + 1, e)
<1> DEFINE from == Len(s.db.region)
<1>1. /\ Grown(d, s.db) /\ IsSequence(s.at) /\ Len(s.at) = n
      /\ s.db.out = d.out /\ s.db.addr = d.addr
      /\ \A j \in 1..n : InStream(s.db, s.at[j], items[j])
  BY DEF LaidOut, Rests
<1>2. /\ e.db = [out |-> s.db.out, addr |-> s.db.addr, region |-> s.db.region \o items[n + 1]]
      /\ e.at = Append(s.at, from)
  BY DEF InRegion
<1>3. /\ Grown(s.db, e.db) /\ InStream(e.db, from, items[n + 1])
      /\ e.db.out = s.db.out /\ e.db.addr = s.db.addr
  <2>1. IsImage(s.db)
    BY <1>1, Zenon DEF Grown
  <2>2. ASSUME NEW b, NEW f, NEW item, IsImage(b), IsSequence(item),
               f = [out |-> b.out, addr |-> b.addr, region |-> b.region \o item]
        PROVE  /\ Grown(b, f) /\ InStream(f, Len(b.region), item)
               /\ f.out = b.out /\ f.addr = b.addr
    BY <2>2, StreamGrows
  <2>3. QED
    BY <1>2, <2>1, <2>2
<1> HIDE DEF from
<1>10. Grown(d, e.db)
  BY <1>1, <1>3, GrownOn
<1>12. /\ IsSequence(e.at) /\ Len(e.at) = n + 1
       /\ \A j \in 1..n : e.at[j] = s.at[j]
       /\ e.at[n + 1] = from
  BY <1>1, <1>2, Noted
<1>13. ASSUME NEW j \in 1 .. n + 1 PROVE InStream(e.db, e.at[j], items[j])
  <2>1. CASE j = n + 1
    BY <1>3, <1>12, <2>1
  <2>2. CASE j # n + 1
    <3>1. j \in 1..n
      BY <2>2
    <3>2. InStream(e.db, s.at[j], items[j])
      BY <1>1, <1>3, <3>1, InStreamOn
    <3>3. QED
      BY <1>12, <3>1, <3>2, Zenon
  <2>3. QED
    BY <2>1, <2>2
<1>14. e.db.out = d.out /\ e.db.addr = d.addr
  BY <1>1, <1>3
<1>15. QED
  BY <1>10, <1>12, <1>13, <1>14, Zenon DEF LaidOut, Rests

(* One more, anywhere.                                                     *)
LEMMA OneLaid ==
  ASSUME NEW d, job.base \in Nat, Len(d.out) >= 60,
         NEW items, NEW how \in {"plain", "padded", "region"}, NEW n \in Nat, NEW s,
         LaidOut(d, items, how, n, s), IsSequence(items[n + 1]),
         NEW e, e = Lay(s, items[n + 1], how)
  PROVE  LaidOut(d, items, how, n + 1, e)
<1>1. IsImage(s.db)
  BY Zenon DEF LaidOut, Grown
<1>2. CASE how = "region"
  <2>1. e = InRegion(s.db, s.at, items[n + 1])
    BY <1>2 DEF Lay
  <2>2. QED
    BY <1>2, <2>1, OneInRegion
<1>3. CASE how = "plain"
  <2>1. e = InFile(s.db, s.at, items[n + 1])
    BY <1>3 DEF Lay
  <2>2. Grown(s.db, s.db)
    BY <1>1, GrownSelf
  <2>3. QED
    BY <1>3, <2>1, <2>2, OneInFile
<1>4. CASE how = "padded"
  <2> DEFINE p == Pad(s.db)
  <2>1. e = InFile(p, s.at, items[n + 1])
    BY <1>4 DEF Lay
  <2>2. Grown(s.db, p) /\ p.region = s.db.region
    BY <1>1, Padded
  <2> HIDE DEF p
  <2>3. QED
    BY <1>4, <2>1, <2>2, OneInFile
<1>5. QED
  BY <1>2, <1>3, <1>4

(* The recursion is one: each step lays the next item.                     *)
LEMMA LaidSteps ==
  ASSUME NEW d, IsImage(d), job.base \in Nat, NEW items, Len(items) \in Nat,
         \A i \in 1..Len(items) : IsSequence(items[i]),
         NEW how \in {"plain", "padded", "region"}
  PROVE  \E f : /\ f[1] = [db |-> d, at |-> <<>>]
                /\ \A i \in 1..Len(items) : f[i + 1] = Lay(f[i], items[i], how)
                /\ Laid(d, items, how) = f[Len(items) + 1]
<1> DEFINE n == Len(items)
           V == ToSet(d.out) \cup ToSet(d.region)
                  \cup (UNION {ToSet(items[i]) : i \in 1..n}) \cup {0}
           Db == [out : Seq(V), addr : Nat, region : Seq(V)]
           S == [db : Db, at : Seq(Nat)]
           first == [db |-> d, at |-> <<>>]
           step == [x \in (1..n) \X S |-> Lay(x[2], items[x[1]], how)]
           Good(f) == f = [i \in 1 .. n + 1 |->
                             IF i = 1 THEN first ELSE Lay(f[i - 1], items[i - 1], how)]
           h == CHOOSE f : Good(f)
<1>1. \A i \in 1..n : items[i] \in Seq(V)
  <2> SUFFICES ASSUME NEW i \in 1..n PROVE items[i] \in Seq(V)
    OBVIOUS
  <2>1. ToSet(items[i]) \subseteq V
    OBVIOUS
  <2>2. items[i] \in Seq(ToSet(items[i]))
    BY Zenon DEF IsSequence
  <2> HIDE DEF V
  <2>3. QED
    BY <2>1, <2>2, SeqOfMore
<1>2. d \in Db
  <2>1. d = [out |-> d.out, addr |-> d.addr, region |-> d.region]
        /\ d.out \in Seq(ToSet(d.out)) /\ d.region \in Seq(ToSet(d.region))
    BY Zenon DEF IsImage, IsSequence
  <2>2. d.addr \in Nat
    BY ImageType
  <2>3. ToSet(d.out) \subseteq V /\ ToSet(d.region) \subseteq V
    OBVIOUS
  <2> HIDE DEF V
  <2>4. d.out \in Seq(V) /\ d.region \in Seq(V)
    BY <2>1, <2>3, SeqOfMore
  <2>5. QED
    BY <2>1, <2>2, <2>4
<1>3. 0 \in V
  OBVIOUS
<1> HIDE DEF V
<1>4. first \in S
  <2>1. <<>> \in Seq(Nat)
    OBVIOUS
  <2> HIDE DEF Db
  <2>2. QED
    BY <1>2, <2>1
<1>5. ASSUME NEW b \in Db, NEW item \in Seq(V)
      PROVE  Push(b, item, Len(item)) \in Db
  <2>1. b.out \in Seq(V) /\ b.addr \in Nat /\ b.region \in Seq(V)
    OBVIOUS
  <2>2. b.out \o item \in Seq(V) /\ Len(item) \in Nat
    BY <2>1, Concat
  <2>3. QED
    BY <2>1, <2>2 DEF Push
<1>6. ASSUME NEW b \in Db PROVE Pad(b) \in Db
  <2>1. <<0>> \in Seq(V) /\ Len(<<0>>) = 1
    BY <1>3
  <2>2. Push(b, <<0>>, Len(<<0>>)) \in Db
    BY <1>5, <2>1
  <2>3. Push(b, <<0>>, 1) \in Db
    BY <2>1, <2>2, Zenon
  <2>4. QED
    BY <2>3, Zenon DEF Pad
<1>7. ASSUME NEW b \in Db, NEW at \in Seq(Nat), NEW item \in Seq(V)
      PROVE  InFile(b, at, item) \in S
  <2>1. b.addr \in Nat
    OBVIOUS
  <2>2. Append(at, b.addr) \in Seq(Nat)
    BY <2>1
  <2>3. Push(b, item, Len(item)) \in Db
    BY <1>5
  <2> HIDE DEF Db
  <2>4. QED
    BY <2>2, <2>3 DEF InFile
<1>8. ASSUME NEW b \in Db, NEW at \in Seq(Nat), NEW item \in Seq(V)
      PROVE  InRegion(b, at, item) \in S
  <2>1. b.out \in Seq(V) /\ b.addr \in Nat /\ b.region \in Seq(V)
    OBVIOUS
  <2>2. Append(at, Len(b.region)) \in Seq(Nat) /\ b.region \o item \in Seq(V)
    BY <2>1, Concat, AppendProperties
  <2>3. QED
    BY <2>1, <2>2 DEF InRegion
<1>9. ASSUME NEW s \in S, NEW item \in Seq(V) PROVE Lay(s, item, how) \in S
  <2>1. s.db \in Db /\ s.at \in Seq(Nat)
    OBVIOUS
  <2> HIDE DEF S, Db
  <2>2. CASE how = "plain"
    BY <1>7, <2>1, <2>2 DEF Lay
  <2>3. CASE how = "padded"
    <3>1. Pad(s.db) \in Db
      BY <1>6, <2>1
    <3>2. InFile(Pad(s.db), s.at, item) \in S
      BY <1>7, <2>1, <3>1
    <3>3. QED
      BY <2>3, <3>2 DEF Lay
  <2>4. CASE how = "region"
    BY <1>8, <2>1, <2>4 DEF Lay
  <2>5. QED
    BY <2>2, <2>3, <2>4
<1> HIDE DEF S, Db
<1>10. step \in [(1..n) \X S -> S]
  BY <1>1, <1>9
<1>11. \A i \in 1..n : \A s \in S : step[<<i, s>>] = Lay(s, items[i], how)
  OBVIOUS
<1> HIDE DEF step, first
<1>12. n \in Nat
  OBVIOUS
<1> HIDE DEF n
<1>13. PICK g : IsForward(g, n, S, first, step)
  BY <1>4, <1>10, <1>12, ForwardRecursion, Zenon
<1>14. /\ g \in [1 .. n + 1 -> S] /\ g[1] = first
       /\ \A i \in 1..n : g[i + 1] = step[<<i, g[i]>>]
  BY <1>13 DEF IsForward
<1>15. ASSUME NEW i \in 1..n PROVE g[i + 1] = Lay(g[i], items[i], how)
  <2>1. g[i] \in S
    BY <1>12, <1>14
  <2>2. QED
    BY <1>11, <1>14, <2>1
<1>16. Good(g)
  <2>1. ASSUME NEW i \in 1 .. n + 1
        PROVE  g[i] = IF i = 1 THEN first ELSE Lay(g[i - 1], items[i - 1], how)
    <3>1. CASE i = 1
      BY <1>14, <3>1
    <3>2. CASE i # 1
      <4>1. i - 1 \in 1..n /\ i - 1 + 1 = i
        BY <1>12, <3>2
      <4>2. g[i - 1 + 1] = Lay(g[i - 1], items[i - 1], how)
        BY <1>15, <4>1
      <4>3. QED
        BY <3>2, <4>1, <4>2
    <3>3. QED
      BY <3>1, <3>2
  <2>2. g = [i \in 1 .. n + 1 |-> g[i]]
    BY <1>14
  <2>3. QED
    BY <2>1, <2>2
<1>17. Good(h)
  <2>1. \E f : Good(f)
    BY <1>16
  <2> HIDE DEF Good
  <2>2. QED
    BY <2>1
<1>18. \A i \in 1 .. n + 1 : h[i] = IF i = 1 THEN first ELSE Lay(h[i - 1], items[i - 1], how)
  <2> HIDE DEF h
  <2>1. QED
    BY <1>17, Zenon
<1>19. Laid(d, items, how) = h[n + 1]
  BY Zenon DEF Laid, first, n
<1> HIDE DEF h
<1>20. h[1] = first
  <2>1. 1 \in 1 .. n + 1
    BY <1>12
  <2>2. QED
    BY <1>18, <2>1
<1>21. ASSUME NEW i \in 1..n PROVE h[i + 1] = Lay(h[i], items[i], how)
  <2> DEFINE j == i + 1
  <2>1. j \in 1 .. n + 1 /\ j # 1 /\ j - 1 = i
    BY <1>12
  <2> HIDE DEF j
  <2>2. h[j] = Lay(h[j - 1], items[j - 1], how)
    BY <1>18, <2>1, Zenon
  <2>3. QED
    BY <2>1, <2>2, Zenon DEF j
<1>22. QED
  BY <1>19, <1>20, <1>21 DEF first, n

(* All of them are laid.                                                   *)
LEMMA AllLaid ==
  ASSUME NEW d, IsImage(d), job.base \in Nat, Len(d.out) >= 60,
         NEW items, Len(items) \in Nat, \A i \in 1..Len(items) : IsSequence(items[i]),
         NEW how \in {"plain", "padded", "region"}
  PROVE  LaidOut(d, items, how, Len(items), Laid(d, items, how))
<1>1. PICK f : /\ f[1] = [db |-> d, at |-> <<>>]
               /\ \A i \in 1..Len(items) : f[i + 1] = Lay(f[i], items[i], how)
               /\ Laid(d, items, how) = f[Len(items) + 1]
  BY LaidSteps, SMTT(30)
<1> DEFINE T == {k \in Nat : k <= Len(items) => LaidOut(d, items, how, k, f[k + 1])}
<1>2. 0 \in T
  <2>1. f[1].db = d /\ f[1].at = <<>>
    BY <1>1
  <2>2. Grown(d, d)
    BY GrownSelf
  <2>3. IsSequence(<<>>) /\ Len(<<>>) = 0
    <3>1. <<>> \in Seq({})
      OBVIOUS
    <3>2. QED
      BY <3>1, OwnElements
  <2>4. LaidOut(d, items, how, 0, f[1])
    BY <2>1, <2>2, <2>3 DEF LaidOut
  <2>5. QED
    BY <2>4
<1>3. ASSUME NEW k \in T PROVE k + 1 \in T
  <2>1. k \in Nat /\ (k <= Len(items) => LaidOut(d, items, how, k, f[k + 1]))
    OBVIOUS
  <2> SUFFICES ASSUME k + 1 <= Len(items)
               PROVE  LaidOut(d, items, how, k + 1, f[k + 1 + 1])
    BY <2>1
  <2>2. k + 1 \in 1..Len(items) /\ LaidOut(d, items, how, k, f[k + 1])
    BY <2>1
  <2>3. IsSequence(items[k + 1]) /\ f[k + 1 + 1] = Lay(f[k + 1], items[k + 1], how)
    BY <1>1, <2>2
  <2>4. QED
    BY <2>1, <2>2, <2>3, OneLaid
<1>4. T \subseteq Nat
  OBVIOUS
<1> HIDE DEF T
<1>5. T = Nat
  BY <1>2, <1>3, <1>4, Induction
<1>6. Len(items) \in T /\ Len(items) <= Len(items)
  BY <1>5
<1>7. QED
  BY <1>1, <1>6 DEF T

-----------------------------------------------------------------------------
(* The emitters.                                                           *)

(* A function over the first places is a sequence.                         *)
LEMMA ByPlaces ==
  ASSUME NEW n \in Nat, NEW f, f = [i \in 1..n |-> f[i]]
  PROVE  IsSequence(f) /\ Len(f) = n /\ DOMAIN f = 1..n
<1> DEFINE S == {f[i] : i \in 1..n}
<1>1. f \in [1..n -> S]
  OBVIOUS
<1> HIDE DEF S
<1>2. f \in Seq(S) /\ Len(f) = n /\ DOMAIN f = 1..n
  BY <1>1
<1>3. QED
  BY <1>2, OwnElements

(* Any sequences flattened.                                                *)
LEMMA FlattenOwn ==
  ASSUME NEW seqs, IsSequence(seqs), \A i \in 1..Len(seqs) : IsSequence(seqs[i])
  PROVE  /\ IsSequence(FlattenSeq(seqs)) /\ Len(seqs) \in Nat
         /\ \A m \in Nat : (\A i \in 1..Len(seqs) : Len(seqs[i]) = m)
                             => Len(FlattenSeq(seqs)) = m * Len(seqs)
<1> DEFINE S == UNION {ToSet(seqs[i]) : i \in 1..Len(seqs)}
<1>1. Len(seqs) \in Nat /\ DOMAIN seqs = 1..Len(seqs) /\ seqs = [i \in 1..Len(seqs) |-> seqs[i]]
  BY LenProperties DEF IsSequence
<1>2. ASSUME NEW i \in 1..Len(seqs) PROVE seqs[i] \in Seq(S)
  <2>1. ToSet(seqs[i]) \subseteq S
    OBVIOUS
  <2>2. seqs[i] \in Seq(ToSet(seqs[i]))
    BY Zenon DEF IsSequence
  <2> HIDE DEF S
  <2>3. QED
    BY <2>1, <2>2, SeqOfMore
<1> HIDE DEF S
<1>3. seqs \in Seq(Seq(S))
  <2>1. seqs \in [1..Len(seqs) -> Seq(S)]
    BY <1>1, <1>2
  <2>2. QED
    BY <1>1, <2>1, SeqDef
<1>4. IsSequence(FlattenSeq(seqs))
  BY <1>3, FlattenType, OwnElements
<1>5. QED
  BY <1>1, <1>3, <1>4, FlattenLength

(* Sequences of one and of two, and of none.                               *)
LEMMA One ==
  ASSUME NEW x
  PROVE  IsSequence(<<x>>) /\ Len(<<x>>) = 1
<1>1. <<x>> \in Seq({x}) /\ Len(<<x>>) = 1
  OBVIOUS
<1>2. QED
  BY <1>1, OwnElements

(* The sequence of two.                                                    *)
LEMMA Two ==
  ASSUME NEW x, NEW y
  PROVE  IsSequence(<<x, y>>) /\ Len(<<x, y>>) = 2
<1>1. <<x, y>> \in Seq({x, y}) /\ Len(<<x, y>>) = 2
  OBVIOUS
<1>2. QED
  BY <1>1, OwnElements

(* The empty one.                                                          *)
LEMMA None == IsSequence(<<>>) /\ Len(<<>>) = 0
<1>1. <<>> \in Seq({}) /\ Len(<<>>) = 0
  OBVIOUS
<1>2. QED
  BY <1>1, OwnElements

(* Items and, after them, where each of them is.                           *)
LEMMA LookupWritten ==
  ASSUME NEW d, IsImage(d), job.base \in Nat, Len(d.out) >= 60,
         NEW items, Len(items) \in Nat, \A i \in 1..Len(items) : IsSequence(items[i]),
         NEW how \in {"plain", "padded", "region"},
         NEW end, end = Laid(d, items, how), NEW p, p = Pad(end.db),
         NEW e, e = Words(p, end.at)
  PROVE  /\ Grown(d, p) /\ Grown(p, e) /\ Grown(d, e)
         /\ e.addr = p.addr + 2 * Len(items) /\ p.addr \in Nat
         /\ job.padding => p.addr % 2 = 0
         /\ \A i \in 1..Len(items) :
              IF how = "region" THEN LeadsInStream(e, p.addr + 2 * (i - 1), items[i])
              ELSE Leads(e, p.addr + 2 * (i - 1), items[i])
         /\ how # "region" =>
              \A i \in 2..Len(items) : Len(items[i - 1]) > 0 =>
                \E to \in job.base..e.addr : \E before \in job.base .. to - 1 :
                  /\ Stands(e, p.addr + 2 * (i - 2), Word(before))
                  /\ Stands(e, p.addr + 2 * (i - 1), Word(to))
<1> DEFINE n == Len(items)
<1>1. LaidOut(d, items, how, n, end)
  BY AllLaid
<1>2. /\ Grown(d, end.db) /\ IsSequence(end.at) /\ Len(end.at) = n
      /\ \A j \in 1..n : Rests(d, end.db, end.at[j], items[j], how)
      /\ how # "region" => \A j \in 2..n : end.at[j - 1] + Len(items[j - 1]) <= end.at[j]
  BY <1>1, Zenon DEF LaidOut
<1>3. Grown(end.db, p) /\ (job.padding => p.addr % 2 = 0)
  <2>1. IsImage(end.db)
    BY <1>2, Zenon DEF Grown
  <2>2. QED
    BY <2>1, Padded
<1>4. Grown(d, p) /\ IsImage(p) /\ p.addr \in Nat /\ Len(p.out) >= 60
  <2>1. Grown(d, p)
    BY <1>2, <1>3, GrownOn
  <2>2. Len(d.out) \in Nat /\ Len(p.out) \in Nat /\ Len(d.out) <= Len(p.out) /\ p.addr \in Nat
    BY <2>1, GrownTypes
  <2>3. Len(p.out) >= 60
    BY <2>2
  <2>4. QED
    BY <2>1, <2>2, <2>3, Zenon DEF Grown
<1>5. /\ Grown(p, e) /\ e.addr = p.addr + 2 * n
      /\ \A i \in 1..n : Stands(e, p.addr + 2 * (i - 1), Word(end.at[i]))
  <2>1. ASSUME NEW at, IsSequence(at), e = Words(p, at)
        PROVE  /\ Grown(p, e) /\ e.addr = p.addr + 2 * Len(at)
               /\ \A i \in 1..Len(at) : Stands(e, p.addr + 2 * (i - 1), Word(at[i]))
    BY <1>4, <2>1, WordsWritten
  <2>2. QED
    BY <1>2, <2>1
<1>6. Grown(d, e) /\ Grown(end.db, e)
  BY <1>3, <1>4, <1>5, GrownOn
<1>7. /\ d.addr \in Nat /\ end.db.addr \in Nat /\ e.addr \in Nat
      /\ job.base <= d.addr /\ end.db.addr <= e.addr
      /\ Len(end.db.region) \in Nat /\ Len(e.region) \in Nat
      /\ Len(end.db.region) <= Len(e.region)
  <2>1. /\ d.addr \in Nat /\ d.addr = job.base + Len(d.out) /\ Len(d.out) \in Nat
    BY <1>6, GrownTypes
  <2>2. job.base <= d.addr
    BY <2>1
  <2>3. QED
    BY <1>6, <2>1, <2>2, GrownTypes
<1>8. ASSUME how # "region", NEW i \in 1..n
      PROVE  end.at[i] \in job.base..e.addr /\ Stands(e, end.at[i], items[i])
  <2>1. end.at[i] \in d.addr..end.db.addr /\ Stands(end.db, end.at[i], items[i])
    BY <1>2, <1>8, Zenon DEF Rests
  <2>2. end.at[i] \in job.base..e.addr
    BY <1>7, <2>1
  <2>3. QED
    BY <1>6, <2>1, <2>2, StandsOn
<1>9. ASSUME NEW i \in 1..n
      PROVE  IF how = "region" THEN LeadsInStream(e, p.addr + 2 * (i - 1), items[i])
             ELSE Leads(e, p.addr + 2 * (i - 1), items[i])
  <2>1. CASE how = "region"
    <3>1. InStream(end.db, end.at[i], items[i])
      BY <1>2, <2>1, Zenon DEF Rests
    <3>2. InStream(e, end.at[i], items[i])
      BY <1>6, <3>1, InStreamOn
    <3>3. end.at[i] \in 0..Len(e.region)
      <4>1. IsSequence(items[i]) /\ end.at[i] \in 0 .. Len(e.region) - Len(items[i])
        BY <3>2, Zenon DEF InStream
      <4>2. Len(items[i]) \in Nat
        BY <4>1, LenProperties DEF IsSequence
      <4>3. ASSUME NEW a, NEW l \in Nat, NEW r \in Nat, a \in 0 .. r - l
            PROVE  a \in 0..r
        BY <4>3
      <4>4. QED
        BY <1>7, <4>1, <4>2, <4>3
    <3>4. LeadsInStream(e, p.addr + 2 * (i - 1), items[i])
      BY <1>5, <3>2, <3>3, Zenon DEF LeadsInStream
    <3>5. QED
      BY <2>1, <3>4
  <2>2. CASE how # "region"
    <3>1. Leads(e, p.addr + 2 * (i - 1), items[i])
      BY <1>5, <1>8, <2>2, Zenon DEF Leads
    <3>2. QED
      BY <2>2, <3>1
  <2>3. QED
    BY <2>1, <2>2
<1>10. ASSUME how # "region", NEW i \in 2..n, Len(items[i - 1]) > 0
       PROVE  \E to \in job.base..e.addr : \E before \in job.base .. to - 1 :
                /\ Stands(e, p.addr + 2 * (i - 2), Word(before))
                /\ Stands(e, p.addr + 2 * (i - 1), Word(to))
  <2> DEFINE j == i - 1
  <2>1. i \in 1..n /\ j \in 1..n /\ j - 1 = i - 2
    OBVIOUS
  <2>2. end.at[j] + Len(items[j]) <= end.at[i]
    BY <1>2, <1>10
  <2>3. Len(items[j]) \in Nat
    <3>1. IsSequence(items[j])
      BY <2>1
    <3>2. QED
      BY <3>1, LenProperties DEF IsSequence
  <2>4. end.at[i] \in job.base..e.addr /\ end.at[j] \in job.base..e.addr
    BY <1>8, <1>10, <2>1
  <2>5. Len(items[j]) > 0
    BY <1>10
  <2> HIDE DEF j
  <2>6. end.at[j] \in job.base .. end.at[i] - 1
    <3>1. ASSUME NEW a \in Int, NEW b \in Int, NEW l \in Nat, a + l <= b, l > 0, job.base <= a
          PROVE  a \in job.base .. b - 1
      BY <3>1
    <3>2. end.at[i] \in Int /\ end.at[j] \in Int /\ job.base <= end.at[j]
      BY <1>7, <2>4
    <3>3. QED
      BY <2>2, <2>3, <2>5, <3>1, <3>2
  <2>7. /\ Stands(e, p.addr + 2 * (i - 2), Word(end.at[j]))
        /\ Stands(e, p.addr + 2 * (i - 1), Word(end.at[i]))
    BY <1>5, <2>1, Zenon
  <2>8. QED
    BY <2>4, <2>6, <2>7, Zenon
<1>11. QED
  BY <1>3, <1>4, <1>5, <1>6, <1>9, <1>10

(* The same in the file alone.                                             *)
IsLookup(e, at, items) ==
  /\ e.addr = at + 2 * Len(items) /\ at \in Nat
  /\ job.padding => at % 2 = 0
  /\ \A i \in 1..Len(items) : Leads(e, at + 2 * (i - 1), items[i])
  /\ \A i \in 2..Len(items) : Len(items[i - 1]) > 0 =>
       \E to \in job.base..e.addr : \E before \in job.base .. to - 1 :
         /\ Stands(e, at + 2 * (i - 2), Word(before))
         /\ Stands(e, at + 2 * (i - 1), Word(to))
(* Items padded, and then padding and the lookup, as connections and       *)
(* processes have them.                                                    *)
LEMMA PaddedLookup ==
  ASSUME NEW d, IsImage(d), job.base \in Nat, Len(d.out) >= 60,
         NEW items, Len(items) \in Nat, \A i \in 1..Len(items) : IsSequence(items[i]),
         NEW end, end = Laid(d, items, "padded"), NEW p, p = Pad(end.db),
         NEW e, e = Words(p, end.at)
  PROVE  Grown(d, e) /\ IsLookup(e, p.addr, items)
<1>1. PICK how \in {"plain", "padded", "region"} : how = "padded"
  OBVIOUS
<1>2. how # "region" /\ end = Laid(d, items, how)
  BY <1>1
<1>3. /\ Grown(d, e) /\ e.addr = p.addr + 2 * Len(items) /\ p.addr \in Nat
      /\ job.padding => p.addr % 2 = 0
      /\ \A i \in 1..Len(items) :
           IF how = "region" THEN LeadsInStream(e, p.addr + 2 * (i - 1), items[i])
           ELSE Leads(e, p.addr + 2 * (i - 1), items[i])
      /\ how # "region" =>
           \A i \in 2..Len(items) : Len(items[i - 1]) > 0 =>
             \E to \in job.base..e.addr : \E before \in job.base .. to - 1 :
               /\ Stands(e, p.addr + 2 * (i - 2), Word(before))
               /\ Stands(e, p.addr + 2 * (i - 1), Word(to))
  BY <1>2, LookupWritten, SMTT(30)
<1>4. QED
  BY <1>2, <1>3, Zenon DEF IsLookup

(* The texts of a table, as they are written.                              *)
LEMMA ItemsType ==
  ASSUME LoadedInv, NEW table \in Tables
  PROVE  /\ Len(loaded[table]) \in Nat /\ DOMAIN loaded[table] = 1..Len(loaded[table])
         /\ Len(Items(table)) = Len(loaded[table])
         /\ \A i \in 1..Len(loaded[table]) :
              /\ loaded[table][i] \in Seq(Shown)
              /\ IsSequence(Items(table)[i])
              /\ Items(table)[i] =
                   IF job.text2 THEN Append(loaded[table][i], EndOfStream)
                   ELSE Append([k \in DOMAIN loaded[table][i] |-> Invert(loaded[table][i][k])],
                               EndOfText)
<1> DEFINE texts_ == loaded[table]
           n == Len(texts_)
<1>1. texts_ \in Seq(Seq(Shown))
  BY Zenon DEF LoadedInv
<1> HIDE DEF texts_
<1>2. n \in Nat /\ DOMAIN texts_ = 1..n /\ \A i \in 1..n : texts_[i] \in Seq(Shown)
  BY <1>1, LenProperties, ElementOfSeq
<1>3. Items(table) = [i \in 1..n |->
        IF job.text2 THEN Append(texts_[i], EndOfStream)
        ELSE Append([k \in DOMAIN texts_[i] |-> Invert(texts_[i][k])], EndOfText)]
  BY <1>2 DEF Items, texts_
<1>4. Len(Items(table)) = n
  BY <1>2, <1>3, ByPlaces
<1>5. ASSUME NEW i \in 1..n
      PROVE  IsSequence(Items(table)[i])
  <2>1. texts_[i] \in Seq(Shown)
    BY <1>2
  <2>2. Len(texts_[i]) \in Nat /\ DOMAIN texts_[i] = 1..Len(texts_[i])
    BY <2>1, LenProperties
  <2>3. IsSequence(Append(texts_[i], EndOfStream))
    BY <2>1, OwnElements, Noted
  <2> DEFINE inverted == [k \in DOMAIN texts_[i] |-> Invert(texts_[i][k])]
  <2>4. inverted = [k \in 1..Len(texts_[i]) |-> inverted[k]]
    BY <2>2
  <2>5. Items(table)[i] = IF job.text2 THEN Append(texts_[i], EndOfStream)
                          ELSE Append(inverted, EndOfText)
    BY <1>3
  <2> HIDE DEF inverted
  <2>6. IsSequence(inverted)
    BY <2>2, <2>4, ByPlaces
  <2>7. IsSequence(Append(inverted, EndOfText))
    BY <2>6, Noted
  <2>8. QED
    BY <2>3, <2>5, <2>7
<1>6. QED
  BY <1>2, <1>3, <1>4, <1>5 DEF texts_

(* A table of texts, and its lookup behind it.                             *)
LEMMA MessagesWritten ==
  ASSUME LoadedInv, NEW table \in Tables, NEW d, IsImage(d), job.base \in Nat, Len(d.out) >= 60,
         NEW e, e = EmitMessages(d, table), NEW at, at = e.addr - 2 * Len(loaded[table])
  PROVE  /\ Grown(d, e) /\ at \in 0..e.addr /\ TextsStand(e, table, at)
         /\ job.padding => at % 2 = 0
<1> DEFINE items == Items(table)
           how == IF job.text2 THEN "region" ELSE "padded"
           end == Laid(d, items, how)
           p == Pad(end.db)
           n == Len(loaded[table])
<1>1. /\ n \in Nat /\ DOMAIN loaded[table] = 1..n /\ Len(items) = n
      /\ \A i \in 1..n : IsSequence(items[i])
  BY ItemsType
<1>2. e = Words(p, end.at)
  BY DEF EmitMessages
<1>3. how \in {"plain", "padded", "region"} /\ (how = "region" <=> job.text2)
  OBVIOUS
<1> DEFINE Good(f, q, its) ==
             /\ Grown(d, f) /\ Grown(q, f)
             /\ f.addr = q.addr + 2 * Len(its) /\ q.addr \in Nat
             /\ job.padding => q.addr % 2 = 0
             /\ \A i \in 1..Len(its) :
                  IF how = "region" THEN LeadsInStream(f, q.addr + 2 * (i - 1), its[i])
                  ELSE Leads(f, q.addr + 2 * (i - 1), its[i])
<1> HIDE DEF items, how
<1>4. /\ Grown(d, e) /\ Grown(p, e)
      /\ e.addr = p.addr + 2 * Len(items) /\ p.addr \in Nat
      /\ job.padding => p.addr % 2 = 0
      /\ \A i \in 1..Len(items) :
           IF how = "region" THEN LeadsInStream(e, p.addr + 2 * (i - 1), items[i])
           ELSE Leads(e, p.addr + 2 * (i - 1), items[i])
  <2>1. end = Laid(d, items, how) /\ p = Pad(end.db)
    OBVIOUS
  <2> HIDE DEF end, p
  <2>2. ASSUME NEW s, s = Laid(d, items, how), NEW q, q = Pad(s.db), e = Words(q, s.at)
        PROVE  Good(e, q, items)
    <3>1. Len(items) \in Nat /\ \A i \in 1..Len(items) : IsSequence(items[i])
      BY <1>1
    <3>2. QED
      BY <1>3, <2>2, <3>1, LookupWritten, SMTT(30)
  <2> HIDE DEF Good
  <2>3. Good(e, p, items)
    BY <1>2, <2>1, <2>2, Zenon
  <2>4. QED
    BY <2>3, Zenon DEF Good
<1>5. at = p.addr /\ at \in 0..e.addr
  BY <1>1, <1>4
<1> HIDE DEF n, p
<1>6. TextsStand(e, table, at)
  BY <1>1, <1>3, <1>4, <1>5, Zenon DEF TextsStand, items
<1>7. QED
  BY <1>4, <1>5, <1>6

(* The exits of the locations.                                             *)
LEMMA ExitsType ==
  ASSUME ListsInv, LoadedInv
  PROVE  /\ Len(Exits) \in Nat /\ DOMAIN Exits = 1..Len(Exits)
         /\ \A i \in 1..Len(Exits) : IsSequence(Exits[i])
<1> DEFINE n == Len(loaded.LTX)
           One_(l) == [i \in DOMAIN connections |->
                        IF connections[i].from = l
                        THEN <<Byte(connections[i].direction), Byte(connections[i].to)>>
                        ELSE <<>>]
<1>1. n \in Nat /\ DOMAIN loaded.LTX = 1..n
  BY ItemsType DEF Tables
<1>2. Len(connections) \in Nat /\ DOMAIN connections = 1..Len(connections)
  BY LenProperties DEF ListsInv, IsSequence
<1>3. Exits = [i \in 1..n |-> Append(FlattenSeq(One_(i - 1)), 255)]
  BY <1>1 DEF Exits
<1>4. ASSUME NEW l PROVE IsSequence(FlattenSeq(One_(l)))
  <2>1. One_(l) = [i \in 1..Len(connections) |-> One_(l)[i]]
    BY <1>2
  <2>2. ASSUME NEW i \in 1..Len(connections) PROVE IsSequence(One_(l)[i])
    <3>1. One_(l)[i] = IF connections[i].from = l
                       THEN <<Byte(connections[i].direction), Byte(connections[i].to)>>
                       ELSE <<>>
      BY <1>2
    <3>2. QED
      BY <3>1, Two, None
  <2> HIDE DEF One_
  <2>3. IsSequence(One_(l)) /\ Len(One_(l)) = Len(connections)
    BY <1>2, <2>1, ByPlaces
  <2>4. QED
    BY <2>2, <2>3, FlattenOwn
<1> HIDE DEF One_
<1>5. ASSUME NEW i \in 1..n PROVE IsSequence(Exits[i])
  <2>1. Exits[i] = Append(FlattenSeq(One_(i - 1)), 255)
    BY <1>3
  <2>2. IsSequence(FlattenSeq(One_(i - 1)))
    BY <1>4
  <2>3. QED
    BY <2>1, <2>2, Noted
<1>6. Len(Exits) = n /\ DOMAIN Exits = 1..n
  BY <1>1, <1>3, ByPlaces
<1>7. QED
  BY <1>1, <1>5, <1>6

(* The connections, and their lookup behind them.                          *)
LEMMA ConnectionsWritten ==
  ASSUME ListsInv, LoadedInv, NEW d, IsImage(d), job.base \in Nat, Len(d.out) >= 60,
         NEW c, c = EmitConnections(d)
  PROVE  /\ Grown(d, c.db) /\ c.lookup \in 0..c.db.addr /\ TableStands(c.db, 6, c.lookup)
         /\ job.padding => c.lookup % 2 = 0 /\ c.db.addr % 2 = 0
<1> DEFINE end == Laid(d, Exits, "padded")
           p == Pad(end.db)
           e == Words(p, end.at)
<1>1. c.db = Pad(e) /\ c.lookup = p.addr
  BY DEF EmitConnections
<1>2. /\ Len(Exits) \in Nat /\ DOMAIN Exits = 1..Len(Exits)
      /\ \A i \in 1..Len(Exits) : IsSequence(Exits[i])
  BY ExitsType
<1>3. /\ Grown(d, e) /\ e.addr = p.addr + 2 * Len(Exits) /\ p.addr \in Nat
      /\ job.padding => p.addr % 2 = 0
      /\ \A i \in 1..Len(Exits) : Leads(e, p.addr + 2 * (i - 1), Exits[i])
  <2>1. end = Laid(d, Exits, "padded") /\ p = Pad(end.db) /\ e = Words(p, end.at)
    OBVIOUS
  <2> HIDE DEF end, p, e
  <2>2. ASSUME NEW items, items = Exits, NEW s, s = Laid(d, items, "padded"),
               NEW q, q = Pad(s.db), NEW f, f = Words(q, s.at)
        PROVE  Grown(d, f) /\ IsLookup(f, q.addr, items)
    <3>1. Len(items) \in Nat /\ \A i \in 1..Len(items) : IsSequence(items[i])
      BY <1>2, <2>2
    <3>2. QED
      BY <2>2, <3>1, PaddedLookup
  <2>3. Grown(d, e) /\ IsLookup(e, p.addr, Exits)
    BY <2>1, <2>2
  <2>4. QED
    BY <2>3, Zenon DEF IsLookup
<1> HIDE DEF p, e
<1>4. Grown(e, c.db) /\ (job.padding => c.db.addr % 2 = 0)
  <2>1. IsImage(e)
    BY <1>3, Zenon DEF Grown
  <2>2. QED
    BY <1>1, <2>1, Padded
<1>5. Grown(d, c.db)
  BY <1>3, <1>4, GrownOn
<1>6. e.addr \in Nat /\ c.db.addr \in Nat /\ e.addr <= c.db.addr
  BY <1>4, GrownTypes
<1>7. c.lookup \in 0..c.db.addr
  BY <1>1, <1>2, <1>3, <1>6
<1>8. TableStands(e, 6, c.lookup)
  <2>1. \A i \in DOMAIN Exits : Leads(e, c.lookup + 2 * (i - 1), Exits[i])
    BY <1>1, <1>2, <1>3, Zenon
  <2>2. QED
    BY <2>1 DEF TableStands
<1>9. TableStands(c.db, 6, c.lookup)
  BY <1>4, <1>8, TableOn
<1>10. QED
  BY <1>1, <1>3, <1>4, <1>5, <1>7, <1>9

(* What a job's options are.                                               *)
LEMMA JobType ==
  ASSUME job \in Jobs
  PROVE  /\ job.base \in Nat /\ job.tokens \in Nat /\ job.code \in Nat
         /\ job.processes \in Nat /\ job.xmessageSize \in Nat
         /\ job.machine \in 0..15 /\ job.lang \in 0..1 /\ job.submachine \in 0..255
         /\ job.v3 \in BOOLEAN /\ job.big \in BOOLEAN /\ job.padding \in BOOLEAN
         /\ job.text2 \in BOOLEAN /\ job.hasTokens \in BOOLEAN /\ job.plus3 \in BOOLEAN
         /\ job.externs \in Seq([type : 0..2, bytes : Seq(0..255)])
BY OptionsAssumption

(* The processes, one after the other.                                     *)
LEMMA ProcessesWritten ==
  ASSUME job \in Jobs, NEW d, IsImage(d), Len(d.out) >= 60,
         NEW e, e = EmitProcesses(d), NEW at, at = e.addr - 2 * job.processes
  PROVE  /\ Grown(d, e) /\ at \in 0..e.addr /\ TableStands(e, 1, at)
         /\ job.padding => at % 2 = 0
<1> DEFINE n == job.processes
           c == Push(d, CondactBytes, job.code)
           items == [i \in 1..n |-> <<0>>]
           end == Laid(c, items, "padded")
           p == Pad(end.db)
<1>1. job.base \in Nat /\ n \in Nat /\ job.code \in Nat
  BY JobType
<1>2. Grown(d, c)
  <2> DEFINE bytes == CondactBytes
  <2>1. bytes = [i \in 1..job.code |-> bytes[i]]
    BY DEF CondactBytes
  <2> HIDE DEF bytes
  <2>2. IsSequence(bytes) /\ job.code = Len(bytes)
    BY <1>1, <2>1, ByPlaces
  <2>3. c = Push(d, bytes, job.code)
    BY DEF bytes
  <2> HIDE DEF c
  <2>4. ASSUME NEW m, m = Len(bytes), NEW f, f = Push(d, bytes, m) PROVE Grown(d, f)
    BY <1>1, <2>2, <2>4, Pushed
  <2>5. QED
    BY <2>2, <2>3, <2>4
<1>3. e = Words(p, end.at)
  BY DEF EmitProcesses
<1>4. /\ Len(items) = n
      /\ \A i \in 1..n : items[i] = <<0>> /\ IsSequence(items[i]) /\ Len(items[i]) = 1
  <2>1. \A i \in 1..n : items[i] = <<0>>
    OBVIOUS
  <2>2. items = [i \in 1..n |-> items[i]]
    OBVIOUS
  <2> HIDE DEF items, n
  <2>3. Len(items) = n
    BY <1>1, <2>2, ByPlaces
  <2>4. QED
    BY <2>1, <2>3, One
<1> HIDE DEF c, items
<1>5. IsImage(c) /\ Len(c.out) >= 60
  <2>1. Len(d.out) \in Nat /\ Len(c.out) \in Nat /\ Len(d.out) <= Len(c.out)
    BY <1>1, <1>2, GrownTypes
  <2>2. IsImage(c)
    BY <1>2, Zenon DEF Grown
  <2>3. QED
    BY <2>1, <2>2
<1>6. end = Laid(c, items, "padded") /\ p = Pad(end.db)
  OBVIOUS
<1> HIDE DEF end, p, n
<1>7. /\ Grown(c, e) /\ e.addr = p.addr + 2 * n /\ p.addr \in Nat
      /\ job.padding => p.addr % 2 = 0
      /\ \A i \in 1..n : Leads(e, p.addr + 2 * (i - 1), items[i])
      /\ \A i \in 2..n : Len(items[i - 1]) > 0 =>
           \E to \in job.base..e.addr : \E before \in job.base .. to - 1 :
             /\ Stands(e, p.addr + 2 * (i - 2), Word(before))
             /\ Stands(e, p.addr + 2 * (i - 1), Word(to))
  <2>1. Len(items) \in Nat /\ \A i \in 1..Len(items) : IsSequence(items[i])
    BY <1>1, <1>4
  <2>2. ASSUME NEW s, s = Laid(c, items, "padded"), NEW q, q = Pad(s.db), NEW f, f = Words(q, s.at)
        PROVE  Grown(c, f) /\ IsLookup(f, q.addr, items)
    BY <1>1, <1>5, <2>1, <2>2, PaddedLookup
  <2>3. Grown(c, e) /\ IsLookup(e, p.addr, items)
    BY <1>3, <1>6, <2>2
  <2>4. QED
    BY <1>4, <2>3, Zenon DEF IsLookup
<1>8. Grown(d, e)
  BY <1>1, <1>2, <1>7, GrownOn
<1>9. at = p.addr /\ at \in 0..e.addr
  BY <1>1, <1>7 DEF n
<1>10. ProcessesStand(e, at)
  <2>1. \A i \in 1..job.processes : Leads(e, at + 2 * (i - 1), <<0>>)
    BY <1>4, <1>7, <1>9, Zenon DEF n
  <2>2. ASSUME NEW i \in 2..job.processes
        PROVE  \E to \in job.base..e.addr : \E before \in job.base .. to - 1 :
                 /\ Stands(e, at + 2 * (i - 2), Word(before))
                 /\ Stands(e, at + 2 * (i - 1), Word(to))
    <3>1. i \in 2..n /\ i - 1 \in 1..n
      BY <1>1 DEF n
    <3>2. Len(items[i - 1]) > 0
      <4>1. Len(items[i - 1]) = 1
        BY <1>4, <3>1, Zenon
      <4>2. QED
        BY <4>1
    <3>3. QED
      BY <1>7, <1>9, <3>1, <3>2, Zenon
  <2>3. QED
    BY <2>1, <2>2, Zenon DEF ProcessesStand
<1>11. TableStands(e, 1, at)
  BY <1>10 DEF TableStands
<1>12. QED
  BY <1>7, <1>8, <1>9, <1>11

-----------------------------------------------------------------------------
(* The tables of the objects, and the words.                               *)

(* The objects are numbered from one.                                      *)
LEMMA ObjectsCounted ==
  ASSUME ListsInv
  PROVE  Len(objects) \in Nat /\ DOMAIN objects = 1..Len(objects)
BY LenProperties DEF ListsInv, IsSequence

(* What the emitters count is what they write: the objects' words,         *)
LEMMA ObjectWordsType ==
  ASSUME ListsInv
  PROVE  IsSequence(ObjectWords) /\ Len(ObjectWords) = 2 * Len(objects)
<1> DEFINE pairs == [i \in DOMAIN objects |->
                      <<Byte(objects[i].noun), Byte(objects[i].adjective)>>]
<1>1. Len(objects) \in Nat /\ DOMAIN objects = 1..Len(objects)
  BY ObjectsCounted
<1>2. pairs = [i \in 1..Len(objects) |-> pairs[i]]
  BY <1>1
<1>3. ASSUME NEW i \in 1..Len(objects) PROVE IsSequence(pairs[i]) /\ Len(pairs[i]) = 2
  <2>1. pairs[i] = <<Byte(objects[i].noun), Byte(objects[i].adjective)>>
    BY <1>1
  <2>2. QED
    BY <2>1, Two
<1>4. ObjectWords = FlattenSeq(pairs)
  BY DEF ObjectWords
<1> HIDE DEF pairs
<1>5. IsSequence(pairs) /\ Len(pairs) = Len(objects)
  BY <1>1, <1>2, ByPlaces
<1>6. /\ IsSequence(FlattenSeq(pairs))
      /\ \A m \in Nat : (\A i \in 1..Len(pairs) : Len(pairs[i]) = m)
                          => Len(FlattenSeq(pairs)) = m * Len(pairs)
  BY <1>3, <1>5, FlattenOwn
<1>7. Len(FlattenSeq(pairs)) = 2 * Len(pairs)
  BY <1>3, <1>5, <1>6
<1>8. QED
  BY <1>4, <1>5, <1>6, <1>7

(* their attributes,                                                       *)
LEMMA ObjectWeightsType ==
  ASSUME ListsInv
  PROVE  IsSequence(ObjectWeights) /\ Len(ObjectWeights) = Len(objects)
<1>1. Len(objects) \in Nat /\ DOMAIN objects = 1..Len(objects)
  BY ObjectsCounted
<1> DEFINE w == ObjectWeights
<1>2. w = [i \in 1..Len(objects) |-> w[i]]
  BY <1>1 DEF ObjectWeights
<1> HIDE DEF w
<1>3. QED
  BY <1>1, <1>2, ByPlaces DEF w

(* where they start, with the end mark,                                    *)
LEMMA ObjectPlacesType ==
  ASSUME ListsInv
  PROVE  IsSequence(ObjectPlaces) /\ Len(ObjectPlaces) = Len(objects) + 1
<1>1. Len(objects) \in Nat /\ DOMAIN objects = 1..Len(objects)
  BY ObjectsCounted
<1> DEFINE w == [i \in DOMAIN objects |-> Byte(objects[i].initially)]
<1>2. w = [i \in 1..Len(objects) |-> w[i]] /\ ObjectPlaces = Append(w, 255)
  BY <1>1 DEF ObjectPlaces
<1> HIDE DEF w
<1>3. IsSequence(w) /\ Len(w) = Len(objects)
  BY <1>1, <1>2, ByPlaces
<1>4. QED
  BY <1>2, <1>3, Noted

(* their flags,                                                            *)
LEMMA FlagsType ==
  ASSUME ListsInv
  PROVE  LET flags == [i \in DOMAIN objects |-> objects[i].flags]
         IN  IsSequence(flags) /\ Len(flags) = Len(objects)
<1>1. Len(objects) \in Nat /\ DOMAIN objects = 1..Len(objects)
  BY ObjectsCounted
<1> DEFINE w == [i \in DOMAIN objects |-> objects[i].flags]
<1>2. w = [i \in 1..Len(objects) |-> w[i]]
  BY <1>1
<1> HIDE DEF w
<1>3. IsSequence(w) /\ Len(w) = Len(objects)
  BY <1>1, <1>2, ByPlaces
<1>4. QED
  BY <1>3 DEF w

(* and the records of the vocabulary, with theirs.                         *)
LEMMA WordRecordsType ==
  ASSUME ListsInv
  PROVE  IsSequence(WordRecords) /\ Len(WordRecords) = 7 * Len(voc) + 1
<1> DEFINE Record(w) == [i \in 1..5 |-> Invert(Spelled(w.word)[i])] \o <<Byte(w.value), w.type>>
           records == [i \in DOMAIN voc |-> Record(voc[i])]
<1>1. Len(voc) \in Nat /\ DOMAIN voc = 1..Len(voc)
  BY LenProperties DEF ListsInv, IsSequence
<1>2. ASSUME NEW w PROVE IsSequence(Record(w)) /\ Len(Record(w)) = 7
  <2> DEFINE letters == [i \in 1..5 |-> Invert(Spelled(w.word)[i])]
             rest_ == <<Byte(w.value), w.type>>
  <2>1. letters = [i \in 1..5 |-> letters[i]]
    OBVIOUS
  <2>2. IsSequence(rest_) /\ Len(rest_) = 2
    BY Two
  <2>3. Record(w) = letters \o rest_
    OBVIOUS
  <2> HIDE DEF letters, rest_, Record
  <2>4. IsSequence(letters) /\ Len(letters) = 5
    BY <2>1, ByPlaces
  <2>5. IsSequence(letters \o rest_) /\ Len(letters \o rest_) = Len(letters) + Len(rest_)
    BY <2>2, <2>4, ConcatOwn
  <2>6. QED
    BY <2>2, <2>3, <2>4, <2>5
<1> HIDE DEF Record
<1>3. records = [i \in 1..Len(voc) |-> records[i]]
  BY <1>1
<1>4. \A i \in 1..Len(voc) : records[i] = Record(voc[i])
  BY <1>1
<1>5. WordRecords = Append(FlattenSeq(records), 0)
  BY DEF WordRecords, Record
<1> HIDE DEF records
<1>6. IsSequence(records) /\ Len(records) = Len(voc)
  BY <1>1, <1>3, ByPlaces
<1>7. \A i \in 1..Len(records) : IsSequence(records[i]) /\ Len(records[i]) = 7
  BY <1>2, <1>4, <1>6
<1>8. /\ IsSequence(FlattenSeq(records))
      /\ \A m \in Nat : (\A i \in 1..Len(records) : Len(records[i]) = m)
                          => Len(FlattenSeq(records)) = m * Len(records)
  BY <1>6, <1>7, FlattenOwn
<1>9. Len(FlattenSeq(records)) = 7 * Len(records)
  BY <1>7, <1>8
<1>10. QED
  BY <1>5, <1>6, <1>8, <1>9, Noted

-----------------------------------------------------------------------------
(* What is noted of a file that grows.                                     *)

(* Words noted stay good in a file that keeps its bytes,                   *)
LEMMA WordsKept ==
  ASSUME NEW d, NEW e, Keeps(d, e), job.base \in Nat, NEW words,
         NEW known \in SUBSET (0..11), WordsKnown(d, words, known)
  PROVE  WordsKnown(e, words, known)
<1>1. DOMAIN words = known
  BY Zenon DEF WordsKnown
<1>2. ASSUME NEW k \in known
      PROVE  /\ words[k] \in 0..e.addr /\ TableStands(e, k, words[k])
             /\ job.padding => words[k] % 2 = 0
  <2>1. /\ words[k] \in 0..d.addr /\ TableStands(d, k, words[k])
        /\ job.padding => words[k] % 2 = 0
    BY DEF WordsKnown
  <2>2. words[k] \in 0..e.addr
    BY <2>1, KeptTypes
  <2>3. TableStands(e, k, words[k])
    BY <2>1, TableKept
  <2>4. QED
    BY <2>1, <2>2, <2>3
<1>3. QED
  BY <1>1, <1>2 DEF WordsKnown

(* as in one that grows.                                                   *)
LEMMA WordsOn ==
  ASSUME NEW d, NEW e, Grown(d, e), job.base \in Nat, NEW words,
         NEW known \in SUBSET (0..11), WordsKnown(d, words, known)
  PROVE  WordsKnown(e, words, known)
BY GrownKeeps, WordsKept, Zenon

(* More words noted.                                                       *)
LEMMA WordsAdded ==
  ASSUME NEW e, NEW words, NEW known, WordsKnown(e, words, known),
         NEW more, NEW new, WordsKnown(e, new, more),
         NEW all, all = [k \in DOMAIN new \cup DOMAIN words |->
                           IF k \in DOMAIN new THEN new[k] ELSE words[k]]
  PROVE  WordsKnown(e, all, more \cup known)
<1>1. /\ DOMAIN words = known /\ DOMAIN new = more
      /\ \A k \in known : /\ words[k] \in 0..e.addr /\ TableStands(e, k, words[k])
                          /\ job.padding => words[k] % 2 = 0
      /\ \A k \in more : /\ new[k] \in 0..e.addr /\ TableStands(e, k, new[k])
                         /\ job.padding => new[k] % 2 = 0
  BY DEF WordsKnown
<1>2. DOMAIN all = more \cup known
  BY <1>1
<1>3. ASSUME NEW k \in more \cup known
      PROVE  /\ all[k] \in 0..e.addr /\ TableStands(e, k, all[k])
             /\ job.padding => all[k] % 2 = 0
  <2>1. CASE k \in more
    <3>1. all[k] = new[k]
      BY <1>1, <2>1
    <3>2. QED
      BY <1>1, <2>1, <3>1
  <2>2. CASE k \notin more
    <3>1. all[k] = words[k] /\ k \in known
      BY <1>1, <2>2
    <3>2. QED
      BY <1>1, <3>1
  <2>3. QED
    BY <2>1, <2>2
<1>4. QED
  BY <1>2, <1>3 DEF WordsKnown

-----------------------------------------------------------------------------
(* A step that leaves the lists and the texts leaves what is said of them. *)
LEMMA SameGame ==
  ASSUME UNCHANGED <<source, loaded>>
  PROVE  /\ LoadedInv' <=> LoadedInv
         /\ Version' = Version
         /\ \A d : IsImage(d)' <=> IsImage(d)
         /\ \A d, words, known : WordsKnown(d, words, known)' <=> WordsKnown(d, words, known)
         /\ \A d, k, a : VectorStands(d, k, a)' <=> VectorStands(d, k, a)
         /\ \A d, v : HeaderStands(d, v)' <=> HeaderStands(d, v)
<1>1. /\ job' = job /\ texts' = texts /\ objects' = objects /\ voc' = voc
      /\ connections' = connections /\ loaded' = loaded
  BY DEF source
<1>2. LoadedInv' <=> LoadedInv
  BY <1>1 DEF LoadedInv
<1>3. Version' = Version
  BY <1>1 DEF Version
<1>4. \A d : IsImage(d)' <=> IsImage(d)
  BY <1>1 DEF IsImage
<1>5. \A v : Word(v)' = Word(v)
  BY <1>1 DEF Word
<1>6. \A d, a, b : Stands(d, a, b)' <=> Stands(d, a, b)
  BY <1>1 DEF Stands
<1>7. \A d, a, b : Leads(d, a, b)' <=> Leads(d, a, b)
  BY <1>1, <1>5, <1>6 DEF Leads
<1>8. \A d, a, b : LeadsInStream(d, a, b)' <=> LeadsInStream(d, a, b)
  BY <1>5, <1>6 DEF LeadsInStream
<1>9. \A t : Items(t)' = Items(t)
  BY <1>1 DEF Items
<1>10. \A d, t, a : TextsStand(d, t, a)' <=> TextsStand(d, t, a)
  BY <1>1, <1>7, <1>8, <1>9 DEF TextsStand
<1>11. \A d, a : ProcessesStand(d, a)' <=> ProcessesStand(d, a)
  BY <1>1, <1>5, <1>6, <1>7 DEF ProcessesStand
<1>12. /\ Exits' = Exits /\ WordRecords' = WordRecords /\ ObjectPlaces' = ObjectPlaces
       /\ ObjectWords' = ObjectWords /\ ObjectWeights' = ObjectWeights /\ TokenBytes' = TokenBytes
  BY <1>1 DEF Exits, WordRecords, ObjectPlaces, ObjectWords, ObjectWeights, TokenBytes
<1>13. \A d, k, a : TableStands(d, k, a)' <=> TableStands(d, k, a)
  <2> SUFFICES ASSUME NEW d, NEW k, NEW a
               PROVE  TableStands(d, k, a)' <=> TableStands(d, k, a)
    OBVIOUS
  <2>1. (\A i \in DOMAIN Exits : Leads(d, a + 2 * (i - 1), Exits[i]))' <=>
          \A i \in DOMAIN Exits : Leads(d, a + 2 * (i - 1), Exits[i])
    BY <1>7, <1>12
  <2>2. (\A i \in DOMAIN objects : Stands(d, a + 2 * (i - 1), Word(objects[i].flags)))' <=>
          \A i \in DOMAIN objects : Stands(d, a + 2 * (i - 1), Word(objects[i].flags))
    BY <1>1, <1>5, <1>6
  <2>3. QED
    BY <1>1, <1>6, <1>10, <1>11, <1>12, <2>1, <2>2 DEF TableStands
<1>14. \A d, words, known : WordsKnown(d, words, known)' <=> WordsKnown(d, words, known)
  BY <1>1, <1>13 DEF WordsKnown
<1>15. \A i : LastOfType(i)' <=> LastOfType(i)
  BY <1>1 DEF LastOfType
<1>16. \A d, k, a : VectorStands(d, k, a)' <=> VectorStands(d, k, a)
  BY <1>1, <1>6, <1>15 DEF VectorStands
<1>17. \A v : Byte(v)' = Byte(v)
  BY DEF Byte
<1>18. Counts' = Counts
  BY <1>1 DEF Counts
<1>19. \A d, v : HeaderStands(d, v)' <=> HeaderStands(d, v)
  BY <1>1, <1>17, <1>18 DEF HeaderStands
<1>20. QED
  BY <1>2, <1>3, <1>4, <1>14, <1>16, <1>19

(* Steps behind the parser leave the lists as they are.                    *)
LEMMA SameLists ==
  ASSUME ListsInv, UNCHANGED source, section = "PRO"
  PROVE  ListsInv'
<1>1. /\ job' = job /\ texts' = texts /\ objects' = objects /\ voc' = voc
      /\ connections' = connections /\ rest' = rest /\ section' = section
  BY DEF source
<1>2. QED
  BY <1>1 DEF ListsInv, IsSequence

-----------------------------------------------------------------------------
(* The driver's steps.                                                     *)

Between == {"OTX", "objects", "vocabulary", "tokens", "STX", "MTX", "LTX", "connections"}

(* What is known before the header is patched.                             *)
LEMMA Before ==
  ASSUME FileInv, status \in {"externs", "processes"} \cup Between
  PROVE  /\ job \in Jobs /\ job.base \in Nat /\ ListsInv /\ LoadedInv /\ section = "PRO"
         /\ Len(objects) = Len(loaded.OTX)
         /\ IsImage(db) /\ Len(db.out) \in Nat /\ Len(db.out) >= 60 /\ db.addr \in Nat
         /\ WordsKnown(db, offsets, KnownWords[status])
         /\ \A k \in 0..2 : VectorStands(db, k, extvec[k])
         /\ HeaderStands(db, Version)
         /\ status \in Between => (job.padding => db.addr % 2 = 0)
<1>1. ListsInv
  BY DEF FileInv
<1>2. status \in DOMAIN KnownWords /\ status \notin {"header", "done", "parsing", "refused"}
  BY DEF KnownWords, Between
<1>3. /\ LoadedInv /\ IsImage(db) /\ WordsKnown(db, offsets, KnownWords[status])
      /\ \A k \in 0..2 : VectorStands(db, k, extvec[k])
      /\ HeaderStands(db, Version)
  <2> HIDE DEF KnownWords
  <2>1. QED
    BY <1>2, Zenon DEF FileInv
<1>4. status \in Between => (job.padding => db.addr % 2 = 0)
  BY DEF FileInv, Between
<1>5. job \in Jobs /\ section = "PRO" /\ Len(objects) = Len(texts.OTX)
  BY <1>1, <1>2 DEF ListsInv
<1>6. job.base \in Nat
  BY <1>5, JobType
<1>7. Len(objects) = Len(loaded.OTX)
  BY <1>3, <1>5 DEF LoadedInv, Tables
<1>8. Len(db.out) \in Nat /\ db.addr \in Nat
  BY <1>3, <1>6, ImageType
<1>9. Len(db.out) >= 60
  BY <1>3, Zenon DEF HeaderStands
<1>10. QED
  BY <1>1, <1>3, <1>4, <1>5, <1>6, <1>7, <1>8, <1>9

(* A step that adds to the file, and notes what it added.                  *)
LEMMA Emitted ==
  ASSUME FileInv, status \in {"externs"} \cup Between,
         NEW stage, NEW next \in {"processes"} \cup Between, NEW d, NEW words,
         Emit(stage, next, d, words), Grown(db, d),
         KnownWords[next] = DOMAIN words \cup KnownWords[status],
         \A k \in DOMAIN words :
           /\ words[k] \in 0..d.addr /\ TableStands(d, k, words[k])
           /\ job.padding => words[k] % 2 = 0,
         next # "processes" => (job.padding => d.addr % 2 = 0)
  PROVE  FileInv'
<1>1. /\ job \in Jobs /\ job.base \in Nat /\ ListsInv /\ LoadedInv /\ section = "PRO"
      /\ WordsKnown(db, offsets, KnownWords[status])
      /\ \A k \in 0..2 : VectorStands(db, k, extvec[k])
      /\ HeaderStands(db, Version)
  BY Before
<1>2. /\ status' = next /\ db' = d /\ UNCHANGED <<source, loaded, extvec>>
      /\ offsets' = [k \in DOMAIN words \cup DOMAIN offsets |->
                       IF k \in DOMAIN words THEN words[k] ELSE offsets[k]]
  BY DEF Emit
<1>3. WordsKnown(d, offsets, KnownWords[status])
  <2>1. KnownWords[status] \in SUBSET (0..11)
    BY DEF KnownWords, Between
  <2>2. QED
    BY <1>1, <2>1, WordsOn
<1>4. WordsKnown(d, offsets', KnownWords[next])
  <2>0. PICK more : more = DOMAIN words
    OBVIOUS
  <2>1. WordsKnown(d, words, more)
    BY <2>0 DEF WordsKnown
  <2>2. WordsKnown(d, offsets', more \cup KnownWords[status])
    <3>1. ASSUME NEW known, NEW old, WordsKnown(d, old, known), NEW all,
                 all = [k \in DOMAIN words \cup DOMAIN old |->
                          IF k \in DOMAIN words THEN words[k] ELSE old[k]]
          PROVE  WordsKnown(d, all, more \cup known)
      BY <2>1, <3>1, WordsAdded, Zenon
    <3>2. QED
      BY <1>2, <1>3, <3>1
  <2>3. KnownWords[next] = more \cup KnownWords[status]
    BY <2>0
  <2>4. QED
    BY <1>2, <2>2, <2>3
<1>5. \A k \in 0..2 : VectorStands(d, k, extvec[k])
  BY <1>1, VectorOn
<1>6. HeaderStands(d, Version)
  BY <1>1, HeaderOn
<1>7. IsImage(d)
  BY Zenon DEF Grown
<1>8. /\ LoadedInv' /\ IsImage(db)' /\ HeaderStands(db, Version)'
      /\ WordsKnown(db, offsets, KnownWords[status])'
      /\ \A k \in 0..2 : VectorStands(db, k, extvec[k])'
  <2>1. /\ LoadedInv' <=> LoadedInv
        /\ Version' = Version
        /\ \A f : IsImage(f)' <=> IsImage(f)
        /\ \A f, w, known : WordsKnown(f, w, known)' <=> WordsKnown(f, w, known)
        /\ \A f, k, a : VectorStands(f, k, a)' <=> VectorStands(f, k, a)
        /\ \A f, v : HeaderStands(f, v)' <=> HeaderStands(f, v)
    BY <1>2, SameGame
  <2>2. KnownWords' = KnownWords
    BY DEF KnownWords
  <2>3. extvec' = extvec
    BY <1>2
  <2>4. WordsKnown(db, offsets, KnownWords[status])'
    BY <1>2, <1>4, <2>1, <2>2
  <2>5. \A k \in 0..2 : VectorStands(db, k, extvec[k])'
    BY <1>2, <1>5, <2>1, <2>3
  <2>6. QED
    BY <1>1, <1>2, <1>6, <1>7, <2>1, <2>4, <2>5
<1>9. ListsInv'
  BY <1>1, <1>2, SameLists
<1>10. /\ status' \notin {"parsing", "parsed", "loaded", "header", "done"}
       /\ status' # "processes" => (job' = job /\ (job.padding => db'.addr % 2 = 0))
  BY <1>2 DEF Between, source
<1>11. status' \in {"OTX", "objects", "vocabulary", "tokens", "STX", "MTX", "LTX", "connections"} =>
         (job'.padding => db'.addr % 2 = 0)
  BY <1>10
<1>12. QED
  BY <1>8, <1>9, <1>10, <1>11, Zenon DEF FileInv

-----------------------------------------------------------------------------
(* The steps between the externs and the processes.                        *)

(* A table of texts, with the header word that leads to it.                *)
HasWord(table, k) == <<table, k>> \in {<<"OTX", 2>>, <<"LTX", 3>>, <<"MTX", 4>>, <<"STX", 5>>}

(* A table of texts, padded, stands where its header word will say.        *)
LEMMA TextsWritten ==
  ASSUME LoadedInv, job.base \in Nat, NEW d, IsImage(d), Len(d.out) >= 60,
         NEW table, NEW k, HasWord(table, k),
         NEW e, e = EmitMessages(d, table), NEW at, at = e.addr - 2 * Len(loaded[table])
  PROVE  /\ Grown(d, Pad(e)) /\ at \in 0..Pad(e).addr /\ TableStands(Pad(e), k, at)
         /\ job.padding => at % 2 = 0 /\ Pad(e).addr % 2 = 0
<1>1. table \in Tables /\ k \in 0..11
  BY DEF Tables, HasWord
<1>2. /\ Grown(d, e) /\ at \in 0..e.addr /\ TextsStand(e, table, at)
      /\ job.padding => at % 2 = 0
  BY <1>1, MessagesWritten
<1>3. TableStands(e, k, at)
  <2>1. CASE table = "OTX" /\ k = 2
    BY <1>2, <2>1 DEF TableStands
  <2>2. CASE table = "LTX" /\ k = 3
    BY <1>2, <2>2 DEF TableStands
  <2>3. CASE table = "MTX" /\ k = 4
    BY <1>2, <2>3 DEF TableStands
  <2>4. CASE table = "STX" /\ k = 5
    BY <1>2, <2>4 DEF TableStands
  <2>5. QED
    BY <2>1, <2>2, <2>3, <2>4 DEF HasWord
<1>4. IsImage(e)
  BY <1>2, Zenon DEF Grown
<1>5. Grown(e, Pad(e)) /\ (job.padding => Pad(e).addr % 2 = 0)
  BY <1>4, Padded
<1>6. TableStands(Pad(e), k, at)
  BY <1>1, <1>3, <1>5, TableOn
<1>7. e.addr \in Nat /\ Pad(e).addr \in Nat /\ e.addr <= Pad(e).addr
  BY <1>5, GrownTypes
<1>8. Grown(d, Pad(e))
  BY <1>2, <1>5, GrownOn
<1>9. at \in 0..Pad(e).addr
  BY <1>2, <1>7
<1>10. QED
  BY <1>2, <1>5, <1>6, <1>8, <1>9

(* A file with a header keeps one as it grows.                             *)
LEMMA LongEnough ==
  ASSUME NEW d, NEW e, Grown(d, e), job.base \in Nat, Len(d.out) >= 60
  PROVE  IsImage(e) /\ Len(e.out) >= 60
<1>1. IsImage(e)
  BY Zenon DEF Grown
<1>2. Len(d.out) \in Nat /\ Len(e.out) \in Nat /\ Len(d.out) <= Len(e.out)
  BY GrownTypes
<1>3. QED
  BY <1>1, <1>2

(* A step that notes one word.                                             *)
LEMMA EmittedOne ==
  ASSUME FileInv, status \in {"externs"} \cup Between,
         NEW stage, NEW next \in {"processes"} \cup Between, NEW d, NEW k, NEW at,
         NEW words, words = [j \in {k} |-> at], Emit(stage, next, d, words), Grown(db, d),
         KnownWords[next] = {k} \cup KnownWords[status],
         at \in 0..d.addr, TableStands(d, k, at), job.padding => at % 2 = 0,
         next # "processes" => (job.padding => d.addr % 2 = 0)
  PROVE  FileInv'
<1>2. DOMAIN words = {k} /\ words[k] = at
  OBVIOUS
<1>3. \A j \in DOMAIN words :
        /\ words[j] \in 0..d.addr /\ TableStands(d, j, words[j])
        /\ job.padding => words[j] % 2 = 0
  BY <1>2
<1>5. KnownWords[next] = DOMAIN words \cup KnownWords[status]
  BY <1>2
<1>6. QED
  BY <1>3, <1>5, Emitted

(* The texts of the objects, behind padding.                               *)
LEMMA ObjectTextsKeep ==
  ASSUME FileInv, WriteObjectTexts
  PROVE  FileInv'
<1> DEFINE p == Pad(db)
           d == EmitMessages(p, "OTX")
           at == d.addr - 2 * Len(objects)
<1>1. status = "externs" /\ Emit("externs", "OTX", Pad(d), [k \in {2} |-> at])
  BY DEF WriteObjectTexts, Emit
<1>2. /\ job.base \in Nat /\ LoadedInv /\ IsImage(db) /\ Len(db.out) >= 60
      /\ Len(objects) = Len(loaded.OTX)
  BY <1>1, Before
<1>3. Grown(db, p)
  BY <1>2, Padded
<1> HIDE DEF p
<1>4. IsImage(p) /\ Len(p.out) >= 60
  BY <1>2, <1>3, LongEnough
<1>5. /\ Grown(p, Pad(d)) /\ at \in 0..Pad(d).addr /\ TableStands(Pad(d), 2, at)
      /\ job.padding => at % 2 = 0 /\ Pad(d).addr % 2 = 0
  <2>1. at = d.addr - 2 * Len(loaded["OTX"])
    BY <1>2
  <2> HIDE DEF at
  <2>2. HasWord("OTX", 2)
    BY DEF HasWord
  <2> HIDE DEF d
  <2>3. d = EmitMessages(p, "OTX")
    BY DEF d
  <2>4. QED
    BY <1>2, <1>4, <2>1, <2>2, <2>3, TextsWritten
<1>6. Grown(db, Pad(d))
  BY <1>2, <1>3, <1>5, GrownOn
<1>7. KnownWords["OTX"] = {2} \cup KnownWords[status] /\ "OTX" \in Between
      /\ status \in {"externs"} \cup Between
  BY <1>1 DEF KnownWords, Between
<1> HIDE DEF d, at
<1>8. ASSUME NEW words, words = [k \in {2} |-> at]
      PROVE  FileInv'
  BY <1>1, <1>5, <1>6, <1>7, <1>8, EmittedOne
<1>9. QED
  BY <1>8

(* The other three tables.                                                 *)
LEMMA TextsKeep ==
  ASSUME FileInv, NEW stage \in Between, NEW table, NEW word, HasWord(table, word),
         table \in Between, WriteTexts(stage, table, word),
         KnownWords[table] = {word} \cup KnownWords[stage]
  PROVE  FileInv'
<1>1. PICK d : d = EmitMessages(db, table)
  OBVIOUS
<1>2. PICK at : at = d.addr - 2 * Len(loaded[table])
  OBVIOUS
<1>3. PICK words : words = [k \in {word} |-> at]
  OBVIOUS
<1>4. status = stage /\ Emit(stage, table, Pad(d), words)
  BY <1>1, <1>2, <1>3 DEF WriteTexts, Emit
<1>5. job.base \in Nat /\ LoadedInv /\ IsImage(db) /\ Len(db.out) >= 60
  BY <1>4, Before
<1>6. /\ Grown(db, Pad(d)) /\ at \in 0..Pad(d).addr /\ TableStands(Pad(d), word, at)
      /\ job.padding => at % 2 = 0 /\ Pad(d).addr % 2 = 0
  BY <1>1, <1>2, <1>5, TextsWritten
<1>7. /\ KnownWords[table] = {word} \cup KnownWords[status]
      /\ status \in {"externs"} \cup Between /\ table \in {"processes"} \cup Between
      /\ job.padding => at % 2 = 0
      /\ job.padding => Pad(d).addr % 2 = 0
  BY <1>4, <1>6
<1>8. QED
  BY <1>3, <1>4, <1>6, <1>7, EmittedOne

(* System messages, messages and locations.                                *)
LEMMA TextTablesKeep ==
  ASSUME FileInv, WriteSTX \/ WriteMTX \/ WriteLTX
  PROVE  FileInv'
<1>1. CASE WriteSTX
  <2>1. /\ HasWord("STX", 5) /\ "tokens" \in Between /\ "STX" \in Between
        /\ KnownWords["STX"] = {5} \cup KnownWords["tokens"]
    BY DEF HasWord, Between, KnownWords
  <2>2. WriteTexts("tokens", "STX", 5)
    BY <1>1 DEF WriteSTX
  <2>3. QED
    BY <2>1, <2>2, TextsKeep
<1>2. CASE WriteMTX
  <2>1. /\ HasWord("MTX", 4) /\ "STX" \in Between /\ "MTX" \in Between
        /\ KnownWords["MTX"] = {4} \cup KnownWords["STX"]
    BY DEF HasWord, Between, KnownWords
  <2>2. WriteTexts("STX", "MTX", 4)
    BY <1>2 DEF WriteMTX
  <2>3. QED
    BY <2>1, <2>2, TextsKeep
<1>3. CASE WriteLTX
  <2>1. /\ HasWord("LTX", 3) /\ "MTX" \in Between /\ "LTX" \in Between
        /\ KnownWords["LTX"] = {3} \cup KnownWords["MTX"]
    BY DEF HasWord, Between, KnownWords
  <2>2. WriteTexts("MTX", "LTX", 3)
    BY <1>3 DEF WriteLTX
  <2>3. QED
    BY <2>1, <2>2, TextsKeep
<1>4. QED
  BY <1>1, <1>2, <1>3

(* A list of bytes pushed, and padding behind it.                          *)
LEMMA PushedAndPadded ==
  ASSUME NEW d, IsImage(d), job.base \in Nat, NEW bytes, IsSequence(bytes),
         NEW n, n = Len(bytes), NEW e, e = Push(d, bytes, n)
  PROVE  /\ Grown(d, e) /\ Grown(e, Pad(e)) /\ Grown(d, Pad(e))
         /\ d.addr \in 0..e.addr /\ d.addr \in 0..Pad(e).addr
         /\ Len(d.out) >= 60 => Stands(e, d.addr, bytes)
         /\ Len(d.out) >= 60 => Stands(Pad(e), d.addr, bytes)
         /\ job.padding => Pad(e).addr % 2 = 0
<1>1. Grown(d, e) /\ (Len(d.out) >= 60 => Stands(e, d.addr, bytes))
  BY Pushed
<1>2. IsImage(e)
  BY <1>1, Zenon DEF Grown
<1>3. Grown(e, Pad(e)) /\ (job.padding => Pad(e).addr % 2 = 0)
  BY <1>2, Padded
<1>4. Grown(d, Pad(e))
  BY <1>1, <1>3, GrownOn
<1>5. Len(d.out) >= 60 => Stands(Pad(e), d.addr, bytes)
  BY <1>1, <1>3, StandsOn
<1>6. /\ d.addr \in Nat /\ e.addr \in Nat /\ Pad(e).addr \in Nat
      /\ d.addr <= e.addr /\ d.addr <= Pad(e).addr
  BY <1>1, <1>4, GrownTypes
<1>7. d.addr \in 0..e.addr /\ d.addr \in 0..Pad(e).addr
  BY <1>6
<1>8. QED
  BY <1>1, <1>3, <1>4, <1>5, <1>7

(* The vocabulary, behind padding.                                         *)
LEMMA VocabularyKeeps ==
  ASSUME FileInv, WriteVocabulary
  PROVE  FileInv'
<1>1. PICK p : p = Pad(db)
  OBVIOUS
<1>2. PICK d : d = EmitVocabulary(p)
  OBVIOUS
<1>3. PICK at : at = p.addr
  OBVIOUS
<1>4. PICK words : words = [k \in {7} |-> at]
  OBVIOUS
<1>5. status = "objects" /\ Emit("objects", "vocabulary", Pad(d), words)
  BY <1>1, <1>2, <1>3, <1>4 DEF WriteVocabulary, Emit
<1>6. status \in {"externs"} \cup Between
  BY <1>5 DEF Between
<1>7. job.base \in Nat /\ IsImage(db) /\ Len(db.out) >= 60 /\ ListsInv
  BY <1>6, Before
<1>8. Grown(db, p) /\ (job.padding => p.addr % 2 = 0)
  BY <1>1, <1>7, Padded
<1>9. IsImage(p) /\ Len(p.out) >= 60
  BY <1>7, <1>8, LongEnough
<1>10. IsSequence(WordRecords) /\ 7 * Len(voc) + 1 = Len(WordRecords)
  BY <1>7, WordRecordsType
<1>11. d = Push(p, WordRecords, 7 * Len(voc) + 1)
  BY <1>2 DEF EmitVocabulary
<1>12. /\ Grown(p, Pad(d)) /\ p.addr \in 0..Pad(d).addr /\ Stands(Pad(d), p.addr, WordRecords)
       /\ job.padding => Pad(d).addr % 2 = 0
  BY <1>7, <1>9, <1>10, <1>11, PushedAndPadded
<1>13. Grown(db, Pad(d))
  BY <1>7, <1>8, <1>12, GrownOn
<1>14. TableStands(Pad(d), 7, at)
  BY <1>3, <1>12 DEF TableStands
<1>15. KnownWords["vocabulary"] = {7} \cup KnownWords[status] /\ "vocabulary" \in Between
  BY <1>5 DEF KnownWords, Between
<1>16. QED
  BY <1>3, <1>4, <1>5, <1>6, <1>8, <1>12, <1>13, <1>14, <1>15, EmittedOne

(* The tokens, if there are any here.                                      *)
LEMMA TokensKeep ==
  ASSUME FileInv, WriteTokens
  PROVE  FileInv'
<1>1. PICK d : d = IF job.text2 THEN db ELSE Push(db, TokenBytes, job.tokens)
  OBVIOUS
<1>2. PICK at : at = IF job.hasTokens /\ ~job.text2 THEN db.addr ELSE 0
  OBVIOUS
<1>3. PICK words : words = [k \in {0} |-> at]
  OBVIOUS
<1>4. status = "vocabulary" /\ Emit("vocabulary", "tokens", Pad(d), words)
  BY <1>1, <1>2, <1>3 DEF WriteTokens, Emit
<1>5. status \in {"externs"} \cup Between
  BY <1>4 DEF Between
<1>6. /\ job \in Jobs /\ job.base \in Nat /\ IsImage(db) /\ Len(db.out) >= 60
      /\ status \in Between => (job.padding => db.addr % 2 = 0)
  BY <1>5, Before
<1>7. /\ Grown(db, Pad(d)) /\ (job.padding => Pad(d).addr % 2 = 0)
      /\ db.addr \in 0..Pad(d).addr
      /\ ~job.text2 => Stands(Pad(d), db.addr, TokenBytes)
  <2>1. CASE job.text2
    <3>1. Grown(db, Pad(d)) /\ (job.padding => Pad(d).addr % 2 = 0)
      BY <1>1, <1>6, <2>1, Padded
    <3>2. QED
      BY <1>6, <2>1, <3>1, GrownTypes
  <2>2. CASE ~job.text2
    <3>1. job.tokens \in Nat
      BY <1>6, JobType
    <3>2. TokenBytes = [i \in 1..job.tokens |-> TokenBytes[i]]
      BY DEF TokenBytes
    <3>3. IsSequence(TokenBytes) /\ job.tokens = Len(TokenBytes)
      BY <3>1, <3>2, ByPlaces, Zenon
    <3>4. d = Push(db, TokenBytes, job.tokens)
      BY <1>1, <2>2
    <3>5. QED
      BY <1>6, <3>3, <3>4, PushedAndPadded
  <2>3. QED
    BY <2>1, <2>2
<1>8. TableStands(Pad(d), 0, at)
  BY <1>2, <1>7 DEF TableStands
<1>9. at \in 0..Pad(d).addr /\ (job.padding => at % 2 = 0)
  <2>1. status \in Between
    BY <1>4 DEF Between
  <2>2. Pad(d).addr \in Nat
    BY <1>6, <1>7, GrownTypes
  <2>3. CASE at = 0
    BY <2>2, <2>3
  <2>4. CASE at = db.addr
    BY <1>6, <1>7, <2>1, <2>4
  <2>5. QED
    BY <1>2, <2>3, <2>4
<1>10. KnownWords["tokens"] = {0} \cup KnownWords[status] /\ "tokens" \in Between
  BY <1>4 DEF KnownWords, Between
<1>11. QED
  BY <1>3, <1>4, <1>5, <1>7, <1>8, <1>9, <1>10, EmittedOne

(* The connections.                                                        *)
LEMMA ConnectionsKeep ==
  ASSUME FileInv, WriteConnections
  PROVE  FileInv'
<1>1. PICK c : c = EmitConnections(db)
  OBVIOUS
<1>2. PICK words : words = [k \in {6} |-> c.lookup]
  OBVIOUS
<1>3. status = "LTX" /\ Emit("LTX", "connections", c.db, words)
  BY <1>1, <1>2 DEF WriteConnections, Emit
<1>4. status \in {"externs"} \cup Between
  BY <1>3 DEF Between
<1>5. job.base \in Nat /\ IsImage(db) /\ Len(db.out) >= 60 /\ ListsInv /\ LoadedInv
  BY <1>4, Before
<1>6. /\ Grown(db, c.db) /\ c.lookup \in 0..c.db.addr /\ TableStands(c.db, 6, c.lookup)
      /\ job.padding => c.lookup % 2 = 0 /\ c.db.addr % 2 = 0
  BY <1>1, <1>5, ConnectionsWritten
<1>7. KnownWords["connections"] = {6} \cup KnownWords[status] /\ "connections" \in Between
  BY <1>3 DEF KnownWords, Between
<1>8. QED
  BY <1>2, <1>3, <1>4, <1>6, <1>7, EmittedOne

(* The processes.                                                          *)
LEMMA ProcessesKeep ==
  ASSUME FileInv, WriteProcesses
  PROVE  FileInv'
<1>1. PICK d : d = EmitProcesses(db)
  OBVIOUS
<1>2. PICK at : at = d.addr - 2 * job.processes
  OBVIOUS
<1>3. PICK words : words = [k \in {1} |-> at]
  OBVIOUS
<1>4. status = "connections" /\ Emit("connections", "processes", d, words)
  BY <1>1, <1>2, <1>3 DEF WriteProcesses, Emit
<1>5. status \in {"externs"} \cup Between
  BY <1>4 DEF Between
<1>6. job \in Jobs /\ IsImage(db) /\ Len(db.out) >= 60
  BY <1>5, Before
<1>7. /\ Grown(db, d) /\ at \in 0..d.addr /\ TableStands(d, 1, at)
      /\ job.padding => at % 2 = 0
  BY <1>1, <1>2, <1>6, ProcessesWritten
<1>8. KnownWords["processes"] = {1} \cup KnownWords[status]
  BY <1>4 DEF KnownWords
<1>9. QED
  BY <1>3, <1>4, <1>5, <1>7, <1>8, EmittedOne

(* The four tables of the objects, one after the other.                    *)
LEMMA ObjectsKeep ==
  ASSUME FileInv, WriteObjects
  PROVE  FileInv'
<1>1. PICK names : names = EmitObjectNames(db)
  OBVIOUS
<1>2. PICK heavy : heavy = EmitWeights(names)
  OBVIOUS
<1>3. PICK weights : weights = Pad(heavy)
  OBVIOUS
<1>4. PICK extra : extra = EmitExtra(weights)
  OBVIOUS
<1>5. PICK places : places = EmitInitially(extra)
  OBVIOUS
<1>6. PICK words : words = [k \in 8..11 |-> CASE k = 9 -> db.addr [] k = 10 -> names.addr
                                               [] k = 11 -> weights.addr [] k = 8 -> extra.addr]
  OBVIOUS
<1>7. status = "OTX" /\ Emit("OTX", "objects", Pad(places), words)
  BY <1>1, <1>2, <1>3, <1>4, <1>5, <1>6 DEF WriteObjects, Emit
<1>8. status \in {"externs"} \cup Between /\ status \in Between
  BY <1>7 DEF Between
<1>9. /\ job.base \in Nat /\ IsImage(db) /\ Len(db.out) >= 60 /\ ListsInv
      /\ job.padding => db.addr % 2 = 0
  BY <1>8, Before
<1>10. db.addr \in Nat /\ Len(objects) \in Nat
  BY <1>9, ImageType, ObjectsCounted
<1>11. /\ Grown(db, names) /\ Stands(names, db.addr, ObjectWords)
       /\ names.addr = db.addr + 2 * Len(objects)
  <2>1. IsSequence(ObjectWords) /\ 2 * Len(objects) = Len(ObjectWords)
    BY <1>9, ObjectWordsType
  <2>2. names = Push(db, ObjectWords, 2 * Len(objects))
    BY <1>1 DEF EmitObjectNames
  <2>3. QED
    BY <1>9, <2>1, <2>2, Pushed
<1>12. IsImage(names) /\ Len(names.out) >= 60
  BY <1>9, <1>11, LongEnough
<1>13. /\ Grown(names, heavy) /\ Stands(heavy, names.addr, ObjectWeights)
       /\ Grown(names, weights) /\ Stands(weights, names.addr, ObjectWeights)
       /\ job.padding => weights.addr % 2 = 0
  <2>1. IsSequence(ObjectWeights) /\ Len(objects) = Len(ObjectWeights)
    BY <1>9, ObjectWeightsType
  <2>2. heavy = Push(names, ObjectWeights, Len(objects))
    BY <1>2 DEF EmitWeights
  <2>3. QED
    BY <1>3, <1>9, <1>12, <2>1, <2>2, PushedAndPadded
<1>14. IsImage(weights) /\ Len(weights.out) >= 60
  BY <1>9, <1>12, <1>13, LongEnough
<1>15. /\ Grown(weights, extra) /\ extra.addr = weights.addr + 2 * Len(objects)
       /\ \A i \in DOMAIN objects :
            Stands(extra, weights.addr + 2 * (i - 1), Word(objects[i].flags))
  <2>1. PICK flags : flags = [i \in DOMAIN objects |-> objects[i].flags]
    OBVIOUS
  <2>2. IsSequence(flags) /\ Len(flags) = Len(objects)
    BY <1>9, <2>1, FlagsType
  <2>3. extra = Words(weights, flags)
    BY <1>4, <2>1 DEF EmitExtra
  <2>4. /\ Grown(weights, extra) /\ extra.addr = weights.addr + 2 * Len(flags)
        /\ \A i \in 1..Len(flags) : Stands(extra, weights.addr + 2 * (i - 1), Word(flags[i]))
    BY <1>9, <1>14, <2>2, <2>3, WordsWritten
  <2>5. DOMAIN objects = 1..Len(objects)
    BY <1>9, ObjectsCounted
  <2>6. \A i \in DOMAIN objects : flags[i] = objects[i].flags
    BY <2>1
  <2>7. QED
    BY <2>2, <2>4, <2>5, <2>6
<1>16. IsImage(extra) /\ Len(extra.out) >= 60
  BY <1>9, <1>14, <1>15, LongEnough
<1>17. /\ Grown(extra, Pad(places)) /\ Stands(Pad(places), extra.addr, ObjectPlaces)
       /\ job.padding => Pad(places).addr % 2 = 0
  <2>1. IsSequence(ObjectPlaces) /\ Len(objects) + 1 = Len(ObjectPlaces)
    BY <1>9, ObjectPlacesType
  <2>2. places = Push(extra, ObjectPlaces, Len(objects) + 1)
    BY <1>5 DEF EmitInitially
  <2>3. QED
    BY <1>9, <1>16, <2>1, <2>2, PushedAndPadded
<1>18. PICK e : e = Pad(places)
  OBVIOUS
<1>19. Grown(weights, e) /\ Grown(names, e) /\ Grown(db, e)
  BY <1>9, <1>11, <1>13, <1>15, <1>17, <1>18, GrownOn
<1>20. /\ TableStands(e, 9, db.addr) /\ TableStands(e, 10, names.addr)
       /\ TableStands(e, 11, weights.addr) /\ TableStands(e, 8, extra.addr)
  <2>1. TableStands(names, 9, db.addr)
    BY <1>11 DEF TableStands
  <2>2. TableStands(weights, 10, names.addr)
    BY <1>13 DEF TableStands
  <2>3. TableStands(extra, 11, weights.addr)
    BY <1>15 DEF TableStands
  <2>4. TableStands(e, 8, extra.addr)
    BY <1>17, <1>18 DEF TableStands
  <2>5. QED
    BY <1>9, <1>17, <1>18, <1>19, <2>1, <2>2, <2>3, <2>4, TableOn
<1>21. /\ db.addr \in 0..e.addr /\ names.addr \in 0..e.addr
       /\ weights.addr \in 0..e.addr /\ extra.addr \in 0..e.addr
  <2>1. /\ db.addr \in Nat /\ names.addr \in Nat /\ weights.addr \in Nat /\ extra.addr \in Nat
        /\ e.addr \in Nat /\ db.addr <= e.addr /\ names.addr <= e.addr
        /\ weights.addr <= e.addr /\ extra.addr <= e.addr
    BY <1>9, <1>17, <1>18, <1>19, GrownTypes
  <2>2. QED
    BY <2>1
<1>22. job.padding => /\ db.addr % 2 = 0 /\ names.addr % 2 = 0
                      /\ weights.addr % 2 = 0 /\ extra.addr % 2 = 0
  <2>1. \A a \in Nat : a % 2 = 0 => (a + 2 * Len(objects)) % 2 = 0
    BY <1>10
  <2>2. weights.addr \in Nat
    BY <1>9, <1>13, GrownTypes
  <2>3. QED
    BY <1>9, <1>10, <1>11, <1>13, <1>15, <2>1, <2>2
<1>23. /\ DOMAIN words = 8..11 /\ words[9] = db.addr /\ words[10] = names.addr
       /\ words[11] = weights.addr /\ words[8] = extra.addr
  BY <1>6
<1>24. \A k \in DOMAIN words :
         /\ words[k] \in 0..e.addr /\ TableStands(e, k, words[k])
         /\ job.padding => words[k] % 2 = 0
  BY <1>20, <1>21, <1>22, <1>23
<1>25. KnownWords["objects"] = DOMAIN words \cup KnownWords[status] /\ "objects" \in Between
  <2>1. KnownWords["objects"] = 8..11 \cup KnownWords[status]
    BY <1>7 DEF KnownWords
  <2>2. QED
    BY <1>23, <2>1 DEF Between
<1>26. Emit("OTX", "objects", e, words) /\ (job.padding => e.addr % 2 = 0)
  BY <1>7, <1>17, <1>18
<1>27. QED
  BY <1>8, <1>19, <1>24, <1>25, <1>26, Emitted

-----------------------------------------------------------------------------
(* The header and the externs.                                             *)

(* The header, with its zeros.                                             *)
LEMMA HeaderKeeps ==
  ASSUME FileInv, WriteHeader
  PROVE  FileInv'
<1>1. /\ status = "loaded" /\ status' = "header" /\ db' = EmitHeader(db)
      /\ offsets' = [k \in DOMAIN <<>> \cup DOMAIN offsets |->
                       IF k \in DOMAIN <<>> THEN <<>>[k] ELSE offsets[k]]
      /\ UNCHANGED <<source, loaded, extvec>>
  BY DEF WriteHeader, Emit
<1>2. /\ ListsInv /\ LoadedInv /\ IsImage(db) /\ db.out = <<>> /\ offsets = <<>>
      /\ extvec = NoVector
  BY <1>1 DEF FileInv
<1>3. job \in Jobs /\ section = "PRO"
  BY <1>1, <1>2 DEF ListsInv
<1>4. job.base \in Nat
  BY <1>3, JobType
<1>5. PICK counts : counts = Counts
  OBVIOUS
<1>6. PICK first : first = <<Version, 16 * job.machine + job.lang, job.submachine>>
  OBVIOUS
<1>7. PICK middle : middle = [i \in DOMAIN counts |-> Byte(counts[i])]
  OBVIOUS
<1>8. PICK bytes : bytes = first \o middle \o Fill(26) \o Fill(26)
  OBVIOUS
<1>9. PICK d : d = EmitHeader(db)
  OBVIOUS
<1>10. d = Push(db, bytes, 60)
  BY <1>5, <1>6, <1>7, <1>8, <1>9 DEF EmitHeader, Counts, Version
<1>11. /\ IsSequence(first) /\ Len(first) = 3
       /\ first[1] = Version /\ first[2] = 16 * job.machine + job.lang
  <2>1. first \in Seq({Version, 16 * job.machine + job.lang, job.submachine})
    BY <1>6
  <2>2. IsSequence(first)
    BY <2>1, OwnElements
  <2>3. QED
    BY <1>6, <2>2
<1>12. /\ IsSequence(middle) /\ Len(middle) = 5
       /\ \A k \in 1..5 : middle[k] = Byte(Counts[k])
  <2>1. DOMAIN counts = 1..5
    BY <1>5 DEF Counts
  <2>2. middle = [i \in 1..5 |-> middle[i]] /\ \A k \in 1..5 : middle[k] = Byte(counts[k])
    BY <1>7, <2>1
  <2>3. IsSequence(middle) /\ Len(middle) = 5
    BY <2>2, ByPlaces
  <2>4. QED
    BY <1>5, <2>2, <2>3
<1>13. IsSequence(Fill(26)) /\ Len(Fill(26)) = 26
  <2>1. Fill(26) = [i \in 1..26 |-> Fill(26)[i]]
    BY DEF Fill
  <2>2. QED
    BY <2>1, ByPlaces
<1>14. /\ IsSequence(bytes) /\ Len(bytes) = 60
       /\ \A k \in 1..3 : bytes[k] = first[k]
       /\ \A k \in 1..5 : bytes[3 + k] = middle[k]
  <2>1. PICK two : two = first \o middle
    OBVIOUS
  <2>2. PICK three : three = two \o Fill(26)
    OBVIOUS
  <2>3. bytes = three \o Fill(26)
    BY <1>8, <2>1, <2>2
  <2>4. /\ IsSequence(two) /\ Len(two) = 8 /\ \A k \in 1..3 : two[k] = first[k]
        /\ \A k \in 1..5 : two[3 + k] = middle[k]
    <3>1. Joins(two, first, middle)
      BY <1>11, <1>12, <2>1, Joined
    <3>2. QED
      BY <1>11, <1>12, <3>1 DEF Joins
  <2>5. IsSequence(three) /\ Len(three) = 34 /\ \A k \in 1..8 : three[k] = two[k]
    <3>1. Joins(three, two, Fill(26))
      BY <1>13, <2>2, <2>4, Joined
    <3>2. /\ IsSequence(three) /\ Len(three) = Len(two) + Len(Fill(26))
          /\ \A k \in 1..Len(two) : three[k] = two[k]
      BY <3>1, Zenon DEF Joins
    <3>3. Len(two) = 8 /\ Len(Fill(26)) = 26
      BY <1>13, <2>4
    <3>4. Len(three) = 34
      <4>1. 8 + 26 = 34
        OBVIOUS
      <4>2. Len(three) = 8 + Len(Fill(26))
        BY <3>2, <3>3, Zenon
      <4>3. QED
        BY <3>3, <4>1, <4>2, Zenon
    <3>5. \A k \in 1..8 : three[k] = two[k]
      BY <3>2, <3>3
    <3>6. QED
      BY <3>2, <3>4, <3>5
  <2>6. IsSequence(bytes) /\ Len(bytes) = 60 /\ \A k \in 1..34 : bytes[k] = three[k]
    <3>1. Joins(bytes, three, Fill(26))
      BY <1>13, <2>3, <2>5, Joined
    <3>2. /\ IsSequence(bytes) /\ Len(bytes) = Len(three) + Len(Fill(26))
          /\ \A k \in 1..Len(three) : bytes[k] = three[k]
      BY <3>1, Zenon DEF Joins
    <3>3. Len(three) = 34 /\ Len(Fill(26)) = 26
      BY <1>13, <2>5
    <3>4. Len(bytes) = 60
      <4>1. 34 + 26 = 60
        OBVIOUS
      <4>2. Len(bytes) = 34 + Len(Fill(26))
        BY <3>2, <3>3, Zenon
      <4>3. QED
        BY <3>3, <4>1, <4>2, Zenon
    <3>5. \A k \in 1..34 : bytes[k] = three[k]
      BY <3>2, <3>3
    <3>6. QED
      BY <3>2, <3>4, <3>5
  <2>7. \A k \in 1..3 : bytes[k] = first[k]
    BY <2>4, <2>5, <2>6
  <2>8. \A k \in 1..5 : bytes[3 + k] = middle[k]
    <3>1. TAKE k \in 1..5
    <3>2. 3 + k \in 1..8 /\ 3 + k \in 1..34
      OBVIOUS
    <3>3. bytes[3 + k] = two[3 + k]
      BY <2>5, <2>6, <3>2
    <3>4. QED
      BY <2>4, <3>3
  <2>9. QED
    BY <2>6, <2>7, <2>8
<1>15. IsImage(d)
  <2>1. Grown(db, d)
    <3>1. IsImage(db) /\ IsSequence(bytes) /\ 60 = Len(bytes)
      BY <1>2, <1>14
    <3>2. QED
      BY <1>4, <1>10, <3>1, Pushed
  <2>2. QED
    BY <2>1, Zenon DEF Grown
<1>16. d.out = bytes
  <2>1. bytes \in Seq(ToSet(bytes))
    BY <1>14 DEF IsSequence
  <2>2. <<>> \o bytes = bytes
    BY <2>1
  <2>3. QED
    BY <1>2, <1>10, <2>2 DEF Push
<1>17. HeaderStands(d, Version)
  <2>1. Len(d.out) = 60
    BY <1>14, <1>16, Zenon
  <2>2. d.out[1] = Version /\ d.out[2] = 16 * job.machine + job.lang
    BY <1>11, <1>14, <1>16
  <2>3. \A k \in 1..5 : d.out[3 + k] = Byte(Counts[k])
    BY <1>12, <1>14, <1>16
  <2>4. QED
    BY <2>1, <2>2, <2>3 DEF HeaderStands
<1>18. offsets' = [k \in {} |-> 0] /\ DOMAIN offsets' = {}
  BY <1>1, <1>2
<1>19. WordsKnown(d, offsets', KnownWords["header"])
  BY <1>18 DEF WordsKnown, KnownWords
<1>20. /\ LoadedInv' /\ IsImage(db)' /\ HeaderStands(db, Version)'
       /\ WordsKnown(db, offsets, KnownWords["header"])'
  <2>1. /\ LoadedInv' <=> LoadedInv
        /\ Version' = Version
        /\ \A f : IsImage(f)' <=> IsImage(f)
        /\ \A f, w, known : WordsKnown(f, w, known)' <=> WordsKnown(f, w, known)
        /\ \A f, v : HeaderStands(f, v)' <=> HeaderStands(f, v)
    BY <1>1, SameGame
  <2>2. KnownWords' = KnownWords /\ db' = d
    BY <1>1, <1>9 DEF KnownWords
  <2>3. WordsKnown(db, offsets, KnownWords["header"])'
    BY <1>19, <2>1, <2>2
  <2>4. QED
    BY <1>2, <1>15, <1>17, <2>1, <2>2, <2>3
<1>21. ListsInv'
  BY <1>1, <1>2, <1>3, SameLists
<1>22. extvec' = NoVector /\ NoVector' = NoVector
  BY <1>1, <1>2 DEF NoVector
<1>23. QED
  BY <1>1, <1>20, <1>21, <1>22 DEF FileInv

(* The greatest of a set of places.                                        *)
LEMMA Greatest ==
  ASSUME NEW n \in Nat, NEW S, S \subseteq 1..n, S # {}
  PROVE  /\ Max(S) \in S
         /\ \A i \in S : (\A j \in S : j <= i) => Max(S) = i
<1> DEFINE T == {n - x : x \in S}
<1>1. T \subseteq Nat /\ T # {}
  <2>1. \A x \in S : n - x \in Nat
    OBVIOUS
  <2>2. QED
    BY <2>1
<1>2. PICK m \in T : \A t \in T : m <= t
  BY <1>1, LeastNatural
<1>3. PICK g \in S : m = n - g
  BY <1>2
<1>4. \A j \in S : g >= j
  <2>1. TAKE j \in S
  <2>2. n - g <= n - j
    BY <1>2, <1>3
  <2>3. QED
    BY <2>2
<1>5. Max(S) = CHOOSE x \in S : \A y \in S : x >= y
  BY DEF Max
<1>6. Max(S) \in S /\ \A y \in S : Max(S) >= y
  BY <1>4, <1>5
<1>7. ASSUME NEW i \in S, \A j \in S : j <= i
      PROVE  Max(S) = i
  <2>1. Max(S) <= i /\ Max(S) >= i
    BY <1>6, <1>7
  <2>2. Max(S) \in 1..n /\ i \in 1..n
    BY <1>6, <1>7
  <2>3. QED
    BY <2>1, <2>2
<1>8. QED
  BY <1>6, <1>7

(* The externs: the last of a type is the one its vector leads to.         *)
LEMMA ExternsKeep ==
  ASSUME FileInv, WriteExterns
  PROVE  FileInv'
<1> DEFINE Of(k) == {i \in DOMAIN job.externs : job.externs[i].type = k}
<1>1. PICK items : items = [i \in DOMAIN job.externs |-> job.externs[i].bytes]
  OBVIOUS
<1>2. PICK end : end = Laid(db, items, "plain")
  OBVIOUS
<1>3. PICK e : e = end.db
  OBVIOUS
<1>4. PICK at : at = end.at
  OBVIOUS
<1>5. /\ status = "header" /\ status' = "externs" /\ db' = e
      /\ extvec' = [k \in 0..2 |-> IF Of(k) = {} THEN extvec[k] ELSE at[Max(Of(k))]]
      /\ UNCHANGED <<source, loaded, offsets>>
  BY <1>1, <1>2, <1>3, <1>4 DEF WriteExterns
<1> HIDE DEF Of
<1>6. /\ ListsInv /\ LoadedInv /\ IsImage(db) /\ HeaderStands(db, Version)
      /\ WordsKnown(db, offsets, KnownWords["header"]) /\ extvec = NoVector
  <2>1. status \in DOMAIN KnownWords
    BY <1>5 DEF KnownWords
  <2>2. QED
    BY <1>5, <2>1 DEF FileInv
<1>7. job \in Jobs /\ section = "PRO"
  BY <1>5, <1>6 DEF ListsInv
<1>8. job.base \in Nat /\ job.externs \in Seq([type : 0..2, bytes : Seq(0..255)])
  BY <1>7, JobType
<1>9. Len(db.out) >= 60 /\ Len(db.out) \in Nat
  BY <1>6, <1>8, ImageType, Zenon DEF HeaderStands
<1>10. PICK n \in Nat : n = Len(job.externs) /\ DOMAIN job.externs = 1..n
  BY <1>8
<1>11. \A i \in 1..n : items[i] = job.externs[i].bytes /\ IsSequence(items[i])
  <2>1. \A i \in 1..n : job.externs[i] \in [type : 0..2, bytes : Seq(0..255)]
    <3>1. PICK R : R = [type : 0..2, bytes : Seq(0..255)]
      OBVIOUS
    <3>2. job.externs \in Seq(R)
      BY <1>8, <3>1
    <3>3. \A i \in 1..n : job.externs[i] \in R
      BY <1>10, <3>2
    <3>4. QED
      BY <3>1, <3>3
  <2>2. \A i \in 1..n : job.externs[i].bytes \in Seq(0..255)
    BY <2>1
  <2>3. \A i \in 1..n : items[i] = job.externs[i].bytes
    BY <1>1, <1>10
  <2>4. QED
    BY <2>2, <2>3, OwnElements
<1>12. Len(items) = n
  BY <1>1, <1>10
<1>13. LaidOut(db, items, "plain", n, end)
  BY <1>2, <1>6, <1>8, <1>9, <1>11, <1>12, AllLaid
<1>14. Grown(db, e) /\ \A j \in 1..n : at[j] \in db.addr..e.addr /\ Stands(e, at[j], items[j])
  BY <1>3, <1>4, <1>13 DEF LaidOut, Rests
<1>15. db.addr \in Nat /\ e.addr \in Nat
  BY <1>8, <1>14, GrownTypes
<1>16. ASSUME NEW k \in 0..2
       PROVE  VectorStands(e, k, extvec'[k])
  <2>1. Of(k) \subseteq 1..n /\ \A i \in 1..n : i \in Of(k) <=> job.externs[i].type = k
    BY <1>10 DEF Of
  <2>2. CASE Of(k) = {}
    <3>1. extvec'[k] = 0
      BY <1>5, <1>6, <2>2 DEF NoVector
    <3>2. \A i \in DOMAIN job.externs : job.externs[i].type # k
      BY <1>10, <2>1, <2>2
    <3>3. 0 \in 0..e.addr
      BY <1>15
    <3>4. QED
      BY <3>1, <3>2, <3>3 DEF VectorStands
  <2>3. CASE Of(k) # {}
    <3>1. extvec'[k] = at[Max(Of(k))]
      BY <1>5, <2>3
    <3>2. Max(Of(k)) \in Of(k) /\ \A i \in Of(k) : (\A j \in Of(k) : j <= i) => Max(Of(k)) = i
      BY <2>1, <2>3, Greatest
    <3>3. extvec'[k] \in 0..e.addr
      <4>1. at[Max(Of(k))] \in db.addr..e.addr
        BY <1>14, <2>1, <3>2
      <4>2. QED
        BY <1>15, <3>1, <4>1
    <3>4. \E i \in DOMAIN job.externs : job.externs[i].type = k
      BY <1>10, <2>1, <3>2
    <3>5. ASSUME NEW i \in DOMAIN job.externs, job.externs[i].type = k, LastOfType(i)
          PROVE  Stands(e, extvec'[k], job.externs[i].bytes)
      <4>1. i \in 1..n /\ i \in Of(k)
        BY <1>10, <2>1, <3>5
      <4>2. \A j \in Of(k) : j <= i
        <5>1. \A j \in 1..n : j > i => job.externs[j].type # k
          BY <1>10, <3>5 DEF LastOfType
        <5>2. QED
          BY <2>1, <4>1, <5>1
      <4>3. Max(Of(k)) = i
        BY <3>2, <4>1, <4>2
      <4>4. QED
        BY <1>11, <1>14, <3>1, <4>1, <4>3
    <3>6. QED
      BY <3>3, <3>4, <3>5 DEF VectorStands
  <2>4. QED
    BY <2>2, <2>3
<1>17. WordsKnown(e, offsets, KnownWords["header"])
  <2>1. KnownWords["header"] \in SUBSET (0..11)
    BY DEF KnownWords
  <2>2. QED
    BY <1>6, <1>8, <1>14, <2>1, WordsOn
<1>18. HeaderStands(e, Version) /\ IsImage(e)
  <2>1. HeaderStands(e, Version)
    BY <1>6, <1>8, <1>14, HeaderOn
  <2>2. QED
    BY <1>14, <2>1, Zenon DEF Grown
<1>19. KnownWords' = KnownWords /\ KnownWords["header"] = KnownWords["externs"]
  BY DEF KnownWords
<1>20. /\ LoadedInv' /\ IsImage(db)' /\ HeaderStands(db, Version)'
       /\ WordsKnown(db, offsets, KnownWords["externs"])'
       /\ \A k \in 0..2 : VectorStands(db, k, extvec[k])'
  <2>1. /\ LoadedInv' <=> LoadedInv
        /\ Version' = Version
        /\ \A f : IsImage(f)' <=> IsImage(f)
        /\ \A f, w, known : WordsKnown(f, w, known)' <=> WordsKnown(f, w, known)
        /\ \A f, k, a : VectorStands(f, k, a)' <=> VectorStands(f, k, a)
        /\ \A f, v : HeaderStands(f, v)' <=> HeaderStands(f, v)
    BY <1>5, SameGame
  <2>2. db' = e /\ offsets' = offsets
    BY <1>5
  <2>3. WordsKnown(db, offsets, KnownWords["externs"])'
    BY <1>17, <1>19, <2>1, <2>2
  <2>4. \A k \in 0..2 : VectorStands(db, k, extvec[k])'
    BY <1>16, <2>1, <2>2
  <2>5. QED
    BY <1>6, <1>18, <2>1, <2>2, <2>3, <2>4
<1>21. ListsInv'
  BY <1>5, <1>6, <1>7, SameLists
<1>22. QED
  BY <1>5, <1>20, <1>21 DEF FileInv

-----------------------------------------------------------------------------
(* The header patched.                                                     *)

(* Patching writes the words and the version, and nothing behind the       *)
(* header.                                                                 *)
LEMMA PatchKeeps ==
  ASSUME FileInv, PatchHeader
  PROVE  FileInv'
<1>1. PICK values : values = HeaderWords
  OBVIOUS
<1>2. PICK bytes : bytes = FlattenSeq([k \in 1..16 |-> Word(values[k])])
  OBVIOUS
<1>3. PICK v : v = db.out[1] + (IF job.text2 THEN 128 ELSE 0)
  OBVIOUS
<1>4. PICK out : out = [i \in DOMAIN db.out |-> IF i = 1 THEN v
                                                ELSE IF i \in 9..40 THEN bytes[i - 8]
                                                ELSE db.out[i]]
  OBVIOUS
<1>5. PICK d : d = [out |-> out, addr |-> db.addr, region |-> db.region]
  OBVIOUS
<1>6. /\ status = "processes" /\ db' = d
      /\ status' = IF db.addr > 65535 \/ (job.text2 /\ Len(db.region) > 65535)
                   THEN "overflow" ELSE "done"
      /\ UNCHANGED <<source, loaded, offsets, extvec>>
  BY <1>1, <1>2, <1>3, <1>4, <1>5 DEF PatchHeader
<1>7. /\ job \in Jobs /\ job.base \in Nat /\ ListsInv /\ LoadedInv /\ section = "PRO"
      /\ IsImage(db) /\ Len(db.out) \in Nat /\ Len(db.out) >= 60 /\ db.addr \in Nat
      /\ WordsKnown(db, offsets, KnownWords["processes"])
      /\ \A k \in 0..2 : VectorStands(db, k, extvec[k])
      /\ HeaderStands(db, Version)
  BY <1>6, Before
<1>8. ListsInv'
  BY <1>6, <1>7, SameLists
<1>9. CASE status' = "overflow"
  <2>1. status' \notin DOMAIN KnownWords'
    BY <1>9 DEF KnownWords
  <2>2. QED
    BY <1>8, <1>9, <2>1 DEF FileInv
<1>10. CASE status' = "done"
  <2>1. d.addr <= 65535 /\ (job.text2 => Len(d.region) <= 65535)
    <3>1. ~(db.addr > 65535) /\ ~(job.text2 /\ Len(db.region) > 65535)
      BY <1>6, <1>10
    <3>2. Len(db.region) \in Nat
      BY <1>7, ImageType
    <3>3. d.addr = db.addr /\ d.region = db.region
      BY <1>5
    <3>4. QED
      BY <1>7, <3>1, <3>2, <3>3
  <2>2. PICK n \in Nat : n = Len(db.out) /\ n >= 60 /\ DOMAIN db.out = 1..n
    <3>1. db.out \in Seq(ToSet(db.out))
      BY <1>7, Zenon DEF IsImage, IsSequence
    <3>2. QED
      BY <1>7, <3>1, LenProperties
  <2>3. IsSequence(out) /\ Len(out) = n
    <3>1. out = [i \in 1..n |-> out[i]]
      BY <1>4, <2>2
    <3>2. QED
      BY <3>1, ByPlaces
  <2>4. /\ out[1] = v
        /\ \A i \in 9..40 : out[i] = bytes[i - 8]
        /\ \A i \in 1..n : i # 1 /\ i \notin 9..40 => out[i] = db.out[i]
    <3>1. 1 \in 1..n /\ 1 \notin 9..40 /\ \A i \in 9..40 : i \in 1..n /\ i # 1
      BY <2>2
    <3>2. QED
      BY <1>4, <2>2, <3>1, Zenon
  <2>5. d.out = out /\ d.addr = db.addr /\ d.region = db.region
    BY <1>5
  <2>6. IsImage(d)
    <3>1. IsSequence(db.region) /\ db.addr = job.base + Len(db.out)
      BY <1>7, Zenon DEF IsImage
    <3>2. d.addr = job.base + Len(d.out)
      BY <2>2, <2>3, <2>5, <3>1
    <3>3. d = [out |-> d.out, addr |-> d.addr, region |-> d.region]
      BY <1>5
    <3>4. QED
      BY <2>3, <2>5, <3>1, <3>2, <3>3 DEF IsImage
  <2>7. Keeps(db, d)
    <3>1. Len(db.out) <= Len(d.out) /\ Len(db.region) <= Len(d.region)
      <4>1. Len(db.region) \in Nat
        BY <1>7, ImageType
      <4>2. QED
        BY <2>2, <2>3, <2>5, <4>1
    <3>2. \A k \in 61..Len(db.out) : k \in 1..n /\ k # 1 /\ k \notin 9..40
      BY <2>2
    <3>3. \A k \in 61..Len(db.out) : d.out[k] = db.out[k]
      BY <2>4, <2>5, <3>2, Zenon
    <3>4. \A k \in 1..Len(db.region) : d.region[k] = db.region[k]
      BY <2>5
    <3>5. QED
      BY <1>7, <2>6, <3>1, <3>3, <3>4, Zenon DEF Keeps
  <2>8. WordsKnown(d, offsets, KnownWords["processes"])
    <3>1. KnownWords["processes"] \in SUBSET (0..11)
      BY DEF KnownWords
    <3>2. QED
      BY <1>7, <2>7, <3>1, WordsKept
  <2>9. \A k \in 0..2 : VectorStands(d, k, extvec[k])
    BY <1>7, <2>7, VectorKept
  <2>10. HeaderStands(d, Version + (IF job.text2 THEN 128 ELSE 0))
    <3>1. /\ Len(db.out) >= 60
          /\ db.out[1] = Version /\ db.out[2] = 16 * job.machine + job.lang
          /\ \A k \in 1..5 : db.out[3 + k] = Byte(Counts[k])
      BY <1>7, Zenon DEF HeaderStands
    <3>2. /\ 2 \in 1..n /\ 2 # 1 /\ 2 \notin 9..40
          /\ \A k \in 1..5 : 3 + k \in 1..n /\ 3 + k # 1 /\ 3 + k \notin 9..40
      BY <2>2
    <3>3. d.out[2] = 16 * job.machine + job.lang
      BY <2>4, <2>5, <3>1, <3>2, Zenon
    <3>4. \A k \in 1..5 : d.out[3 + k] = Byte(Counts[k])
      BY <2>4, <2>5, <3>1, <3>2, Zenon
    <3>5. d.out[1] = Version + (IF job.text2 THEN 128 ELSE 0)
      BY <1>3, <2>4, <2>5, <3>1
    <3>6. Len(d.out) >= 60
      BY <2>2, <2>3, <2>5
    <3>7. QED
      BY <3>3, <3>4, <3>5, <3>6, Zenon DEF HeaderStands
  <2>11. \A k \in 1..16 : <<d.out[7 + 2 * k], d.out[8 + 2 * k]>> = Word(values[k])
    <3>1. IsSequence(values) /\ Len(values) = 16 /\ DOMAIN values = 1..16
      <4>1. values = [k \in 1..16 |-> values[k]]
        BY <1>1 DEF HeaderWords
      <4>2. QED
        BY <4>1, ByPlaces
    <3>2. bytes = FlattenSeq([k \in DOMAIN values |-> Word(values[k])])
      BY <1>2, <3>1, Zenon
    <3>3. \A k \in 1..Len(values) :
            /\ IsSequence(Word(values[k])) /\ Len(Word(values[k])) = 2
            /\ bytes[2 * k - 1] = Word(values[k])[1] /\ bytes[2 * k] = Word(values[k])[2]
      BY <3>1, <3>2, WordBytes, ZenonT(60)
    <3>4. TAKE k \in 1..16
    <3>5. /\ 7 + 2 * k \in 9..40 /\ 8 + 2 * k \in 9..40
          /\ (7 + 2 * k) - 8 = 2 * k - 1 /\ (8 + 2 * k) - 8 = 2 * k
      OBVIOUS
    <3>6. d.out[7 + 2 * k] = bytes[2 * k - 1] /\ d.out[8 + 2 * k] = bytes[2 * k]
      BY <2>4, <2>5, <3>5, Zenon
    <3>7. d.out[7 + 2 * k] = Word(values[k])[1] /\ d.out[8 + 2 * k] = Word(values[k])[2]
      BY <3>1, <3>3, <3>6
    <3>8. <<Word(values[k])[1], Word(values[k])[2]>> = Word(values[k])
      BY DEF Word
    <3>9. QED
      BY <3>7, <3>8
  <2>12. /\ LoadedInv' /\ IsImage(db)'
         /\ WordsKnown(db, offsets, KnownWords["processes"])'
         /\ \A k \in 0..2 : VectorStands(db, k, extvec[k])'
         /\ HeaderStands(db, Version + (IF job.text2 THEN 128 ELSE 0))'
    <3>1. /\ LoadedInv' <=> LoadedInv
          /\ Version' = Version
          /\ \A f : IsImage(f)' <=> IsImage(f)
          /\ \A f, w, known : WordsKnown(f, w, known)' <=> WordsKnown(f, w, known)
          /\ \A f, k, a : VectorStands(f, k, a)' <=> VectorStands(f, k, a)
          /\ \A f, x : HeaderStands(f, x)' <=> HeaderStands(f, x)
      BY <1>6, SameGame
    <3>2. KnownWords' = KnownWords
      BY DEF KnownWords
    <3>3. db' = d /\ offsets' = offsets /\ extvec' = extvec /\ job' = job
      BY <1>6 DEF source
    <3>4. WordsKnown(db, offsets, KnownWords["processes"])'
      BY <2>8, <3>1, <3>2, <3>3
    <3>5. \A k \in 0..2 : VectorStands(db, k, extvec[k])'
      BY <2>9, <3>1, <3>3
    <3>6. HeaderStands(db, Version + (IF job.text2 THEN 128 ELSE 0))'
      <4>1. ASSUME NEW x, x = Version + (IF job.text2 THEN 128 ELSE 0)
            PROVE  HeaderStands(db, x)'
        BY <2>10, <3>1, <3>3, <4>1
      <4>2. Version' + (IF job'.text2 THEN 128 ELSE 0)
              = Version + (IF job.text2 THEN 128 ELSE 0)
        BY <3>1, <3>3
      <4>3. QED
        BY <3>3, <4>1, <4>2
    <3>7. QED
      BY <1>7, <2>6, <3>1, <3>3, <3>4, <3>5, <3>6
  <2>13. HeaderWords' = HeaderWords
    BY <1>6, <2>5 DEF HeaderWords, FileSize, source
  <2>14. PatchStands(db)'
    <3>1. \A x : Word(x)' = Word(x)
      BY <1>6 DEF Word, source
    <3>2. \A k \in 1..16 : <<db'.out[7 + 2 * k], db'.out[8 + 2 * k]>> = Word(HeaderWords[k])'
      <4>1. TAKE k \in 1..16
      <4>2. Word(HeaderWords[k])' = Word(values[k])
        BY <1>1, <2>13, <3>1
      <4>3. <<d.out[7 + 2 * k], d.out[8 + 2 * k]>> = Word(values[k])
        BY <2>11
      <4>4. db' = d
        BY <1>6
      <4>5. QED
        BY <4>2, <4>3, <4>4, Zenon
    <3>3. db'.addr <= 65535 /\ (job'.text2 => Len(db'.region) <= 65535)
      BY <1>6, <2>1 DEF source
    <3>4. QED
      BY <2>12, <3>2, <3>3 DEF PatchStands, WithinLimits
  <2>15. KnownWords["done"] = KnownWords["processes"] /\ KnownWords' = KnownWords
    BY DEF KnownWords
  <2>16. QED
    BY <1>8, <1>10, <2>12, <2>14, <2>15 DEF FileInv
<1>11. QED
  BY <1>6, <1>9, <1>10

-----------------------------------------------------------------------------
(* The lists the sections fill.                                            *)

(* The sections come in their order; the processes behind the objects.     *)
LEMMA SectionsInOrder ==
  ASSUME NEW s \in ToSet(Sections), s # "PRO"
  PROVE  After(s) \in ToSet(Sections) /\ (After(s) = "PRO" => s = "OBJ")
<1> DEFINE I == {i \in 1..Len(Sections) : Sections[i] = s}
<1>1. Len(Sections) = 10 /\ DOMAIN Sections = 1..10
  BY DEF Sections
<1>2. \A i, j \in 1..10 : Sections[i] = Sections[j] => i = j
  BY DEF Sections
<1>3. PICK n \in 1..9 : Sections[n] = s
  <2>1. ToSet(Sections) = {Sections[i] : i \in 1..10}
    BY <1>1 DEF ToSet
  <2>2. PICK n \in 1..10 : Sections[n] = s
    BY <2>1
  <2>3. n # 10
    BY <2>2 DEF Sections
  <2>4. QED
    BY <2>2, <2>3
<1>4. I = {n}
  BY <1>1, <1>2, <1>3
<1>5. Min(I) = n
  BY <1>4 DEF Min
<1>6. SelectInSeq(Sections, LAMBDA t : t = s) = n
  BY <1>4, <1>5 DEF SelectInSeq
<1>7. After(s) = Sections[n + 1]
  BY <1>6 DEF After
<1>8. Sections[n + 1] \in ToSet(Sections)
  BY <1>1, <1>3 DEF ToSet
<1>9. Sections[n + 1] = "PRO" => n = 9
  BY <1>3 DEF Sections
<1>10. n = 9 => s = "OBJ"
  BY <1>3 DEF Sections
<1>11. QED
  BY <1>7, <1>8, <1>9, <1>10

(* The texts written in the processes leave a table a table.               *)
LEMMA InlinesAdded ==
  ASSUME NEW table \in Seq(Keys), Len(table) <= MaxTexts, NEW inlines \in Seq(Keys)
  PROVE  /\ WithInlines(table, inlines) \in Seq(Keys)
         /\ Len(WithInlines(table, inlines)) <= MaxTexts
         /\ inlines = <<>> => WithInlines(table, inlines) = table
<1> DEFINE n == Len(inlines)
           S == {s \in Seq(Keys) : Len(s) <= MaxTexts}
           step == [x \in (1..n) \X S |-> InsertOrDedup(x[2], inlines[x[1]])]
           Good(f) == f = [i \in 1 .. n + 1 |->
                             IF i = 1 THEN table ELSE InsertOrDedup(f[i - 1], inlines[i - 1])]
           h == CHOOSE f : Good(f)
<1>1. MaxTexts \in Nat
  BY TextsAssumption
<1>2. n \in Nat /\ \A i \in 1..n : inlines[i] \in Keys
  BY LenProperties, ElementOfSeq
<1>3. ASSUME NEW s \in S, NEW t \in Keys PROVE InsertOrDedup(s, t) \in S
  <2>1. s \in Seq(Keys) /\ Len(s) <= MaxTexts /\ Len(s) \in Nat
    BY LenProperties
  <2>2. Append(s, t) \in Seq(Keys) /\ Len(Append(s, t)) = Len(s) + 1
    BY <2>1, AppendProperties
  <2>3. CASE t \in ToSet(s) \/ Len(s) = MaxTexts
    BY <2>1, <2>3 DEF InsertOrDedup
  <2>4. CASE ~(t \in ToSet(s) \/ Len(s) = MaxTexts)
    <3>1. Len(s) + 1 <= MaxTexts
      BY <1>1, <2>1, <2>4
    <3>2. QED
      BY <2>2, <2>4, <3>1 DEF InsertOrDedup
  <2>5. QED
    BY <2>3, <2>4
<1>4. table \in S
  OBVIOUS
<1> HIDE DEF S
<1>5. step \in [(1..n) \X S -> S]
  BY <1>2, <1>3
<1>6. \A i \in 1..n : \A s \in S : step[<<i, s>>] = InsertOrDedup(s, inlines[i])
  OBVIOUS
<1> HIDE DEF step, n
<1>7. PICK g : IsForward(g, n, S, table, step)
  BY <1>2, <1>4, <1>5, ForwardRecursion, Zenon
<1>8. /\ g \in [1 .. n + 1 -> S] /\ g[1] = table
      /\ \A i \in 1..n : g[i + 1] = step[<<i, g[i]>>]
  BY <1>7 DEF IsForward
<1>9. ASSUME NEW i \in 1..n PROVE g[i + 1] = InsertOrDedup(g[i], inlines[i])
  <2>1. g[i] \in S
    BY <1>2, <1>8
  <2>2. QED
    BY <1>6, <1>8, <2>1
<1>10. Good(g)
  <2>1. ASSUME NEW i \in 1 .. n + 1
        PROVE  g[i] = IF i = 1 THEN table ELSE InsertOrDedup(g[i - 1], inlines[i - 1])
    <3>1. CASE i = 1
      BY <1>8, <3>1
    <3>2. CASE i # 1
      <4>1. i - 1 \in 1..n /\ i - 1 + 1 = i
        BY <1>2, <3>2
      <4>2. g[i - 1 + 1] = InsertOrDedup(g[i - 1], inlines[i - 1])
        BY <1>9, <4>1
      <4>3. QED
        BY <3>2, <4>1, <4>2
    <3>3. QED
      BY <3>1, <3>2
  <2>2. g = [i \in 1 .. n + 1 |-> g[i]]
    BY <1>8
  <2>3. QED
    BY <2>1, <2>2
<1>11. Good(h)
  <2> HIDE DEF Good
  <2>1. QED
    BY <1>10
<1>12. /\ h = [i \in 1 .. n + 1 |-> h[i]] /\ h[1] = table
       /\ \A i \in 1..n : h[i + 1] = InsertOrDedup(h[i], inlines[i])
  <2> HIDE DEF h
  <2>1. /\ h = [i \in 1 .. n + 1 |-> h[i]]
        /\ \A i \in 1 .. n + 1 :
             h[i] = IF i = 1 THEN table ELSE InsertOrDedup(h[i - 1], inlines[i - 1])
    BY <1>11
  <2>2. h[1] = table
    <3>1. 1 \in 1 .. n + 1
      BY <1>2
    <3>2. QED
      BY <2>1, <3>1
  <2>3. ASSUME NEW i \in 1..n PROVE h[i + 1] = InsertOrDedup(h[i], inlines[i])
    <3> DEFINE j == i + 1
    <3>1. j \in 1 .. n + 1 /\ j # 1 /\ j - 1 = i
      BY <1>2
    <3> HIDE DEF j
    <3>2. h[j] = InsertOrDedup(h[j - 1], inlines[j - 1])
      BY <2>1, <3>1, Zenon
    <3>3. QED
      BY <3>1, <3>2, Zenon DEF j
  <2>4. QED
    BY <2>1, <2>2, <2>3
<1>13. WithInlines(table, inlines) = h[n + 1]
  BY Zenon DEF WithInlines, h, Good, n
<1> HIDE DEF h
<1>14. IsForward(h, n, S, table, step)
  <2>1. \A i \in 1..n : h[i] \in S => h[i + 1] = step[<<i, h[i]>>]
    BY <1>6, <1>12
  <2>2. QED
    BY <1>2, <1>4, <1>5, <1>12, <2>1, ForwardDefined, Zenon
<1>15. h[n + 1] \in S
  BY <1>2, <1>14 DEF IsForward
<1>16. inlines = <<>> => h[n + 1] = table
  BY <1>12 DEF n
<1>17. QED
  BY <1>13, <1>15, <1>16 DEF S

(* Each step of the parser keeps the lists lists.                          *)
LEMMA ListsStep ==
  ASSUME ListsInv, ParseNext
  PROVE  ListsInv'
<1>1. /\ job \in Jobs /\ rest \in Seq(Token) /\ section \in ToSet(Sections)
      /\ texts \in [Tables -> Seq(Keys)] /\ \A t \in Tables : Len(texts[t]) <= MaxTexts
      /\ IsSequence(objects) /\ IsSequence(voc) /\ IsSequence(connections)
      /\ Len(objects) <= Len(texts.OTX)
      /\ section = "PRO" => Len(objects) = Len(texts.OTX)
      /\ status \notin {"parsing", "refused"} => section = "PRO"
  BY DEF ListsInv
<1>2. status = "parsing"
  BY DEF ParseNext, ParseCtl, ParseNewWord, ParseMessage, ParseLocation, ParseConnection,
         ParseObject, EndSection, ParsePro, Refuse
<1>3. Len(texts.OTX) \in Nat /\ Len(objects) \in Nat /\ "OTX" \in Tables
  <2>1. "OTX" \in Tables
    BY DEF Tables
  <2>2. texts.OTX \in Seq(Keys) /\ objects \in Seq(ToSet(objects))
    BY <1>1, <2>1 DEF IsSequence
  <2>3. QED
    BY <2>1, <2>2, LenProperties
<1>4. ASSUME rest' \in Seq(Token),
             UNCHANGED <<job, section, status, texts, objects>>,
             IsSequence(voc'), IsSequence(connections')
      PROVE  ListsInv'
  BY <1>1, <1>4 DEF ListsInv, IsSequence
<1>5. ASSUME UNCHANGED voc PROVE IsSequence(voc')
  BY <1>1, <1>5
<1>6. ASSUME UNCHANGED connections PROVE IsSequence(connections')
  BY <1>1, <1>6
<1>7. CASE ParseCtl \/ ParseLocation
  <2>1. Read(1) /\ UNCHANGED <<job, section, status, voc, texts, connections, objects>>
    BY <1>7 DEF ParseCtl, ParseLocation
  <2>2. rest' \in Seq(Token)
    BY <1>1, <2>1, RestRemains
  <2>3. QED
    BY <1>4, <1>5, <1>6, <2>1, <2>2
<1>8. CASE ParseNewWord
  <2>1. PICK word, new : voc' = InsertAt(voc, Cardinality({i \in DOMAIN voc :
                                            Precedes(voc[i].word, word)}) + 1, new)
    BY <1>8 DEF ParseNewWord
  <2>2. Read(3) /\ UNCHANGED <<job, section, status, texts, connections, objects>>
    BY <1>8 DEF ParseNewWord
  <2>3. rest' \in Seq(Token)
    BY <1>1, <2>2, RestRemains
  <2>4. Cardinality({i \in DOMAIN voc : Precedes(voc[i].word, word)}) + 1 \in 1 .. Len(voc) + 1
    BY <1>1, PlaceFits DEF IsSequence
  <2>5. IsSequence(voc')
    BY <1>1, <2>1, <2>4, Inserted DEF IsSequence
  <2>6. QED
    BY <1>4, <1>6, <2>2, <2>3, <2>5
<1>9. CASE ParseConnection
  <2>1. /\ connections' = Append(connections, Connection)
        /\ Read(2) /\ UNCHANGED <<job, section, status, voc, texts, objects>>
    BY <1>9 DEF ParseConnection
  <2>2. rest' \in Seq(Token)
    BY <1>1, <2>1, RestRemains
  <2>3. IsSequence(connections')
    BY <1>1, <2>1, Noted
  <2>4. QED
    BY <1>4, <1>5, <2>1, <2>2, <2>3
<1>10. CASE ParseMessage
  <2>1. /\ section \in Tables /\ Value(rest[1]) = Len(texts[section])
        /\ Value(rest[1]) < MaxTexts
        /\ texts' = [texts EXCEPT ![section] = Append(@, rest[2].text)]
        /\ Read(2) /\ UNCHANGED <<job, section, status, voc, connections, objects>>
        /\ Len(rest) >= 2
    BY <1>10 DEF ParseMessage, MessageFits, Ahead
  <2>2. rest' \in Seq(Token)
    BY <1>1, <2>1, RestRemains
  <2>3. rest[2].text \in Keys
    <3>1. Len(rest) \in Nat
      BY <1>1, LenProperties
    <3>2. 2 \in 1..Len(rest)
      BY <2>1, <3>1
    <3>3. rest[2] \in Token
      BY <1>1, <3>2, ElementOfSeq
    <3>4. QED
      BY <3>3 DEF Token
  <2>4. /\ Append(texts[section], rest[2].text) \in Seq(Keys)
        /\ Len(Append(texts[section], rest[2].text)) = Len(texts[section]) + 1
        /\ Len(texts[section]) \in Nat
    <3>1. texts[section] \in Seq(Keys)
      BY <1>1, <2>1
    <3>2. QED
      BY <2>3, <3>1, AppendProperties, LenProperties
  <2>5. texts' \in [Tables -> Seq(Keys)]
    BY <1>1, <2>1, <2>4
  <2>6. \A t \in Tables :
          texts'[t] = IF t = section THEN Append(texts[section], rest[2].text) ELSE texts[t]
    BY <1>1, <2>1
  <2>7. \A t \in Tables : Len(texts'[t]) <= MaxTexts
    <3>1. MaxTexts \in Nat
      BY TextsAssumption
    <3>2. Len(texts[section]) + 1 <= MaxTexts
      BY <2>1, <2>4, <3>1
    <3>3. QED
      BY <1>1, <2>4, <2>6, <3>2
  <2>8. Len(texts.OTX) <= Len(texts'.OTX) /\ Len(texts'.OTX) \in Nat
    <3>1. CASE section = "OTX"
      <4>1. texts'.OTX = Append(texts[section], rest[2].text) /\ texts[section] = texts.OTX
        BY <1>3, <2>6, <3>1
      <4>2. Len(texts'.OTX) = Len(texts.OTX) + 1
        BY <2>4, <4>1
      <4>3. QED
        BY <1>3, <4>2
    <3>2. CASE section # "OTX"
      BY <1>3, <2>6, <3>2
    <3>3. QED
      BY <3>1, <3>2
  <2>9. Len(objects') <= Len(texts'.OTX)
    BY <1>1, <1>3, <2>1, <2>8
  <2>10. section' # "PRO"
    BY <2>1 DEF Tables
  <2>11. IsSequence(objects') /\ IsSequence(voc') /\ IsSequence(connections')
    BY <1>1, <2>1
  <2>12. QED
    BY <1>1, <1>2, <2>1, <2>2, <2>5, <2>7, <2>9, <2>10, <2>11 DEF ListsInv, IsSequence
<1>11. CASE ParseObject
  <2>1. PICK x : objects' = Append(objects, x)
    BY <1>11 DEF ParseObject
  <2>2. /\ section = "OBJ" /\ Value(rest[1]) = Len(objects) /\ Value(rest[1]) < Len(texts.OTX)
        /\ Read(ObjectTokens)
        /\ UNCHANGED <<job, section, status, voc, texts, connections>>
    BY <1>11 DEF ParseObject, ObjectFits
  <2>3. rest' \in Seq(Token)
    BY <1>1, <2>2, RestRemains DEF ObjectTokens
  <2>4. IsSequence(objects') /\ Len(objects') = Len(objects) + 1
    BY <1>1, <2>1, Noted
  <2>5. Len(objects') <= Len(texts'.OTX)
    BY <1>3, <2>2, <2>4
  <2>6. IsSequence(voc') /\ IsSequence(connections')
    BY <1>1, <2>2
  <2>7. QED
    BY <1>1, <1>2, <2>2, <2>3, <2>4, <2>5, <2>6 DEF ListsInv, IsSequence
<1>12. CASE EndSection
  <2>1. /\ section # "PRO" /\ section' = After(section) /\ Complete
        /\ Read(1) /\ UNCHANGED <<job, status, voc, texts, connections, objects>>
    BY <1>12 DEF EndSection, SectionEnds
  <2>2. rest' \in Seq(Token)
    BY <1>1, <2>1, RestRemains
  <2>3. section' \in ToSet(Sections) /\ (section' = "PRO" => section = "OBJ")
    BY <1>1, <2>1, SectionsInOrder
  <2>4. section' = "PRO" => Len(objects') = Len(texts'.OTX)
    <3>1. section = "OBJ" => Len(objects) >= Len(texts.OTX)
      BY <2>1 DEF Complete
    <3>2. QED
      BY <1>1, <1>3, <2>1, <2>3, <3>1
  <2>5. IsSequence(objects') /\ IsSequence(voc') /\ IsSequence(connections')
    BY <1>1, <2>1
  <2>6. QED
    BY <1>1, <1>2, <2>1, <2>2, <2>3, <2>4, <2>5 DEF ListsInv, IsSequence
<1>13. CASE ParsePro
  <2>1. /\ section = "PRO"
        /\ texts' = [t \in Tables |-> WithInlines(texts[t], job.inlines[t])]
        /\ UNCHANGED <<job, rest, section, voc, connections, objects>>
    BY <1>13 DEF ParsePro
  <2>2. job.inlines \in [Tables -> Seq(Keys)] /\ job.inlines.OTX = <<>>
    BY <1>1, JobsAssumption
  <2>3. ASSUME NEW t \in Tables
        PROVE  /\ WithInlines(texts[t], job.inlines[t]) \in Seq(Keys)
               /\ Len(WithInlines(texts[t], job.inlines[t])) <= MaxTexts
               /\ job.inlines[t] = <<>> => WithInlines(texts[t], job.inlines[t]) = texts[t]
    <3>1. texts[t] \in Seq(Keys) /\ job.inlines[t] \in Seq(Keys) /\ Len(texts[t]) <= MaxTexts
      BY <1>1, <2>2
    <3>2. QED
      BY <3>1, InlinesAdded
  <2>4. texts' \in [Tables -> Seq(Keys)] /\ \A t \in Tables : Len(texts'[t]) <= MaxTexts
    BY <2>1, <2>3
  <2>5. texts'.OTX = texts.OTX
    BY <1>3, <2>1, <2>2, <2>3
  <2>6. IsSequence(objects') /\ IsSequence(voc') /\ IsSequence(connections')
    BY <1>1, <2>1
  <2>7. QED
    BY <1>1, <2>1, <2>4, <2>5, <2>6 DEF ListsInv, IsSequence
<1>14. CASE Refuse
  <2>1. status' = "refused" /\ UNCHANGED <<job, rest, section, voc, texts, connections, objects>>
    BY <1>14 DEF Refuse
  <2>2. QED
    BY <1>1, <2>1 DEF ListsInv, IsSequence
<1>15. QED
  BY <1>7, <1>8, <1>9, <1>10, <1>11, <1>12, <1>13, <1>14 DEF ParseNext

-----------------------------------------------------------------------------
(* The texts, from the source to the model.                                *)

(* A sequence whose elements each become a sequence.                       *)
LEMMA EachFlattened ==
  ASSUME NEW s, IsSequence(s), NEW f, f = [i \in DOMAIN s |-> f[i]],
         \A i \in DOMAIN s : IsSequence(f[i])
  PROVE  IsSequence(FlattenSeq(f))
<1>1. s \in Seq(ToSet(s))
  BY DEF IsSequence
<1>2. PICK n \in Nat : DOMAIN s = 1..n
  BY <1>1, LenProperties
<1>3. f = [i \in 1..n |-> f[i]]
  BY <1>2
<1>4. IsSequence(f) /\ Len(f) = n
  BY <1>3, ByPlaces
<1>5. QED
  BY <1>2, <1>4, FlattenOwn

(* Pairs replaced.                                                         *)
LEMMA SubstituteOwn ==
  ASSUME NEW s, IsSequence(s), NEW f, \A p \in DOMAIN f : IsSequence(f[p])
  PROVE  IsSequence(Substitute(s, f))
<1> DEFINE Hit(i) == i \in 1..Len(s) - 1 /\ <<s[i], s[i + 1]>> \in DOMAIN f
           g == [i \in DOMAIN s |-> IF Hit(i) THEN f[<<s[i], s[i + 1]>>]
                                    ELSE IF Hit(i - 1) THEN <<>> ELSE <<s[i]>>]
<1>1. ASSUME NEW i \in DOMAIN s PROVE IsSequence(g[i])
  <2>1. g[i] = IF Hit(i) THEN f[<<s[i], s[i + 1]>>] ELSE IF Hit(i - 1) THEN <<>> ELSE <<s[i]>>
    OBVIOUS
  <2>2. Hit(i) => <<s[i], s[i + 1]>> \in DOMAIN f
    OBVIOUS
  <2> HIDE DEF Hit, g
  <2>3. IsSequence(<<>>) /\ IsSequence(<<s[i]>>)
    BY One, None
  <2>4. QED
    BY <2>1, <2>2, <2>3
<1>2. g = [i \in DOMAIN s |-> g[i]]
  OBVIOUS
<1>3. Substitute(s, f) = FlattenSeq(g)
  BY DEF Substitute
<1> HIDE DEF g
<1>4. QED
  BY <1>1, <1>2, <1>3, EachFlattened

(* The five of a euro, and of a letter in the second set.                  *)
LEMMA FiveOwn ==
  ASSUME NEW u, NEW v, NEW w, NEW x, NEW y
  PROVE  IsSequence(<<u, v, w, x, y>>)
<1>1. <<u, v, w, x, y>> \in Seq({u, v, w, x, y})
  OBVIOUS
<1>2. QED
  BY <1>1, OwnElements

(* The spellings in plain ASCII.                                           *)
LEMMA SpellingsOwn ==
  ASSUME NEW b \in DOMAIN Ascii7
  PROVE  IsSequence(Ascii7[b])
<1>1. b \in UNION {s[1] : s \in Spellings}
        /\ Ascii7[b] = (CHOOSE s \in Spellings : b \in s[1])[2]
  BY DEF Ascii7
<1>2. PICK s \in Spellings : b \in s[1] /\ Ascii7[b] = s[2]
  BY <1>1
<1>3. \E x, y : s[2] = <<x>> \/ s[2] = <<x, y>>
  BY <1>2 DEF Spellings
<1>4. QED
  BY <1>2, <1>3, One, Two

(* Double quotes fixed.                                                    *)
LEMMA FixOwn ==
  ASSUME NEW s, IsSequence(s)
  PROVE  IsSequence(FixDoubleQuotes(s))
<1>1. IsSequence(Escaped(s))
  <2> DEFINE g == [i \in DOMAIN s |-> IF s[i] = Quote THEN <<Backslash, Quote>> ELSE <<s[i]>>]
  <2>1. \A i \in DOMAIN s : IsSequence(g[i])
    BY One, Two
  <2>2. g = [i \in DOMAIN s |-> g[i]] /\ Escaped(s) = FlattenSeq(g)
    BY DEF Escaped
  <2> HIDE DEF g
  <2>3. QED
    BY <2>1, <2>2, EachFlattened
<1> DEFINE q == Escaped(s)
           Twice(i) == i \in 1..Len(q) - 2 /\ SubSeq(q, i, i + 2) = <<Backslash, Backslash, Quote>>
           g == [i \in DOMAIN q |-> IF Twice(i) THEN <<>> ELSE <<q[i]>>]
<1>2. FixDoubleQuotes(s) = FlattenSeq(g)
  BY DEF FixDoubleQuotes
<1> HIDE DEF q, Twice
<1>3. \A i \in DOMAIN q : IsSequence(g[i])
  BY One, None
<1>4. g = [i \in DOMAIN q |-> g[i]]
  OBVIOUS
<1> HIDE DEF g
<1>5. QED
  BY <1>1, <1>2, <1>3, <1>4, EachFlattened DEF q

(* Letters replaced.                                                       *)
LEMMA CaseMapOwn ==
  ASSUME NEW s, IsSequence(s), NEW ascii7 \in BOOLEAN
  PROVE  IsSequence(CaseMap(s, ascii7))
<1> DEFINE L(b) == CASE ascii7 /\ b \in DOMAIN Ascii7 -> Ascii7[b]
                     [] ~ascii7 /\ b \in DOMAIN DirectCode -> <<U(DirectCode[b])>>
                     [] ~ascii7 /\ b \in DOMAIN WrappedCode ->
                          <<Sharp, 103, U(WrappedCode[b]), Sharp, 116>>
                     [] OTHER -> <<b>>
           g == [i \in DOMAIN s |-> L(s[i])]
<1>1. CaseMap(s, ascii7) = FlattenSeq(g)
  BY DEF CaseMap
<1>2. ASSUME NEW b PROVE IsSequence(L(b))
  <2>1. \/ b \in DOMAIN Ascii7 /\ L(b) = Ascii7[b]
        \/ L(b) = <<U(DirectCode[b])>>
        \/ L(b) = <<Sharp, 103, U(WrappedCode[b]), Sharp, 116>>
        \/ L(b) = <<b>>
    OBVIOUS
  <2> HIDE DEF L
  <2>2. \A u, v, w, x, y : IsSequence(<<u, v, w, x, y>>)
    BY FiveOwn
  <2>3. QED
    BY <2>1, <2>2, One, SpellingsOwn
<1>3. g = [i \in DOMAIN s |-> g[i]] /\ \A i \in DOMAIN s : g[i] = L(s[i])
  OBVIOUS
<1> HIDE DEF g, L
<1>4. \A i \in DOMAIN s : IsSequence(g[i])
  BY <1>2, <1>3
<1>5. QED
  BY <1>1, <1>3, <1>4, EachFlattened

(* Escapes replaced.                                                       *)
LEMMA EscapePassOwn ==
  ASSUME NEW s, IsSequence(s), NEW ascii7 \in BOOLEAN
  PROVE  IsSequence(EscapePass(s, ascii7))
<1> DEFINE euro == [p \in {<<Sharp, Euro>>} |-> IF ascii7 THEN <<Euro>> ELSE Euros]
           plain == [p \in {Sharp} \X DOMAIN Plain |->
                       CASE p[2] = 102 /\ ascii7 -> <<>>
                         [] p[2] = 115 -> <<32>>
                         [] OTHER -> <<U(Plain[p[2]])>>]
           late == [p \in ({Sharp} \X DOMAIN Late) \cup ({Backslash} \X {110, 114}) |->
                      <<U(IF p[1] = Sharp THEN Late[p[2]] ELSE CR)>>]
<1>1. EscapePass(s, ascii7) = Substitute(Substitute(Substitute(s, euro), plain), late)
  BY DEF EscapePass
<1>2. \A p \in DOMAIN euro : IsSequence(euro[p])
  <2>1. IsSequence(Euros) /\ IsSequence(<<Euro>>)
    BY One, FiveOwn DEF Euros
  <2>2. QED
    BY <2>1
<1>3. \A p \in DOMAIN plain : IsSequence(plain[p])
  <2>1. TAKE p \in DOMAIN plain
  <2>2. plain[p] = <<>> \/ plain[p] = <<32>> \/ plain[p] = <<U(Plain[p[2]])>>
    OBVIOUS
  <2> HIDE DEF plain
  <2>3. QED
    BY <2>2, One, None
<1>4. \A p \in DOMAIN late : IsSequence(late[p])
  <2>1. TAKE p \in DOMAIN late
  <2>2. \E x : late[p] = <<x>>
    OBVIOUS
  <2> HIDE DEF late
  <2>3. QED
    BY <2>2, One
<1> HIDE DEF euro, plain, late
<1>5. QED
  BY <1>1, <1>2, <1>3, <1>4, SubstituteOwn

(* All of it, as the document has it.                                      *)
LEMMA ExportedOwn ==
  ASSUME NEW s, IsSequence(s), NEW ascii7 \in BOOLEAN
  PROVE  IsSequence(Exported(s, ascii7))
<1>1. IsSequence(CaseMap(FixDoubleQuotes(s), ascii7))
  BY FixOwn, CaseMapOwn
<1>2. QED
  BY <1>1, EscapePassOwn DEF Exported

(* What is read of a string is a sequence.                                 *)
LEMMA DecodedOwn ==
  ASSUME NEW s, IsSequence(s)
  PROVE  IsSequence(Decoded(s).text)
<1> DEFINE n == Len(s)
           C == ToSet(s)
           MayRead(c) == {c, JsonEscapes[c], c - U(0), c - 64,
                           HexDigit((c - U(0)) \div 16, c - U(0)),
                           HexDigit((c - U(0)) % 16, c - U(0))}
           V == Int \cup UNION {MayRead(c) : c \in C}
           S == [text : Seq(V), escape : BOOLEAN, left : Int, code : Int, bad : BOOLEAN]
           first == NothingRead
           ReadOf(r, c) == CharRead(r, c)
           step == [x \in (1..n) \X S |-> ReadOf(x[2], s[x[1]])]
           Good(f) == f = [i \in 1 .. n + 1 |->
                             IF i = 1 THEN first ELSE ReadOf(f[i - 1], s[i - 1])]
           h == CHOOSE f : Good(f)
<1>1. n \in Nat /\ \A i \in 1..n : s[i] \in C
  <2>1. s \in Seq(ToSet(s))
    BY DEF IsSequence
  <2>2. QED
    BY <2>1, LenProperties, ElementOfSeq
<1>2. /\ Int \subseteq V
      /\ \A c \in C : /\ c \in V /\ JsonEscapes[c] \in V /\ c - U(0) \in V /\ c - 64 \in V
                      /\ HexDigit((c - U(0)) \div 16, c - U(0)) \in V
                      /\ HexDigit((c - U(0)) % 16, c - U(0)) \in V
  <2> HIDE DEF MayRead
  <2>1. Int \subseteq V /\ \A c \in C : MayRead(c) \subseteq V
    OBVIOUS
  <2> HIDE DEF V
  <2>2. QED
    BY <2>1, Zenon DEF MayRead
<1> HIDE DEF V, C, MayRead
<1>3. ASSUME NEW c, c \in V, c - 64 \in V PROVE Utf8(c) \in Seq(V)
  <2>1. 194 \in V /\ 195 \in V
    BY <1>2
  <2>2. <<c>> \in Seq(V) /\ <<194, c>> \in Seq(V) /\ <<195, c - 64>> \in Seq(V)
    BY <1>3, <2>1
  <2>3. Utf8(c) \in {<<c>>, <<194, c>>, <<195, c - 64>>}
    BY Zenon DEF Utf8, HighByte
  <2>4. QED
    BY <2>2, <2>3
<1>4. ASSUME NEW r \in S, NEW c \in C PROVE ReadOf(r, c) \in S
  <2>1. /\ r.text \in Seq(V) /\ r.escape \in BOOLEAN /\ r.bad \in BOOLEAN
        /\ r.left \in Int /\ r.code \in Int
    OBVIOUS
  <2>2. [r EXCEPT !.bad = TRUE] \in S /\ [r EXCEPT !.escape = TRUE] \in S
    OBVIOUS
  <2>3. DigitRead(r, c) \in S
    <3> DEFINE code == 16 * r.code + HexValue[c]
               more == Utf8(code)
    <3>1. c \in DOMAIN HexValue => HexValue[c] \in Int
      BY DEF HexValue
    <3>2. c \in DOMAIN HexValue => code \in Int
      BY <2>1, <3>1
    <3> HIDE DEF code
    <3>3. c \in DOMAIN HexValue => more \in Seq(V)
      <4>1. c \in DOMAIN HexValue => code \in V /\ code - 64 \in V
        BY <1>2, <3>2
      <4>2. QED
        BY <1>3, <4>1
    <3> HIDE DEF more
    <3>4. c \in DOMAIN HexValue => r.text \o more \in Seq(V)
      BY <2>1, <3>3, Concat
    <3>5. c \in DOMAIN HexValue =>
            /\ [r EXCEPT !.code = code, !.left = r.left - 1] \in S
            /\ [r EXCEPT !.text = r.text \o more, !.left = 0] \in S
      <4>1. ASSUME NEW a \in Int PROVE [r EXCEPT !.code = a, !.left = r.left - 1] \in S
        <5>1. r.left - 1 \in Int
          BY <2>1
        <5>2. QED
          BY <2>1, <5>1
      <4>2. ASSUME NEW t \in Seq(V), NEW a \in Int
            PROVE  [r EXCEPT !.text = t, !.left = a] \in S
        BY <2>1
      <4> HIDE DEF S
      <4>3. 0 \in Int
        OBVIOUS
      <4>4. QED
        BY <3>2, <3>4, <4>1, <4>2, <4>3, Zenon
    <3> HIDE DEF S
    <3>6. DigitRead(r, c) = IF c \notin DOMAIN HexValue \/ code > 255
                            THEN [r EXCEPT !.bad = TRUE]
                            ELSE IF r.left > 1 THEN [r EXCEPT !.code = code, !.left = r.left - 1]
                            ELSE [r EXCEPT !.text = r.text \o more, !.left = 0]
      BY DEF DigitRead, code, more
    <3>7. QED
      BY <2>2, <3>5, <3>6, Zenon
  <2>4. EscapeRead(r, c) \in S
    <3> DEFINE more == Spelling(c - U(0))
    <3>1. more \in Seq(V)
      <4>1. Backslash \in V /\ 117 \in V /\ 48 \in V
        BY <1>2 DEF Backslash
      <4>2. QED
        BY <1>2, <4>1 DEF Spelling
    <3> HIDE DEF more
    <3>2. Append(r.text, JsonEscapes[c]) \in Seq(V) /\ r.text \o more \in Seq(V)
      BY <1>2, <2>1, <3>1, AppendProperties, Concat
    <3>3. /\ [r EXCEPT !.text = Append(r.text, JsonEscapes[c]), !.escape = FALSE] \in S
          /\ [r EXCEPT !.text = r.text \o more, !.escape = FALSE] \in S
          /\ [r EXCEPT !.escape = FALSE, !.left = 4, !.code = 0] \in S
      <4>1. ASSUME NEW a \in Int, NEW b \in Int
            PROVE  [r EXCEPT !.escape = FALSE, !.left = a, !.code = b] \in S
        BY <2>1
      <4>2. ASSUME NEW t \in Seq(V) PROVE [r EXCEPT !.text = t, !.escape = FALSE] \in S
        BY <2>1
      <4> HIDE DEF S
      <4>3. 0 \in Int /\ 4 \in Int
        OBVIOUS
      <4>4. QED
        BY <3>2, <4>1, <4>2, <4>3, Zenon
    <3> HIDE DEF S
    <3>4. EscapeRead(r, c) =
            IF c \in DOMAIN JsonEscapes
            THEN [r EXCEPT !.text = Append(r.text, JsonEscapes[c]), !.escape = FALSE]
            ELSE IF c = 117 THEN [r EXCEPT !.escape = FALSE, !.left = 4, !.code = 0]
            ELSE IF c >= U(0) THEN [r EXCEPT !.text = r.text \o more, !.escape = FALSE]
            ELSE [r EXCEPT !.bad = TRUE]
      BY DEF EscapeRead, more
    <3>5. QED
      BY <2>2, <3>3, <3>4, Zenon
  <2>5. [r EXCEPT !.text = r.text \o IF c >= U(0) THEN <<c - U(0)>> ELSE Utf8(c)] \in S
    <3>1. PICK more : more = IF c >= U(0) THEN <<c - U(0)>> ELSE Utf8(c)
      OBVIOUS
    <3>2. <<c - U(0)>> \in Seq(V) /\ Utf8(c) \in Seq(V)
      BY <1>2, <1>3
    <3>3. r.text \o more \in Seq(V)
      BY <2>1, <3>1, <3>2, Concat
    <3>4. [r EXCEPT !.text = r.text \o more] \in S
      BY <2>1, <3>3
    <3> HIDE DEF S
    <3>5. QED
      BY <3>1, <3>4
  <2> HIDE DEF S
  <2>6. QED
    BY <2>2, <2>3, <2>4, <2>5 DEF CharRead
<1>5. first \in S
  BY DEF NothingRead
<1>6. \A r \in S : r.text \in Seq(V)
  OBVIOUS
<1> HIDE DEF S, ReadOf
<1>7. step \in [(1..n) \X S -> S]
  BY <1>1, <1>4
<1>8. \A i \in 1..n : \A r \in S : step[<<i, r>>] = ReadOf(r, s[i])
  OBVIOUS
<1> HIDE DEF step, n, first
<1>9. PICK g : IsForward(g, n, S, first, step)
  BY <1>1, <1>5, <1>7, ForwardRecursion, Zenon
<1>10. /\ g \in [1 .. n + 1 -> S] /\ g[1] = first
       /\ \A i \in 1..n : g[i + 1] = step[<<i, g[i]>>]
  BY <1>9 DEF IsForward
<1>11. ASSUME NEW i \in 1..n PROVE g[i + 1] = ReadOf(g[i], s[i])
  <2>1. g[i] \in S
    BY <1>1, <1>10
  <2>2. QED
    BY <1>8, <1>10, <2>1
<1>12. Good(g)
  <2>1. ASSUME NEW i \in 1 .. n + 1
        PROVE  g[i] = IF i = 1 THEN first ELSE ReadOf(g[i - 1], s[i - 1])
    <3>1. CASE i = 1
      BY <1>10, <3>1
    <3>2. CASE i # 1
      <4>1. i - 1 \in 1..n /\ i - 1 + 1 = i
        BY <1>1, <3>2
      <4>2. g[i - 1 + 1] = ReadOf(g[i - 1], s[i - 1])
        BY <1>11, <4>1
      <4>3. QED
        BY <3>2, <4>1, <4>2
    <3>3. QED
      BY <3>1, <3>2
  <2>2. g = [i \in 1 .. n + 1 |-> g[i]]
    BY <1>10
  <2>3. QED
    BY <2>1, <2>2
<1>13. Good(h)
  <2> HIDE DEF Good
  <2>1. QED
    BY <1>12
<1>14. /\ h = [i \in 1 .. n + 1 |-> h[i]] /\ h[1] = first
       /\ \A i \in 1..n : h[i + 1] = ReadOf(h[i], s[i])
  <2> HIDE DEF h
  <2>1. /\ h = [i \in 1 .. n + 1 |-> h[i]]
        /\ \A i \in 1 .. n + 1 : h[i] = IF i = 1 THEN first ELSE ReadOf(h[i - 1], s[i - 1])
    BY <1>13
  <2>2. h[1] = first
    <3>1. 1 \in 1 .. n + 1
      BY <1>1
    <3>2. QED
      BY <2>1, <3>1
  <2>3. ASSUME NEW i \in 1..n PROVE h[i + 1] = ReadOf(h[i], s[i])
    <3> DEFINE j == i + 1
    <3>1. j \in 1 .. n + 1 /\ j # 1 /\ j - 1 = i
      BY <1>1
    <3> HIDE DEF j
    <3>2. h[j] = ReadOf(h[j - 1], s[j - 1])
      BY <2>1, <3>1, Zenon
    <3>3. QED
      BY <3>1, <3>2, Zenon DEF j
  <2>4. QED
    BY <2>1, <2>2, <2>3
<1>15. Decoded(s).text = h[n + 1].text
  <2>1. Decoded(s) = [text |-> h[n + 1].text,
                      bad |-> h[n + 1].bad \/ h[n + 1].escape \/ h[n + 1].left > 0]
    BY Zenon DEF Decoded, h, Good, n, first, ReadOf
  <2>2. QED
    BY <2>1
<1> HIDE DEF h
<1>16. IsForward(h, n, S, first, step)
  <2>1. \A i \in 1..n : h[i] \in S => h[i + 1] = step[<<i, h[i]>>]
    BY <1>8, <1>14
  <2>2. QED
    BY <1>1, <1>5, <1>7, <1>14, <2>1, ForwardDefined, Zenon
<1>17. h[n + 1] \in S
  BY <1>1, <1>16 DEF IsForward
<1>18. h[n + 1].text \in Seq(V)
  BY <1>6, <1>17
<1>19. QED
  BY <1>15, <1>18, OwnElements

(* No line feed is left in a text.                                         *)
LEMMA ReplacedType ==
  ASSUME NEW s, IsSequence(s)
  PROVE  \E T : 10 \notin T /\ ReplaceChars(s) \in Seq(T)
<1> DEFINE f == [p \in {Sharp} \X DOMAIN Codes |-> <<Codes[p[2]]>>]
           escaped == Substitute(s, f)
           lines == [i \in DOMAIN escaped |-> IF escaped[i] = 10 THEN CR ELSE escaped[i]]
           g == [i \in DOMAIN lines |->
                   IF lines[i] = Sharp /\ SharpsBefore(lines, i) % 2 = 1 THEN <<>> ELSE <<lines[i]>>]
           T == {lines[i] : i \in DOMAIN lines}
<1>1. IsSequence(escaped)
  <2>1. \A p \in DOMAIN f : IsSequence(f[p])
    <3>1. TAKE p \in DOMAIN f
    <3>2. \E x : f[p] = <<x>>
      OBVIOUS
    <3> HIDE DEF f
    <3>3. QED
      BY <3>2, One
  <2> HIDE DEF f
  <2>2. QED
    BY <2>1, SubstituteOwn
<1>2. ReplaceChars(s) = FlattenSeq(g)
  BY DEF ReplaceChars
<1> HIDE DEF escaped
<1>3. PICK n \in Nat : DOMAIN lines = 1..n /\ DOMAIN escaped = 1..n
  <2>1. escaped \in Seq(ToSet(escaped))
    BY <1>1 DEF IsSequence
  <2>2. DOMAIN escaped = 1..Len(escaped) /\ Len(escaped) \in Nat
    BY <2>1, LenProperties
  <2>3. QED
    BY <2>2
<1>4. 10 \notin T
  BY <1>3 DEF CR
<1>5. \A i \in 1..n : lines[i] \in T
  BY <1>3
<1> HIDE DEF lines, T
<1>6. g \in Seq(Seq(T))
  <2>1. \A i \in 1..n : g[i] \in Seq(T)
    <3>1. TAKE i \in 1..n
    <3>2. g[i] = <<>> \/ g[i] = <<lines[i]>>
      BY <1>3
    <3>3. <<lines[i]>> \in Seq(T) /\ <<>> \in Seq(T)
      BY <1>5
    <3> HIDE DEF g
    <3>4. QED
      BY <3>2, <3>3
  <2>2. g = [i \in 1..n |-> g[i]]
    BY <1>3
  <2> HIDE DEF g
  <2>3. g \in [1..n -> Seq(T)]
    BY <2>1, <2>2
  <2>4. QED
    BY <2>3
<1> HIDE DEF g
<1>7. FlattenSeq(g) \in Seq(T)
  BY <1>6, FlattenType
<1>8. QED
  BY <1>2, <1>4, <1>7

(* An accepted text has no byte that looks like its end.                   *)
LEMMA AcceptedShown ==
  ASSUME NEW s \in Keys, NEW ascii7 \in BOOLEAN, Accepted(s, ascii7)
  PROVE  Loaded(s, ascii7) \in Seq(Shown)
<1>1. IsSequence(s)
  BY OwnElements DEF Keys
<1>2. IsSequence(Decoded(Exported(s, ascii7)).text)
  BY <1>1, ExportedOwn, DecodedOwn
<1>3. PICK T : 10 \notin T /\ Loaded(s, ascii7) \in Seq(T)
  BY <1>2, ReplacedType DEF Loaded
<1>4. PICK t : t = Loaded(s, ascii7)
  OBVIOUS
<1>5. \A i \in DOMAIN t : t[i] \in 0..127
  BY <1>4 DEF Accepted, Readable
<1>6. PICK n \in Nat : DOMAIN t = 1..n /\ t \in [1..n -> T]
  BY <1>3, <1>4, LenProperties, ElementOfSeq
<1>7. \A i \in 1..n : t[i] \in Shown
  BY <1>3, <1>5, <1>6 DEF Shown
<1>8. t \in [1..n -> Shown]
  BY <1>6, <1>7
<1>9. QED
  BY <1>4, <1>8

(* The texts loaded: what is accepted has no byte that ends a text.        *)
LEMMA LoadModelKeeps ==
  ASSUME FileInv, LoadModel
  PROVE  FileInv'
<1>1. /\ status = "parsed" /\ AllAccepted /\ status' = "loaded"
      /\ loaded' = [t \in Tables |-> [i \in DOMAIN texts[t] |-> Loaded(texts[t][i], job.ascii7)]]
      /\ UNCHANGED <<source, db, offsets, extvec>>
  BY DEF LoadModel
<1>2. /\ ListsInv /\ IsImage(db) /\ db.out = <<>> /\ offsets = <<>> /\ extvec = NoVector
  BY <1>1 DEF FileInv
<1>3. job \in Jobs /\ section = "PRO" /\ texts \in [Tables -> Seq(Keys)]
  BY <1>1, <1>2 DEF ListsInv
<1>4. job.ascii7 \in BOOLEAN
  BY <1>3, OptionsAssumption
<1>5. ASSUME NEW t \in Tables
      PROVE  /\ loaded'[t] \in Seq(Seq(Shown)) /\ Len(loaded'[t]) = Len(texts[t])
  <2>1. texts[t] \in Seq(Keys)
    BY <1>3
  <2>2. PICK n \in Nat : n = Len(texts[t]) /\ DOMAIN texts[t] = 1..n
    BY <2>1, LenProperties
  <2>3. ASSUME NEW i \in 1..n
        PROVE  loaded'[t][i] = Loaded(texts[t][i], job.ascii7) /\ loaded'[t][i] \in Seq(Shown)
    <3>1. loaded'[t][i] = Loaded(texts[t][i], job.ascii7)
      BY <1>1, <2>2
    <3>2. texts[t][i] \in Keys
      BY <2>1, <2>2, ElementOfSeq
    <3>3. texts[t][i] \in ToSet(texts[t])
      BY <2>2 DEF ToSet
    <3>4. Accepted(texts[t][i], job.ascii7)
      BY <1>1, <3>3 DEF AllAccepted
    <3>5. QED
      BY <1>4, <3>1, <3>2, <3>4, AcceptedShown
  <2>4. loaded'[t] = [i \in 1..n |-> loaded'[t][i]]
    BY <1>1, <2>2
  <2>5. PICK l : l = loaded'[t]
    OBVIOUS
  <2>6. l \in [1..n -> Seq(Shown)]
    BY <2>3, <2>4, <2>5
  <2>7. l \in Seq(Seq(Shown)) /\ Len(l) = n
    BY <2>6, LenProperties
  <2>8. QED
    BY <2>2, <2>5, <2>7
<1>6. loaded' = [t \in Tables |-> loaded'[t]]
  BY <1>1
<1>7. texts' = texts /\ job' = job
  BY <1>1 DEF source
<1>8. LoadedInv'
  BY <1>5, <1>6, <1>7 DEF LoadedInv, Tables
<1>9. ListsInv'
  BY <1>1, <1>2, <1>3, SameLists
<1>10. IsImage(db)' /\ db'.out = <<>> /\ offsets' = <<>> /\ extvec' = NoVector'
  BY <1>1, <1>2, <1>7 DEF IsImage, NoVector
<1>11. QED
  BY <1>1, <1>8, <1>9, <1>10 DEF FileInv, KnownWords

-----------------------------------------------------------------------------
(* The invariant.                                                          *)

(* At first nothing is written.                                            *)
LEMMA FileInit ==
  ASSUME Init
  PROVE  FileInv
<1>1. /\ job \in Jobs /\ rest = job.source /\ section = "start" /\ status = "parsing"
      /\ voc = <<>> /\ texts = [t \in Tables |-> <<>>] /\ connections = <<>> /\ objects = <<>>
      /\ db = [out |-> <<>>, addr |-> job.base,
               region |-> IF job.text2 THEN TokenBytes ELSE <<>>]
      /\ offsets = <<>> /\ extvec = [k \in 0..2 |-> 0]
  BY DEF Init, FrontInit
<1>2. job.source \in Seq(Token)
  BY <1>1, JobsAssumption
<1>3. {job.base, job.tokens} \subseteq Nat
  BY <1>1, OptionsAssumption
<1>4. IsSequence(<<>>) /\ Len(<<>>) = 0
  <2>1. <<>> \in Seq(Int) /\ Len(<<>>) = 0
    OBVIOUS
  <2>2. QED
    BY <2>1, OwnElements
<1>5. IsSequence(TokenBytes)
  <2>1. PICK n \in Nat : n = job.tokens
    BY <1>3
  <2>2. TokenBytes \in Seq({301})
    BY <2>1 DEF TokenBytes
  <2>3. QED
    BY <2>2, OwnElements
<1>6. ListsInv
  <2>1. "start" \in ToSet(Sections)
    <3>1. Sections[1] = "start" /\ 1 \in DOMAIN Sections
      BY DEF Sections
    <3>2. QED
      BY <3>1 DEF ToSet
  <2>2. texts \in [Tables -> Seq(Keys)] /\ \A t \in Tables : Len(texts[t]) <= MaxTexts
    <3>1. \A t \in Tables : texts[t] = <<>>
      BY <1>1
    <3>2. MaxTexts \in Nat
      BY TextsAssumption
    <3>3. QED
      BY <1>1, <1>4, <3>1, <3>2
  <2>3. Len(objects) <= Len(texts.OTX)
    <3>1. texts.OTX = <<>>
      BY <1>1 DEF Tables
    <3>2. QED
      BY <1>1, <1>4, <3>1
  <2>4. IsSequence(voc) /\ IsSequence(objects) /\ IsSequence(connections)
    BY <1>1, <1>4
  <2>5. QED
    BY <1>1, <1>2, <2>1, <2>2, <2>3, <2>4 DEF ListsInv
<1>7. IsImage(db)
  <2>1. IsSequence(db.out) /\ IsSequence(db.region) /\ Len(db.out) = 0
    BY <1>1, <1>4, <1>5
  <2>2. db.addr = job.base + Len(db.out)
    BY <1>1, <1>3, <2>1
  <2>3. db = [out |-> db.out, addr |-> db.addr, region |-> db.region]
    BY <1>1
  <2>4. QED
    BY <2>1, <2>2, <2>3 DEF IsImage
<1>8. QED
  BY <1>1, <1>6, <1>7 DEF FileInv, NoVector, KnownWords

(* Parsing writes nothing.                                                 *)
LEMMA ParseKeeps ==
  ASSUME FileInv, ParseNext, UNCHANGED <<loaded, db, offsets, extvec>>
  PROVE  FileInv'
<1>1. /\ status = "parsing" /\ job' = job /\ status' \in {"parsing", "parsed", "refused"}
  BY DEF ParseNext, ParseCtl, ParseNewWord, ParseMessage, ParseLocation, ParseConnection,
         ParseObject, EndSection, ParsePro, Refuse
<1>2. ListsInv /\ IsImage(db) /\ db.out = <<>> /\ offsets = <<>> /\ extvec = NoVector
  BY <1>1 DEF FileInv
<1>3. ListsInv'
  BY <1>2, ListsStep
<1>4. IsImage(db)' /\ db'.out = <<>> /\ offsets' = <<>> /\ extvec' = NoVector'
  BY <1>1, <1>2 DEF IsImage, NoVector
<1>5. QED
  BY <1>1, <1>3, <1>4 DEF FileInv, KnownWords

(* A step that writes nothing and ends the run.                            *)
LEMMA EndKeeps ==
  ASSUME FileInv, UNCHANGED <<source, loaded, db, offsets, extvec>>,
         status \notin {"parsing", "refused"},
         status' \in {"unreadable", "missing", "truncated"}
  PROVE  FileInv'
<1>1. ListsInv /\ section = "PRO"
  BY DEF FileInv, ListsInv
<1>2. ListsInv'
  BY <1>1, SameLists
<1>3. QED
  BY <1>2 DEF FileInv, KnownWords

(* Neither does a step that changes nothing.                               *)
LEMMA StutterKeeps ==
  ASSUME FileInv, UNCHANGED vars
  PROVE  FileInv'
<1>1. UNCHANGED <<source, loaded, db, offsets, extvec, status>>
  BY DEF vars
<1>2. ListsInv'
  BY <1>1 DEF FileInv, ListsInv, source
<1>3. /\ LoadedInv' <=> LoadedInv
      /\ Version' = Version
      /\ \A d : IsImage(d)' <=> IsImage(d)
      /\ \A d, words, known : WordsKnown(d, words, known)' <=> WordsKnown(d, words, known)
      /\ \A d, k, a : VectorStands(d, k, a)' <=> VectorStands(d, k, a)
      /\ \A d, v : HeaderStands(d, v)' <=> HeaderStands(d, v)
  BY <1>1, SameGame
<1>4. KnownWords' = KnownWords /\ NoVector' = NoVector /\ job' = job
  BY <1>1 DEF KnownWords, NoVector, source
<1>5. PatchStands(db)' <=> PatchStands(db)
  BY <1>1 DEF PatchStands, WithinLimits, HeaderStands, Version, Counts, HeaderWords, FileSize,
              Word, Byte, source
<1>6. IsImage(db)' <=> IsImage(db)
  BY <1>1, <1>3
<1>7. WordsKnown(db, offsets, KnownWords[status])' <=> WordsKnown(db, offsets, KnownWords[status])
  BY <1>1, <1>3, <1>4
<1>8. \A k \in 0..2 : VectorStands(db, k, extvec[k])' <=> VectorStands(db, k, extvec[k])
  BY <1>1, <1>3
<1>9. HeaderStands(db, Version)' <=> HeaderStands(db, Version)
  BY <1>1, <1>3
<1>10. QED
  BY <1>1, <1>2, <1>3, <1>4, <1>5, <1>6, <1>7, <1>8, <1>9 DEF FileInv

(* Every step.                                                             *)
LEMMA FileStep ==
  ASSUME FileInv, [Next]_vars
  PROVE  FileInv'
<1>1. CASE RefuseText \/ MissingExtern \/ Truncate
  <2>1. /\ UNCHANGED <<source, loaded, db, offsets, extvec>>
        /\ status \notin {"parsing", "refused"}
        /\ status' \in {"unreadable", "missing", "truncated"}
    BY <1>1 DEF RefuseText, MissingExtern, Truncate
  <2>2. QED
    BY <2>1, EndKeeps
<1>2. CASE WriteSTX \/ WriteMTX \/ WriteLTX
  BY <1>2, TextTablesKeep
<1>3. CASE ParseNext /\ UNCHANGED <<loaded, db, offsets, extvec>>
  BY <1>3, ParseKeeps
<1>4. CASE UNCHANGED vars
  BY <1>4, StutterKeeps
<1>5. QED
  BY <1>1, <1>2, <1>3, <1>4, LoadModelKeeps, HeaderKeeps, ExternsKeep, ObjectTextsKeep,
     ObjectsKeep, VocabularyKeeps, TokensKeep, ConnectionsKeep, ProcessesKeep, PatchKeeps
     DEF Next

-----------------------------------------------------------------------------
(* Reading a finished file.                                                *)

(* The bytes of a word, read in their order, are the word.                 *)
LEMMA WordRead ==
  ASSUME NEW x \in Nat, x <= 65535, NEW a, At(a) = Word(x)[1], At(a + 1) = Word(x)[2]
  PROVE  WordAt(a) = x
<1>1. x % 65536 = x
  OBVIOUS
<1>2. PICK h, l : h = x \div 256 /\ l = x % 256
  OBVIOUS
<1>3. 256 * h + l = x
  BY <1>2
<1>4. CASE job.big
  <2>1. At(a) = h /\ At(a + 1) = l
    BY <1>1, <1>2, <1>4 DEF Word
  <2>2. WordAt(a) = 256 * At(a) + At(a + 1)
    BY <1>4 DEF WordAt
  <2>3. QED
    BY <1>3, <2>1, <2>2
<1>5. CASE ~job.big
  <2>1. At(a) = l /\ At(a + 1) = h
    BY <1>1, <1>2, <1>5 DEF Word
  <2>2. WordAt(a) = 256 * At(a + 1) + At(a)
    BY <1>5 DEF WordAt
  <2>3. QED
    BY <1>3, <2>1, <2>2
<1>6. QED
  BY <1>4, <1>5

(* A byte of the file, by its place in it.                                 *)
LEMMA ByteRead ==
  ASSUME IsImage(db), job.base \in Nat, NEW i \in 1..Len(db.out)
  PROVE  At(job.base + (i - 1)) = db.out[i]
<1>1. db.out \in Seq(ToSet(db.out))
  BY DEF IsImage, IsSequence
<1>2. DOMAIN db.out = 1..Len(db.out) /\ Len(db.out) \in Nat
  BY <1>1, LenProperties
<1>3. job.base + (i - 1) - job.base + 1 = i
  BY <1>2
<1>4. QED
  BY <1>2, <1>3 DEF At

(* Bytes that stand somewhere are read there.                              *)
LEMMA StandsRead ==
  ASSUME IsImage(db), job.base \in Nat, NEW a \in Nat, NEW b, Stands(db, a, b)
  PROVE  Found(a, b)
<1>1. PICK from : from = a - job.base
  OBVIOUS
<1>2. PICK n : n = Len(b)
  OBVIOUS
<1>3. /\ IsSequence(b) /\ from \in 60 .. Len(db.out) - n
      /\ \A k \in 1..n : db.out[from + k] = b[k]
  BY <1>1, <1>2 DEF Stands
<1>4. Len(db.out) \in Nat
  BY ImageType
<1>5. n \in Nat /\ DOMAIN b = 1..n
  BY <1>2, <1>3, LenProperties DEF IsSequence
<1>6. ASSUME NEW k \in 1..n
      PROVE  At(a + k - 1) = b[k]
  <2>1. from + k \in 1..Len(db.out)
    BY <1>3, <1>4, <1>5
  <2>2. job.base + ((from + k) - 1) = a + k - 1
    <3>1. k \in Nat
      BY <1>5
    <3>2. QED
      BY <1>1, <3>1
  <2>3. At(job.base + ((from + k) - 1)) = db.out[from + k]
    BY <2>1, ByteRead
  <2>4. QED
    BY <1>3, <2>2, <2>3
<1>7. QED
  BY <1>5, <1>6 DEF Found

(* A word that stands somewhere is read there.                             *)
LEMMA StandingWordRead ==
  ASSUME IsImage(db), job.base \in Nat, NEW a \in Nat, NEW x \in Nat, x <= 65535,
         Stands(db, a, Word(x))
  PROVE  WordAt(a) = x
<1>1. Found(a, Word(x))
  BY StandsRead
<1>2. DOMAIN Word(x) = 1..2
  BY DEF Word
<1>3. PICK w : w = Word(x)
  OBVIOUS
<1>4. At(a) = w[1] /\ At(a + 1) = w[2]
  <2>1. \A k \in 1..2 : At(a + k - 1) = w[k]
    BY <1>1, <1>2, <1>3 DEF Found
  <2>2. 1 \in 1..2 /\ 2 \in 1..2 /\ a + 1 - 1 = a /\ a + 2 - 1 = a + 1
    OBVIOUS
  <2>3. At(a + 1 - 1) = w[1] /\ At(a + 2 - 1) = w[2]
    BY <2>1, <2>2, SMT
  <2>4. QED
    BY <2>2, <2>3
<1>5. QED
  BY <1>3, <1>4, WordRead

(* A word that leads to bytes leads a reader to them.                      *)
LEMMA LeadsRead ==
  ASSUME IsImage(db), job.base \in Nat, db.addr <= 65535, NEW a \in Nat, NEW b,
         Leads(db, a, b)
  PROVE  /\ WordAt(a) \in job.base..db.addr /\ Stands(db, WordAt(a), b)
         /\ Found(WordAt(a), b)
<1>1. PICK to \in job.base..db.addr : Stands(db, a, Word(to)) /\ Stands(db, to, b)
  BY DEF Leads
<1>2. to \in Nat /\ to <= 65535
  <2>1. db.addr \in Nat
    BY ImageType
  <2>2. QED
    BY <1>1, <2>1
<1>3. WordAt(a) = to
  BY <1>1, <1>2, StandingWordRead
<1>4. Found(to, b)
  BY <1>1, <1>2, StandsRead
<1>5. QED
  BY <1>1, <1>3, <1>4

(* What a run that is done has in its file.                                *)
LEMMA Done ==
  ASSUME FileInv, status = "done"
  PROVE  /\ job \in Jobs /\ job.base \in Nat /\ ListsInv /\ LoadedInv
         /\ Len(objects) = Len(loaded.OTX)
         /\ IsImage(db) /\ Len(db.out) \in Nat /\ Len(db.out) >= 60
         /\ db.addr \in Nat /\ db.addr <= 65535 /\ db.addr = job.base + Len(db.out)
         /\ WordsKnown(db, offsets, 0..11)
         /\ \A k \in 0..2 : VectorStands(db, k, extvec[k])
         /\ PatchStands(db)
<1>1. ListsInv /\ LoadedInv
  BY DEF FileInv, KnownWords
<1>2. /\ IsImage(db) /\ WordsKnown(db, offsets, KnownWords["done"])
      /\ \A k \in 0..2 : VectorStands(db, k, extvec[k])
      /\ PatchStands(db)
  BY DEF FileInv, KnownWords
<1>3. KnownWords["done"] = 0..11
  BY DEF KnownWords
<1>4. job \in Jobs /\ section = "PRO" /\ Len(objects) = Len(texts.OTX)
  BY <1>1 DEF ListsInv
<1>5. job.base \in Nat
  BY <1>4, OptionsAssumption
<1>6. Len(loaded.OTX) = Len(texts.OTX)
  BY <1>1 DEF LoadedInv, Tables
<1>7. Len(db.out) \in Nat /\ db.addr \in Nat
  BY <1>2, <1>5, ImageType
<1>8. Len(db.out) >= 60 /\ db.addr <= 65535
  BY <1>2 DEF PatchStands, HeaderStands, WithinLimits
<1>9. db.addr = job.base + Len(db.out)
  BY <1>2 DEF IsImage
<1>10. QED
  BY <1>1, <1>2, <1>3, <1>4, <1>5, <1>6, <1>7, <1>8, <1>9

(* The sixteen words of the header, as they are read.                      *)
LEMMA PatchedWord ==
  ASSUME FileInv, status = "done", NEW j \in 1..16, NEW x \in Nat, HeaderWords[j] = x
  PROVE  WordAt(job.base + (6 + 2 * j)) = x % 65536
<1>1. /\ IsImage(db) /\ job.base \in Nat /\ Len(db.out) \in Nat /\ Len(db.out) >= 60
      /\ PatchStands(db)
  BY Done
<1>2. <<db.out[7 + 2 * j], db.out[8 + 2 * j]>> = Word(x)
  <2>1. \A k \in 1..16 : <<db.out[7 + 2 * k], db.out[8 + 2 * k]>> = Word(HeaderWords[k])
    BY <1>1, Zenon DEF PatchStands
  <2>2. QED
    BY <2>1, Zenon
<1>3. PICK i \in 1..Len(db.out) : i = 7 + 2 * j /\ i + 1 = 8 + 2 * j /\ i + 1 \in 1..Len(db.out)
  BY <1>1
<1>4. At(job.base + (i - 1)) = db.out[i] /\ At(job.base + ((i + 1) - 1)) = db.out[i + 1]
  BY <1>1, <1>3, ByteRead
<1>5. PICK a : a = job.base + (6 + 2 * j)
  OBVIOUS
<1>6. job.base + (i - 1) = a /\ job.base + ((i + 1) - 1) = a + 1
  BY <1>1, <1>3, <1>5
<1>7. PICK y \in Nat : y = x % 65536 /\ y <= 65535
  OBVIOUS
<1>8. Word(x) = Word(y)
  <2>1. y % 65536 = x % 65536
    BY <1>7
  <2>2. QED
    BY <2>1, SMT DEF Word
<1>9. At(a) = Word(y)[1] /\ At(a + 1) = Word(y)[2]
  <2>1. <<db.out[i], db.out[i + 1]>> = Word(y)
    BY <1>2, <1>3, <1>8
  <2>2. db.out[i] = Word(y)[1] /\ db.out[i + 1] = Word(y)[2]
    BY <2>1
  <2>3. QED
    BY <1>4, <1>6, <2>2
<1>10. WordAt(a) = y
  BY <1>7, <1>9, WordRead
<1>11. QED
  BY <1>5, <1>7, <1>10

(* The words noted, the vectors and the size are what the header says.     *)
LEMMA HeaderWordsRead ==
  ASSUME FileInv, status = "done"
  PROVE  /\ \A k \in 0..11 : HeaderWord(k) = offsets[k] /\ offsets[k] \in 0..db.addr
         /\ \A k \in 0..2 : WordAt(job.base + 34 + 2 * k) = extvec[k] /\ extvec[k] \in 0..db.addr
         /\ HeaderWord(12) = FileSize % 65536
<1>1. /\ job \in Jobs /\ job.base \in Nat /\ db.addr \in Nat /\ db.addr <= 65535
      /\ Len(db.out) \in Nat /\ db.addr = job.base + Len(db.out)
      /\ WordsKnown(db, offsets, 0..11) /\ \A k \in 0..2 : VectorStands(db, k, extvec[k])
  BY Done
<1>2. /\ \A k \in 0..11 : offsets[k] \in 0..db.addr
      /\ \A k \in 0..2 : extvec[k] \in 0..db.addr
  <2>1. WordsKnown(db, offsets, 0..11) /\ \A k \in 0..2 : VectorStands(db, k, extvec[k])
    BY <1>1, SMT
  <2>2. \A k \in 0..11 : offsets[k] \in 0..db.addr
    BY <2>1, Zenon DEF WordsKnown
  <2>3. \A k \in 0..2 : extvec[k] \in 0..db.addr
    BY <2>1, Zenon DEF VectorStands
  <2>4. QED
    BY <2>2, <2>3
<1>3. ASSUME NEW k \in 0..11
      PROVE  HeaderWord(k) = offsets[k] /\ offsets[k] \in 0..db.addr
  <2>1. offsets[k] \in 0..db.addr
    BY <1>2
  <2>2. PICK j \in 1..16 : j = k + 1 /\ j <= 12 /\ j - 1 = k
    OBVIOUS
  <2>3. HeaderWords[j] = offsets[k]
    BY <2>2 DEF HeaderWords
  <2>4. PICK x \in Nat : x = offsets[k] /\ x % 65536 = x
    BY <1>1, <2>1
  <2>5. WordAt(job.base + (6 + 2 * j)) = x % 65536
    BY <2>3, <2>4, PatchedWord
  <2>6. job.base + (6 + 2 * j) = job.base + 8 + 2 * k
    BY <1>1, <2>2
  <2>7. QED
    BY <2>1, <2>4, <2>5, <2>6 DEF HeaderWord
<1>4. ASSUME NEW k \in 0..2
      PROVE  WordAt(job.base + 34 + 2 * k) = extvec[k] /\ extvec[k] \in 0..db.addr
  <2>1. extvec[k] \in 0..db.addr
    BY <1>2
  <2>2. PICK j \in 1..16 : j = k + 14 /\ ~(j <= 12) /\ j # 13 /\ j - 14 = k
    OBVIOUS
  <2>3. HeaderWords[j] = extvec[k]
    BY <2>2 DEF HeaderWords
  <2>4. PICK x \in Nat : x = extvec[k] /\ x % 65536 = x
    BY <1>1, <2>1
  <2>5. WordAt(job.base + (6 + 2 * j)) = x % 65536
    BY <2>3, <2>4, PatchedWord
  <2>6. job.base + (6 + 2 * j) = job.base + 34 + 2 * k
    BY <1>1, <2>2
  <2>7. QED
    BY <2>1, <2>4, <2>5, <2>6
<1>5. HeaderWord(12) = FileSize % 65536
  <2>1. job.xmessageSize \in Nat
    BY <1>1, OptionsAssumption
  <2>2. FileSize \in Nat
    BY <1>1, <2>1 DEF FileSize
  <2>3. HeaderWords[13] = FileSize
    BY DEF HeaderWords
  <2>4. WordAt(job.base + (6 + 2 * 13)) = FileSize % 65536
    BY <2>2, <2>3, PatchedWord
  <2>5. job.base + (6 + 2 * 13) = job.base + 8 + 2 * 12
    BY <1>1
  <2>6. QED
    BY <2>4, <2>5 DEF HeaderWord
<1>6. QED
  BY <1>3, <1>4, <1>5

-----------------------------------------------------------------------------
(* What fits a byte is not cut.                                            *)
LEMMA SmallByte ==
  ASSUME NEW n \in Nat, n <= 255
  PROVE  Byte(n) = n
BY DEF Byte

(* The first eight bytes of the header.                                    *)
LEMMA CountsAreRead ==
  ASSUME FileInv, status = "done"
  PROVE  CountsRead
<1>1. /\ job \in Jobs /\ job.base \in Nat /\ ListsInv /\ LoadedInv
      /\ Len(objects) = Len(loaded.OTX)
      /\ IsImage(db) /\ Len(db.out) \in Nat /\ Len(db.out) >= 60 /\ PatchStands(db)
  BY Done
<1>2. /\ {job.v3, job.text2} \subseteq BOOLEAN /\ job.machine \in 0..15 /\ job.lang \in 0..1
  BY <1>1, OptionsAssumption
<1>3. /\ db.out[1] = Version + (IF job.text2 THEN 128 ELSE 0)
      /\ db.out[2] = 16 * job.machine + job.lang
      /\ \A k \in 1..5 : db.out[3 + k] = Byte(Counts[k])
  BY <1>1, Zenon DEF PatchStands, HeaderStands
<1>4. ASSUME NEW i \in 1..8
      PROVE  At(job.base + (i - 1)) = db.out[i]
  <2>1. i \in 1..Len(db.out)
    BY <1>1
  <2>2. QED
    BY <1>1, <2>1, ByteRead
<1>5. At(job.base) = Version + (IF job.text2 THEN 128 ELSE 0)
  <2>1. 1 \in 1..8 /\ job.base + (1 - 1) = job.base
    BY <1>1
  <2>2. At(job.base + (1 - 1)) = db.out[1]
    BY <1>4, <2>1
  <2>3. QED
    BY <1>3, <2>1, <2>2
<1>6. At(job.base + 1) = 16 * job.machine + job.lang
  <2>1. 2 \in 1..8 /\ job.base + (2 - 1) = job.base + 1
    BY <1>1
  <2>2. At(job.base + (2 - 1)) = db.out[2]
    BY <1>4, <2>1
  <2>3. QED
    BY <1>3, <2>1, <2>2
<1>7. ASSUME NEW k \in 1..5
      PROVE  At(job.base + 2 + k) = Byte(Counts[k])
  <2>1. PICK i \in 1..8 : i = 3 + k
    OBVIOUS
  <2>2. job.base + (i - 1) = job.base + 2 + k
    BY <1>1, <2>1
  <2>3. QED
    BY <1>3, <1>4, <2>1, <2>2
<1>8. /\ At(job.base) % 128 = (IF job.v3 THEN 3 ELSE 2)
      /\ At(job.base) >= 128 <=> job.text2
  BY <1>2, <1>5 DEF Version
<1>9. At(job.base + 1) \div 16 = job.machine /\ At(job.base + 1) % 16 = job.lang
  BY <1>2, <1>6
<1>10. ASSUME NEW t \in Tables
       PROVE  Byte(Len(loaded[t])) = Len(loaded[t])
  <2>1. /\ loaded \in [Tables -> Seq(Seq(Shown))] /\ Len(loaded[t]) = Len(texts[t])
        /\ Len(texts[t]) <= MaxTexts
    BY <1>1 DEF LoadedInv, ListsInv
  <2>2. loaded[t] \in Seq(Seq(Shown))
    BY <2>1
  <2>3. Len(loaded[t]) \in Nat
    BY <2>2, LenProperties
  <2>4. Len(loaded[t]) <= 255
    BY <2>1, <2>3, TextsAssumption
  <2>5. QED
    BY <2>3, <2>4, SmallByte
<1>11. [k \in 1..5 |-> At(job.base + 2 + k)] =
         <<Len(loaded.OTX), Len(loaded.LTX), Len(loaded.MTX), Len(loaded.STX),
           Byte(job.processes)>>
  <2>1. PICK o, l, m, s : /\ o = Len(loaded.OTX) /\ l = Len(loaded.LTX)
                          /\ m = Len(loaded.MTX) /\ s = Len(loaded.STX)
    OBVIOUS
  <2>2. Byte(o) = o /\ Byte(l) = l /\ Byte(m) = m /\ Byte(s) = s
    BY <1>10, <2>1 DEF Tables
  <2>3. Counts = <<o, l, m, s, job.processes>>
    BY <1>1, <2>1 DEF Counts
  <2>4. PICK p : p = job.processes
    OBVIOUS
  <2>5. Counts = <<o, l, m, s, p>>
    BY <2>3, <2>4
  <2>6. /\ Counts[1] = o /\ Counts[2] = l /\ Counts[3] = m /\ Counts[4] = s /\ Counts[5] = p
    BY <2>5
  <2>7. PICK f : f = [k \in 1..5 |-> At(job.base + 2 + k)]
    OBVIOUS
  <2>8. \A k \in 1..5 : f[k] = Byte(Counts[k])
    BY <1>7, <2>7
  <2>9. f[1] = o /\ f[2] = l /\ f[3] = m /\ f[4] = s /\ f[5] = Byte(p)
    <3>1. 1 \in 1..5 /\ 2 \in 1..5 /\ 3 \in 1..5 /\ 4 \in 1..5 /\ 5 \in 1..5
      OBVIOUS
    <3>2. QED
      BY <2>2, <2>6, <2>8, <3>1
  <2>10. PICK q : q = Byte(p)
    OBVIOUS
  <2>11. f = <<o, l, m, s, q>>
    <3>1. f = [k \in 1..5 |-> f[k]]
      BY <2>7
    <3>2. PICK g : g = <<o, l, m, s, q>>
      OBVIOUS
    <3>3. g = [k \in 1..5 |-> g[k]] /\ \A k \in 1..5 : g[k] = f[k]
      BY <2>9, <2>10, <3>2
    <3>4. QED
      BY <3>1, <3>2, <3>3
  <2>12. QED
    BY <2>1, <2>4, <2>7, <2>10, <2>11
<1>12. QED
  BY <1>8, <1>9, <1>11 DEF CountsRead

-----------------------------------------------------------------------------
(* Texts.                                                                  *)

(* Reading to a mark gives what stands before it.                          *)
LEMMA ReadToMark ==
  ASSUME NEW s, IsSequence(s), NEW n \in Nat, n + 1 <= Len(s), NEW stop,
         s[n + 1] = stop, \A k \in 1..n : s[k] # stop
  PROVE  UpTo(s, stop) = [k \in 1..n |-> s[k]]
<1>1. s \in Seq(ToSet(s)) /\ Len(s) \in Nat
  BY LenProperties DEF IsSequence
<1>2. PICK I : I = {i \in 1..Len(s) : s[i] = stop}
  OBVIOUS
<1>3. n + 1 \in I /\ \A i \in I : n + 1 <= i
  <2>1. n + 1 \in I
    BY <1>1, <1>2
  <2>2. ASSUME NEW i \in I
        PROVE  n + 1 <= i
    <3>1. i \in 1..Len(s) /\ s[i] = stop
      BY <1>2
    <3>2. ~(i \in 1..n)
      BY <3>1
    <3>3. QED
      BY <1>1, <3>1, <3>2
  <2>3. QED
    BY <2>1, <2>2
<1>4. Min(I) = n + 1
  <2>1. PICK m : m = Min(I)
    OBVIOUS
  <2>2. m \in I /\ \A i \in I : m <= i
    BY <1>3, <2>1 DEF Min
  <2>3. m \in Nat
    BY <1>1, <1>2, <2>2
  <2>4. m <= n + 1 /\ n + 1 <= m
    BY <1>3, <2>2
  <2>5. QED
    BY <2>1, <2>3, <2>4
<1>5. SelectInSeq(s, LAMBDA b : b = stop) = n + 1
  <2>1. I # {}
    BY <1>3
  <2>2. QED
    BY <1>2, <1>4, <2>1 DEF SelectInSeq
<1>6. UpTo(s, stop) = SubSeq(s, 1, n)
  <2>1. (n + 1) - 1 = n
    OBVIOUS
  <2>2. QED
    BY <1>5, <2>1 DEF UpTo
<1>7. \A i \in 1..n : s[i] \in ToSet(s)
  BY <1>1 DEF ToSet
<1>8. PICK u : u = SubSeq(s, 1, n)
  OBVIOUS
<1>9. u \in Seq(ToSet(s)) /\ Len(u) = n /\ \A i \in 1..n : u[i] = s[i]
  <2>1. /\ SubSeq(s, 1, n) \in Seq(ToSet(s))
        /\ Len(SubSeq(s, 1, n)) = IF 1 <= n THEN n - 1 + 1 ELSE 0
        /\ \A i \in 1 .. n - 1 + 1 : SubSeq(s, 1, n)[i] = s[1 + i - 1]
    BY <1>7, SubSeqProperties
  <2>2. QED
    BY <1>8, <2>1
<1>10. u = [k \in 1..n |-> u[k]]
  BY <1>9, LenProperties
<1>11. QED
  BY <1>6, <1>8, <1>9, <1>10

(* What stands behind a place in a sequence.                               *)
LEMMA Behind ==
  ASSUME NEW s, IsSequence(s), NEW from \in Nat, from <= Len(s)
  PROVE  /\ IsSequence(SubSeq(s, from + 1, Len(s)))
         /\ Len(SubSeq(s, from + 1, Len(s))) = Len(s) - from
         /\ \A k \in 1 .. Len(s) - from : SubSeq(s, from + 1, Len(s))[k] = s[from + k]
<1>1. s \in Seq(ToSet(s)) /\ Len(s) \in Nat /\ DOMAIN s = 1..Len(s)
  BY LenProperties DEF IsSequence
<1>2. \A i \in from + 1 .. Len(s) : s[i] \in ToSet(s)
  BY <1>1 DEF ToSet
<1>3. PICK u : u = SubSeq(s, from + 1, Len(s))
  OBVIOUS
<1>4. /\ u \in Seq(ToSet(s))
      /\ Len(u) = IF from + 1 <= Len(s) THEN Len(s) - (from + 1) + 1 ELSE 0
      /\ \A i \in 1 .. Len(s) - (from + 1) + 1 : u[i] = s[(from + 1) + i - 1]
  BY <1>1, <1>2, <1>3, SubSeqProperties
<1>5. Len(u) = Len(s) - from
  <2>1. Len(u) = IF from + 1 <= Len(s) THEN Len(s) - (from + 1) + 1 ELSE 0
    BY <1>4
  <2>2. PICK l, n : l = Len(u) /\ n = Len(s)
    OBVIOUS
  <2>3. l = (IF from + 1 <= n THEN n - (from + 1) + 1 ELSE 0) /\ n \in Nat /\ from <= n
    BY <1>1, <2>1, <2>2
  <2>4. l = n - from
    BY <2>3
  <2>5. QED
    BY <2>2, <2>4
<1>6. \A k \in 1 .. Len(s) - from : u[k] = s[from + k]
  <2>1. TAKE k \in 1 .. Len(s) - from
  <2>2. k \in 1 .. Len(s) - (from + 1) + 1 /\ (from + 1) + k - 1 = from + k
    BY <1>1
  <2>3. QED
    BY <1>4, <2>2
<1>7. IsSequence(u)
  BY <1>4, OwnElements
<1>8. QED
  BY <1>3, <1>5, <1>6, <1>7

-----------------------------------------------------------------------------
(* Bytes that stand at a place in a sequence begin what is behind it.      *)
Lies(s, from, item) ==
  /\ from \in 0 .. Len(s) - Len(item)
  /\ \A k \in 1..Len(item) : s[from + k] = item[k]

Begins(u, item) ==
  IsSequence(u) /\ Len(item) <= Len(u) /\ \A k \in 1..Len(item) : u[k] = item[k]

(* That is where they begin what is behind.                                *)
LEMMA PartBehind ==
  ASSUME NEW s, IsSequence(s), Len(s) \in Nat, NEW item, Len(item) \in Nat \ {0},
         NEW from, Lies(s, from, item),
         NEW u, u = SubSeq(s, from + 1, Len(s))
  PROVE  Begins(u, item)
<1>1. PICK m \in Nat, n \in Nat : m = Len(s) /\ Len(item) = n + 1
  <2>1. PICK l \in Nat : l = Len(item) /\ l # 0
    OBVIOUS
  <2>2. l - 1 \in Nat /\ l = (l - 1) + 1
    BY <2>1
  <2>3. QED
    BY <2>1, <2>2
<1>2. from \in Nat /\ from + (n + 1) <= m /\ \A k \in 1 .. n + 1 : s[from + k] = item[k]
  BY <1>1 DEF Lies
<1>3. from <= Len(s)
  BY <1>1, <1>2
<1>4. /\ IsSequence(u) /\ Len(u) = Len(s) - from
      /\ \A k \in 1 .. Len(s) - from : u[k] = s[from + k]
  BY <1>2, <1>3, Behind
<1>5. Len(u) = m - from /\ \A k \in 1 .. m - from : u[k] = s[from + k]
  BY <1>1, <1>4
<1>6. \A k \in 1 .. n + 1 : k \in 1 .. m - from
  BY <1>2
<1>7. \A k \in 1 .. n + 1 : u[k] = item[k]
  BY <1>2, <1>5, <1>6
<1>8. n + 1 <= Len(u)
  BY <1>2, <1>5
<1>9. QED
  BY <1>1, <1>4, <1>7, <1>8 DEF Begins

(* A text as it is kept: s is text with a mark behind it.                  *)
Marked(s, text, stop) ==
  /\ IsSequence(s) /\ Len(text) \in Nat /\ Len(s) = Len(text) + 1
  /\ \A k \in 1..Len(text) : s[k] # stop
  /\ s[Len(text) + 1] = stop

(* Reading to the mark gives the text, as it is kept.                      *)
LEMMA MarkedAhead ==
  ASSUME NEW item, NEW text, NEW stop, Marked(item, text, stop),
         NEW s, Begins(s, item)
  PROVE  UpTo(s, stop) = [k \in 1..Len(text) |-> item[k]]
<1>1. PICK n \in Nat : n = Len(text)
  BY DEF Marked
<1>2. /\ Len(item) = n + 1 /\ item[n + 1] = stop /\ \A k \in 1..n : item[k] # stop
  BY <1>1 DEF Marked
<1>3. IsSequence(s) /\ Len(item) <= Len(s) /\ \A k \in 1..Len(item) : s[k] = item[k]
  BY DEF Begins
<1>4. s[n + 1] = stop /\ \A k \in 1..n : s[k] = item[k] /\ s[k] # stop
  BY <1>1, <1>2, <1>3
<1>5. UpTo(s, stop) = [k \in 1..n |-> s[k]]
  <2>1. n + 1 <= Len(s)
    BY <1>2, <1>3
  <2>2. \A k \in 1..n : s[k] # stop
    BY <1>4
  <2>3. s[n + 1] = stop
    BY <1>4
  <2>4. QED
    BY <1>3, <2>1, <2>2, <2>3, ReadToMark
<1>6. QED
  BY <1>1, <1>4, <1>5

(* The items of a table are its texts, marked.                             *)
LEMMA ItemsMarked ==
  ASSUME LoadedInv, NEW table \in Tables, NEW i \in DOMAIN loaded[table],
         NEW text, text = loaded[table][i], NEW item, item = Items(table)[i]
  PROVE  /\ text \in Seq(Shown) /\ text = [k \in 1..Len(text) |-> text[k]]
         /\ job.text2 => /\ Marked(item, text, EndOfStream)
                         /\ \A k \in 1..Len(text) : item[k] = text[k]
         /\ ~job.text2 => /\ Marked(item, text, EndOfText)
                          /\ \A k \in 1..Len(text) : item[k] = Invert(text[k])
<1>1. text \in Seq(Shown)
  <2>1. loaded[table] \in Seq(Seq(Shown))
    BY DEF LoadedInv
  <2>2. DOMAIN loaded[table] = 1..Len(loaded[table])
    BY <2>1, LenProperties
  <2>3. QED
    BY <2>1, <2>2, ElementOfSeq
<1>2. PICK n \in Nat : n = Len(text) /\ DOMAIN text = 1..n
  BY <1>1, LenProperties
<1>3. text = [k \in 1..n |-> text[k]] /\ \A k \in 1..n : text[k] \in Shown
  BY <1>1, <1>2, ElementOfSeq
<1>4. item = IF job.text2 THEN Append(text, EndOfStream)
             ELSE Append([k \in DOMAIN text |-> Invert(text[k])], EndOfText)
  BY DEF Items
<1>5. CASE job.text2
  <2>1. item = Append(text, 256)
    BY <1>4, <1>5 DEF EndOfStream
  <2>2. IsSequence(text)
    BY <1>1, OwnElements
  <2>3. /\ IsSequence(item) /\ Len(item) = n + 1
        /\ \A k \in 1..n : item[k] = text[k]
        /\ item[n + 1] = 256
    BY <1>2, <2>1, <2>2, Noted
  <2>4. \A k \in 1..n : item[k] # 256
    <3>1. TAKE k \in 1..n
    <3>2. item[k] = text[k] /\ text[k] \in 0..127
      BY <1>3, <2>3 DEF Shown
    <3>3. QED
      BY <3>2
  <2>5. QED
    <3>1. Marked(item, text, EndOfStream)
      BY <1>2, <2>3, <2>4 DEF Marked, EndOfStream
    <3>2. \A k \in 1..Len(text) : item[k] = text[k]
      BY <1>2, <2>3
    <3>3. QED
      BY <1>1, <1>2, <1>3, <1>5, <3>1, <3>2
<1>6. CASE ~job.text2
  <2>1. PICK inverted : inverted = [k \in 1..n |-> Invert(text[k])]
    OBVIOUS
  <2>2. item = Append(inverted, 245)
    BY <1>2, <1>4, <1>6, <2>1 DEF EndOfText
  <2>3. IsSequence(inverted) /\ Len(inverted) = n
    <3>1. inverted = [k \in 1..n |-> inverted[k]]
      BY <2>1
    <3>2. QED
      BY <3>1, ByPlaces
  <2>4. /\ IsSequence(item) /\ Len(item) = n + 1
        /\ \A k \in 1..n : item[k] = inverted[k]
        /\ item[n + 1] = 245
    BY <2>2, <2>3, Noted
  <2>5. \A k \in 1..n : item[k] = Invert(text[k]) /\ item[k] # 245
    <3>1. TAKE k \in 1..n
    <3>2. item[k] = Invert(text[k])
      BY <2>1, <2>4
    <3>3. text[k] \in 0..127 /\ text[k] # 10
      BY <1>3 DEF Shown
    <3>4. Invert(text[k]) # 245
      BY <3>3 DEF Invert
    <3>5. QED
      BY <3>2, <3>4
  <2>6. QED
    <3>1. Marked(item, text, EndOfText)
      BY <1>2, <2>4, <2>5 DEF Marked, EndOfText
    <3>2. \A k \in 1..Len(text) : item[k] = Invert(text[k])
      BY <1>2, <2>5
    <3>3. QED
      BY <1>1, <1>2, <1>3, <1>6, <3>1, <3>2
<1>7. QED
  BY <1>5, <1>6

(* A text in memory, at an address that leads to it.                       *)
LEMMA MemoryTextRead ==
  ASSUME IsImage(db), job.base \in Nat, ~job.text2, NEW a \in job.base..db.addr,
         NEW text \in Seq(Shown), NEW item, Stands(db, a, item), Marked(item, text, EndOfText),
         \A k \in 1..Len(text) : item[k] = Invert(text[k])
  PROVE  TextAt(a) = text
<1>1. Len(db.out) \in Nat /\ IsSequence(db.out) /\ a \in Nat
  <2>1. Len(db.out) \in Nat /\ db.addr \in Nat
    BY ImageType
  <2>2. QED
    BY <2>1 DEF IsImage
<1>2. PICK n \in Nat : n = Len(text) /\ DOMAIN text = 1..n /\ text = [k \in 1..n |-> text[k]]
  BY LenProperties
<1>3. PICK from : from = a - job.base
  OBVIOUS
<1>4. PICK out : out = db.out
  OBVIOUS
<1>5. /\ from \in 60 .. Len(out) - Len(item) /\ Len(item) = n + 1
      /\ \A k \in 1..Len(item) : out[from + k] = item[k]
  BY <1>2, <1>3, <1>4 DEF Stands, Marked
<1>6. PICK s : s = SubSeq(out, from + 1, Len(out))
  OBVIOUS
<1>7. IsSequence(out) /\ Len(out) \in Nat
  BY <1>1, <1>4
<1>8. Begins(s, item)
  <2>1. from \in 0 .. Len(out) - Len(item)
    BY <1>5, <1>7
  <2>2. Lies(out, from, item)
    BY <1>5, <2>1 DEF Lies
  <2>3. Len(item) \in Nat \ {0}
    BY <1>2, <1>5
  <2>4. QED
    BY <1>6, <1>7, <2>2, <2>3, PartBehind
<1>9. PICK stored : stored = UpTo(s, EndOfText)
  OBVIOUS
<1>10. stored = [k \in 1..n |-> item[k]]
  BY <1>2, <1>8, <1>9, MarkedAhead
<1>11. DOMAIN stored = 1..n /\ \A k \in 1..n : stored[k] = Invert(text[k])
  BY <1>2, <1>10
<1>12. From(a) = s
  <2>1. ~(a < job.base) /\ a - job.base + 1 = from + 1
    BY <1>1, <1>3
  <2>2. QED
    BY <1>4, <1>6, <2>1 DEF From
<1>13. TextAt(a) = [i \in DOMAIN stored |-> Invert(stored[i])]
  BY <1>9, <1>12 DEF TextAt
<1>14. \A k \in 1..n : Invert(stored[k]) = text[k]
  <2>1. TAKE k \in 1..n
  <2>2. PICK x \in Int : x = text[k]
    <3>1. text[k] \in Shown
      BY <1>2, ElementOfSeq
    <3>2. \A y \in Shown : y \in Int
      BY DEF Shown
    <3>3. QED
      BY <3>1, <3>2
  <2>3. Invert(Invert(x)) = x
    BY DEF Invert
  <2>4. QED
    BY <1>11, <2>2, <2>3
<1>15. QED
  BY <1>2, <1>11, <1>13, <1>14

(* A text in format 2's region.                                            *)
LEMMA RegionTextRead ==
  ASSUME IsImage(db), job.base \in Nat, job.text2, NEW at,
         NEW text \in Seq(Shown), NEW item, InStream(db, at, item),
         Marked(item, text, EndOfStream), \A k \in 1..Len(text) : item[k] = text[k]
  PROVE  TextAt(at) = text
<1>1. Len(db.region) \in Nat /\ IsSequence(db.region)
  <2>1. Len(db.region) \in Nat
    BY ImageType
  <2>2. QED
    BY <2>1 DEF IsImage
<1>2. PICK n \in Nat : n = Len(text) /\ text = [k \in 1..n |-> text[k]]
  BY LenProperties
<1>3. PICK region : region = db.region
  OBVIOUS
<1>4. /\ at \in 0 .. Len(region) - Len(item) /\ Len(item) = n + 1
      /\ \A k \in 1..Len(item) : region[at + k] = item[k]
  BY <1>2, <1>3 DEF InStream, Marked
<1>5. PICK s : s = SubSeq(region, at + 1, Len(region))
  OBVIOUS
<1>6. IsSequence(region) /\ Len(region) \in Nat
  BY <1>1, <1>3
<1>7. Begins(s, item)
  <2>1. Lies(region, at, item)
    BY <1>4 DEF Lies
  <2>2. Len(item) \in Nat \ {0}
    BY <1>2, <1>4
  <2>3. QED
    BY <1>5, <1>6, <2>1, <2>2, PartBehind
<1>8. UpTo(s, EndOfStream) = [k \in 1..n |-> item[k]]
  BY <1>2, <1>7, MarkedAhead
<1>9. TextAt(at) = UpTo(s, EndOfStream)
  BY <1>3, <1>5 DEF TextAt
<1>10. QED
  BY <1>2, <1>8, <1>9

(* A table of texts, from its header word.                                 *)
LEMMA TableRead ==
  ASSUME FileInv, status = "done", NEW table \in Tables, NEW word \in 0..11,
         TextsStand(db, table, offsets[word])
  PROVE  [i \in DOMAIN loaded[table] |-> TextAt(WordAt(HeaderWord(word) + 2 * (i - 1)))]
           = loaded[table]
<1>1. /\ job \in Jobs /\ job.base \in Nat /\ LoadedInv /\ IsImage(db)
      /\ db.addr \in Nat /\ db.addr <= 65535 /\ PatchStands(db)
  BY Done
<1>2. HeaderWord(word) = offsets[word] /\ offsets[word] \in 0..db.addr
  BY HeaderWordsRead
<1>3. PICK n \in Nat : DOMAIN loaded[table] = 1..n /\ loaded[table] = [i \in 1..n |-> loaded[table][i]]
  <2>1. loaded[table] \in Seq(Seq(Shown))
    BY <1>1 DEF LoadedInv
  <2>2. QED
    BY <2>1, LenProperties
<1>4. ASSUME NEW i \in 1..n
      PROVE  TextAt(WordAt(offsets[word] + 2 * (i - 1))) = loaded[table][i]
  <2>1. PICK a \in Nat : a = offsets[word] + 2 * (i - 1)
    BY <1>1, <1>2
  <2>2. PICK text, item : text = loaded[table][i] /\ item = Items(table)[i]
    OBVIOUS
  <2>3. i \in DOMAIN loaded[table]
    BY <1>3
  <2>4. /\ text \in Seq(Shown)
        /\ job.text2 => /\ Marked(item, text, EndOfStream)
                        /\ \A k \in 1..Len(text) : item[k] = text[k]
        /\ ~job.text2 => /\ Marked(item, text, EndOfText)
                         /\ \A k \in 1..Len(text) : item[k] = Invert(text[k])
    BY <1>1, <2>2, <2>3, ItemsMarked
  <2>5. IF job.text2 THEN LeadsInStream(db, a, item) ELSE Leads(db, a, item)
    BY <2>1, <2>2, <2>3 DEF TextsStand
  <2>6. CASE job.text2
    <3>1. PICK at \in 0..Len(db.region) : Stands(db, a, Word(at)) /\ InStream(db, at, item)
      BY <2>5, <2>6 DEF LeadsInStream
    <3>2. at \in Nat /\ at <= 65535
      <4>1. Len(db.region) \in Nat /\ Len(db.region) <= 65535
        <5>1. WithinLimits(db)
          <6>1. PatchStands(db)
            BY <1>1
          <6>2. QED
            BY <6>1, Zenon DEF PatchStands
        <5>2. QED
          BY <1>1, <2>6, <5>1, ImageType DEF WithinLimits
      <4>2. QED
        BY <3>1, <4>1
    <3>3. WordAt(a) = at
      BY <1>1, <3>1, <3>2, StandingWordRead
    <3>4. TextAt(at) = text
      BY <1>1, <2>4, <2>6, <3>1, RegionTextRead
    <3>5. QED
      BY <2>1, <2>2, <3>3, <3>4
  <2>7. CASE ~job.text2
    <3>1. Leads(db, a, item)
      BY <2>5, <2>7
    <3>2. WordAt(a) \in job.base..db.addr /\ Stands(db, WordAt(a), item)
      BY <1>1, <3>1, LeadsRead
    <3>3. TextAt(WordAt(a)) = text
      BY <1>1, <2>4, <2>7, <3>2, MemoryTextRead
    <3>4. QED
      BY <2>1, <2>2, <3>3
  <2>8. QED
    BY <2>6, <2>7
<1>5. QED
  BY <1>2, <1>3, <1>4

(* All four.                                                               *)
LEMMA TextsAreRead ==
  ASSUME FileInv, status = "done"
  PROVE  TextsRead
<1>1. WordsKnown(db, offsets, 0..11)
  BY Done
<1>2. \A k \in 0..11 : TableStands(db, k, offsets[k])
  BY <1>1, Zenon DEF WordsKnown
<1>3. /\ TextsStand(db, "OTX", offsets[2]) /\ TextsStand(db, "LTX", offsets[3])
      /\ TextsStand(db, "MTX", offsets[4]) /\ TextsStand(db, "STX", offsets[5])
  <2>1. /\ TableStands(db, 2, offsets[2]) /\ TableStands(db, 3, offsets[3])
        /\ TableStands(db, 4, offsets[4]) /\ TableStands(db, 5, offsets[5])
    BY <1>2
  <2>2. QED
    BY <2>1 DEF TableStands
<1>4. {"OTX", "LTX", "MTX", "STX"} \subseteq Tables /\ {2, 3, 4, 5} \subseteq 0..11
  BY DEF Tables
<1>5. QED
  BY <1>3, <1>4, TableRead DEF TextsRead

-----------------------------------------------------------------------------
(* Every table, where its header word says.                                *)
LEMMA TablesStandRead ==
  ASSUME FileInv, status = "done"
  PROVE  /\ \A k \in 0..11 : TableStands(db, k, HeaderWord(k)) /\ HeaderWord(k) \in Nat
         /\ \A k \in 0..11 : job.padding => HeaderWord(k) % 2 = 0
<1>1. WordsKnown(db, offsets, 0..11)
  BY Done
<1>2. \A k \in 0..11 : TableStands(db, k, offsets[k]) /\ (job.padding => offsets[k] % 2 = 0)
  BY <1>1, Zenon DEF WordsKnown
<1>3. \A k \in 0..11 : HeaderWord(k) = offsets[k] /\ offsets[k] \in 0..db.addr
  BY HeaderWordsRead
<1>4. db.addr \in Nat
  BY Done
<1>5. \A k \in 0..11 : HeaderWord(k) = offsets[k] /\ HeaderWord(k) \in Nat
  BY <1>3, <1>4
<1>6. QED
  BY <1>2, <1>5

(* The tables without texts, byte by byte.                                 *)
LEMMA TablesAreRead ==
  ASSUME FileInv, status = "done"
  PROVE  TablesRead
<1>1. /\ job.base \in Nat /\ IsImage(db) /\ db.addr <= 65535 /\ ListsInv /\ LoadedInv
  BY Done
<1>2. PICK h : h = [k \in 0..11 |-> HeaderWord(k)]
  OBVIOUS
<1>3. \A k \in 0..11 : h[k] = HeaderWord(k) /\ TableStands(db, k, h[k]) /\ h[k] \in Nat
  BY <1>2, TablesStandRead
<1>4. /\ TableStands(db, 6, h[6]) /\ TableStands(db, 7, h[7]) /\ TableStands(db, 8, h[8])
      /\ TableStands(db, 9, h[9]) /\ TableStands(db, 10, h[10]) /\ TableStands(db, 11, h[11])
      /\ h[6] \in Nat /\ h[7] \in Nat /\ h[8] \in Nat /\ h[9] \in Nat /\ h[10] \in Nat /\ h[11] \in Nat
      /\ h[6] = HeaderWord(6) /\ h[7] = HeaderWord(7) /\ h[8] = HeaderWord(8)
      /\ h[9] = HeaderWord(9) /\ h[10] = HeaderWord(10) /\ h[11] = HeaderWord(11)
  BY <1>3
<1>5. /\ Stands(db, h[8], ObjectPlaces) /\ Stands(db, h[9], ObjectWords)
      /\ Stands(db, h[10], ObjectWeights) /\ Stands(db, h[7], WordRecords)
  BY <1>4 DEF TableStands
<1>6. /\ Found(h[8], ObjectPlaces) /\ Found(h[9], ObjectWords)
      /\ Found(h[10], ObjectWeights) /\ Found(h[7], WordRecords)
  BY <1>1, <1>4, <1>5, StandsRead
<1>7. ASSUME NEW i \in DOMAIN objects
      PROVE  Found(h[11] + 2 * (i - 1), Word(objects[i].flags))
  <2>1. \A j \in DOMAIN objects : Stands(db, h[11] + 2 * (j - 1), Word(objects[j].flags))
    BY <1>4 DEF TableStands
  <2>2. i \in Nat \ {0}
    <3>1. objects \in Seq(ToSet(objects))
      BY <1>1 DEF ListsInv, IsSequence
    <3>2. DOMAIN objects = 1..Len(objects) /\ Len(objects) \in Nat
      BY <3>1, LenProperties
    <3>3. QED
      BY <3>2
  <2>3. PICK a, b : a = h[11] + 2 * (i - 1) /\ b = Word(objects[i].flags)
    OBVIOUS
  <2>4. a \in Nat
    BY <1>4, <2>2, <2>3
  <2>5. Stands(db, a, b)
    BY <2>1, <2>3
  <2>6. Found(a, b)
    BY <1>1, <2>4, <2>5, StandsRead
  <2>7. QED
    BY <2>3, <2>6
<1>8. ASSUME NEW i \in DOMAIN Exits
      PROVE  Found(WordAt(h[6] + 2 * (i - 1)), Exits[i])
  <2>1. \A j \in DOMAIN Exits : Leads(db, h[6] + 2 * (j - 1), Exits[j])
    BY <1>4 DEF TableStands
  <2>2. i \in Nat \ {0}
    <3>1. DOMAIN Exits = DOMAIN loaded.LTX
      BY DEF Exits
    <3>2. loaded \in [Tables -> Seq(Seq(Shown))]
      BY <1>1 DEF LoadedInv
    <3>3. loaded.LTX \in Seq(Seq(Shown))
      BY <3>2 DEF Tables
    <3>4. DOMAIN loaded.LTX = 1..Len(loaded.LTX) /\ Len(loaded.LTX) \in Nat
      BY <3>3, LenProperties
    <3>5. QED
      BY <3>1, <3>4
  <2>3. PICK a, b : a = h[6] + 2 * (i - 1) /\ b = Exits[i]
    OBVIOUS
  <2>4. a \in Nat
    BY <1>4, <2>2, <2>3
  <2>5. Leads(db, a, b)
    BY <2>1, <2>3
  <2>6. Found(WordAt(a), b)
    BY <1>1, <2>4, <2>5, LeadsRead
  <2>7. QED
    BY <2>3, <2>6
<1>9. /\ \A i \in DOMAIN objects : Found(HeaderWord(11) + 2 * (i - 1), Word(objects[i].flags))
      /\ \A i \in DOMAIN Exits : Found(WordAt(HeaderWord(6) + 2 * (i - 1)), Exits[i])
  BY <1>4, <1>7, <1>8
<1>10. QED
  BY <1>4, <1>6, <1>9 DEF TablesRead

(* The processes, in their order.                                          *)
LEMMA ProcessesAreRead ==
  ASSUME FileInv, status = "done"
  PROVE  ProcessesRead
<1>1. PICK f : f = [i \in 1..job.processes |-> WordAt(HeaderWord(1) + 2 * (i - 1))]
  OBVIOUS
<1>2. /\ job \in Jobs /\ job.base \in Nat /\ IsImage(db) /\ db.addr <= 65535 /\ db.addr \in Nat
  BY Done
<1>3. PICK h \in Nat : h = HeaderWord(1) /\ TableStands(db, 1, h)
  <2>1. 1 \in 0..11
    OBVIOUS
  <2>2. TableStands(db, 1, HeaderWord(1)) /\ HeaderWord(1) \in Nat
    BY <2>1, TablesStandRead, Zenon
  <2>3. QED
    BY <2>2
<1>4. PICK n \in Nat : n = job.processes
  BY <1>2, OptionsAssumption
<1>5. ProcessesStand(db, h)
  BY <1>3 DEF TableStands
<1>6. DOMAIN f = 1..n /\ \A i \in 1..n : f[i] = WordAt(h + 2 * (i - 1))
  BY <1>1, <1>3, <1>4
<1>7. ASSUME NEW i \in 1..n
      PROVE  At(f[i]) = 0
  <2>1. PICK a \in Nat : a = h + 2 * (i - 1)
    OBVIOUS
  <2>2. PICK b : b = <<0>>
    OBVIOUS
  <2>3. Leads(db, a, b)
    BY <1>4, <1>5, <2>1, <2>2 DEF ProcessesStand
  <2>4. WordAt(a) \in job.base..db.addr /\ Found(WordAt(a), b)
    BY <1>2, <2>3, LeadsRead
  <2>5. PICK w \in Nat : w = WordAt(a)
    BY <1>2, <2>4
  <2>6. 1 \in DOMAIN b /\ b[1] = 0 /\ w + 1 - 1 = w
    BY <2>2
  <2>7. At(w + 1 - 1) = b[1]
    BY <2>4, <2>5, <2>6 DEF Found
  <2>8. QED
    BY <1>6, <2>1, <2>5, <2>6, <2>7
<1>8. ASSUME NEW i \in 1..n, i > 1
      PROVE  f[i] > f[i - 1]
  <2>1. PICK j \in 1..n : j = i - 1 /\ i - 2 = j - 1 /\ i \in 2..n
    BY <1>8
  <2>2. PICK a \in Nat, c \in Nat : a = h + 2 * (i - 1) /\ c = h + 2 * (j - 1)
    OBVIOUS
  <2>3. c = h + 2 * (i - 2)
    BY <2>1, <2>2
  <2>4. \A x \in 2..job.processes :
          \E to \in job.base..db.addr : \E before \in job.base .. to - 1 :
            /\ Stands(db, h + 2 * (x - 2), Word(before))
            /\ Stands(db, h + 2 * (x - 1), Word(to))
    BY <1>5, Zenon DEF ProcessesStand
  <2>5. PICK to \in job.base..db.addr : \E before \in job.base .. to - 1 :
          /\ Stands(db, c, Word(before)) /\ Stands(db, a, Word(to))
    BY <1>4, <2>1, <2>2, <2>3, <2>4
  <2>6. PICK before \in job.base .. to - 1 :
          /\ Stands(db, c, Word(before)) /\ Stands(db, a, Word(to))
    BY <2>5
  <2>7. to \in Nat /\ to <= 65535 /\ before \in Nat /\ before <= 65535 /\ to > before
    BY <1>2, <2>5, <2>6
  <2>8. WordAt(a) = to /\ WordAt(c) = before
    BY <1>2, <2>6, <2>7, StandingWordRead
  <2>9. f[i] = to /\ f[j] = before
    BY <1>6, <2>2, <2>8
  <2>10. QED
    BY <2>1, <2>7, <2>9
<1>9. (\A i \in DOMAIN f : At(f[i]) = 0) /\ (\A i \in DOMAIN f : i > 1 => f[i] > f[i - 1])
  BY <1>6, <1>7, <1>8
<1>10. QED
  BY <1>1, <1>9 DEF ProcessesRead

(* The tokens.                                                             *)
LEMMA TokensAreRead ==
  ASSUME FileInv, status = "done"
  PROVE  TokensRead
<1>1. job.base \in Nat /\ IsImage(db)
  BY Done
<1>2. PICK h \in Nat : h = HeaderWord(0) /\ TableStands(db, 0, h)
  BY TablesStandRead
<1>3. IF job.hasTokens /\ ~job.text2 THEN Stands(db, h, TokenBytes) ELSE h = 0
  BY <1>2 DEF TableStands
<1>4. CASE job.hasTokens /\ ~job.text2
  <2>1. Found(h, TokenBytes)
    BY <1>1, <1>3, <1>4, StandsRead
  <2>2. QED
    BY <1>2, <1>4, <2>1 DEF TokensRead
<1>5. QED
  BY <1>2, <1>3, <1>4 DEF TokensRead

(* The externs, from their vectors.                                        *)
LEMMA ExternsAreRead ==
  ASSUME FileInv, status = "done"
  PROVE  ExternsRead
<1>1. /\ job \in Jobs /\ job.base \in Nat /\ IsImage(db) /\ db.addr \in Nat
      /\ \A k \in 0..2 : VectorStands(db, k, extvec[k])
  BY Done
<1>2. job.externs \in Seq([type : 0..2, bytes : Seq(0..255)])
  BY <1>1, OptionsAssumption
<1>3. \A k \in 0..2 : WordAt(job.base + 34 + 2 * k) = extvec[k] /\ extvec[k] \in Nat
  <2>1. \A k \in 0..2 : WordAt(job.base + 34 + 2 * k) = extvec[k] /\ extvec[k] \in 0..db.addr
    BY HeaderWordsRead
  <2>2. QED
    BY <1>1, <2>1
<1>4. ASSUME NEW i \in DOMAIN job.externs, LastOfType(i)
      PROVE  Found(WordAt(job.base + 34 + 2 * job.externs[i].type), job.externs[i].bytes)
  <2>1. job.externs[i].type \in 0..2
    <3>1. PICK S : S = [type : 0..2, bytes : Seq(0..255)]
      OBVIOUS
    <3>2. PICK e \in Seq(S) : e = job.externs
      BY <1>2, <3>1
    <3>3. i \in 1..Len(e)
      BY <3>2, LenProperties
    <3>4. e[i] \in S
      BY <3>3, ElementOfSeq
    <3>5. QED
      BY <3>1, <3>2, <3>4
  <2>2. PICK k \in 0..2 : k = job.externs[i].type
    BY <2>1
  <2>3. VectorStands(db, k, extvec[k])
    BY <1>1
  <2>4. Stands(db, extvec[k], job.externs[i].bytes)
    BY <1>4, <2>2, <2>3, Zenon DEF VectorStands
  <2>5. PICK a, b : a = extvec[k] /\ b = job.externs[i].bytes /\ a \in Nat
    BY <1>3
  <2>6. Found(a, b)
    BY <1>1, <2>4, <2>5, StandsRead
  <2>7. QED
    BY <1>3, <2>2, <2>5, <2>6
<1>5. ASSUME NEW k \in 0..2, \A e \in ToSet(job.externs) : e.type # k
      PROVE  WordAt(job.base + 34 + 2 * k) = 0
  <2>1. \A i \in DOMAIN job.externs : job.externs[i] \in ToSet(job.externs)
    BY DEF ToSet
  <2>2. \A i \in DOMAIN job.externs : job.externs[i].type # k
    BY <1>5, <2>1
  <2>3. VectorStands(db, k, extvec[k])
    BY <1>1
  <2>4. extvec[k] = 0
    BY <2>2, <2>3, Zenon DEF VectorStands
  <2>5. QED
    BY <1>3, <2>4
<1>6. QED
  BY <1>4, <1>5, Zenon DEF ExternsRead

(* The size, within the limits.                                            *)
LEMMA SizeIsRead ==
  ASSUME FileInv, status = "done"
  PROVE  SizeRead
<1>1. /\ job \in Jobs /\ job.base \in Nat /\ Len(db.out) \in Nat
      /\ db.addr <= 65535 /\ db.addr = job.base + Len(db.out)
  BY Done
<1>2. job.xmessageSize \in Nat /\ {job.text2, job.plus3} \subseteq BOOLEAN
  BY <1>1, OptionsAssumption
<1>3. HeaderWord(12) = FileSize % 65536
  BY HeaderWordsRead
<1>4. CASE job.plus3 /\ job.xmessageSize # 0
  BY <1>3, <1>4 DEF FileSize, SizeRead
<1>5. CASE ~(job.plus3 /\ job.xmessageSize # 0)
  <2>1. PICK n \in Nat : n = (IF job.text2 THEN 0 ELSE job.base) + Len(db.out)
    BY <1>1, <1>2
  <2>2. FileSize = n
    BY <1>1, <1>2, <1>5, <2>1 DEF FileSize
  <2>3. n <= 65535
    BY <1>1, <1>2, <2>1
  <2>4. n % 65536 = n
    BY <2>3
  <2>5. QED
    BY <1>3, <1>5, <2>1, <2>2, <2>4 DEF SizeRead
<1>6. QED
  BY <1>4, <1>5

(* The invariant says that the file of a run that is done reads back.      *)
LEMMA DoneReadsBack ==
  ASSUME FileInv
  PROVE  FileReadsBack
<1>1. SUFFICES ASSUME status = "done"
               PROVE  /\ CountsRead /\ TextsRead /\ TablesRead /\ ProcessesRead
                      /\ TokensRead /\ ExternsRead /\ SizeRead /\ Aligned
  BY DEF FileReadsBack
<1>2. Aligned
  BY <1>1, TablesStandRead DEF Aligned
<1>3. QED
  BY <1>1, <1>2, CountsAreRead, TextsAreRead, TablesAreRead, ProcessesAreRead,
     TokensAreRead, ExternsAreRead, SizeIsRead

(* Whatever the driver wrote stands where a finished file's header says:   *)
(* each text, table, extern and list of addresses is found from it alone.  *)
THEOREM FilesReadBack == Spec => []FileReadsBack
<1>1. FileInv /\ [Next]_vars => FileInv'
  BY FileStep
<1>2. Init => FileInv
  BY FileInit
<1>3. FileInv => FileReadsBack
  BY DoneReadsBack
<1>4. QED
  BY <1>1, <1>2, <1>3, PTL DEF Spec
=============================================================================
