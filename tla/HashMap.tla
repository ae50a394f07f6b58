------------------------------ MODULE HashMap -------------------------------
(***************************************************************************)
(* The hash table under the symbol table (src/src/map.c): the entries in   *)
(* the order they came, and buckets with the number of an entry or 0, open *)
(* addressing with linear probing, twice the buckets at seventy percent.   *)
(* Memory that runs out ends the program and is left out.                  *)
(***************************************************************************)
EXTENDS Integers, Sequences, SequencesExt

CONSTANTS
  InitialBuckets,   \* MAP_INITIAL_BUCKETS, 64 in the code
  Hash(_)           \* hash_key, FNV-1a in the code

ASSUME BucketsAssumption == InitialBuckets \in Nat /\ InitialBuckets > 2

(* A key is a sequence of bytes.                                           *)
Keys == Seq(0..255)

Empty(n) == [b \in 0..n - 1 |-> 0]
NewMap == [entries |-> <<>>, buckets |-> Empty(InitialBuckets)]
Buckets(m) == Cardinality(DOMAIN m.buckets)

(* The first of some buckets that is met from a key's own on, around the   *)
(* end; there is one.                                                      *)
Probe(n, key, stops) ==
  LET Met(d) == (Hash(key) + d) % n
  IN  Met(CHOOSE d \in 0..n - 1 : Met(d) \in stops /\ \A e \in 0..d - 1 : Met(e) \notin stops)

(* The bucket that holds a key, or the free one where it belongs.          *)
Slot(m, key) ==
  Probe(Buckets(m), key,
        {b \in DOMAIN m.buckets : m.buckets[b] = 0 \/ m.entries[m.buckets[b]].key = key})

Has(m, key) == m.buckets[Slot(m, key)] # 0
Get(m, key) == m.entries[m.buckets[Slot(m, key)]].val

Free(buckets) == {b \in DOMAIN buckets : buckets[b] = 0}

(* Entries are placed as if the table had not grown.                       *)
MutantSeated(buckets, n, key, i) ==
  [buckets EXCEPT ![Probe(n \div 2, key, Free(buckets))] = i]

(* Entry i in the first free bucket from its key's own on.                 *)
Seated(buckets, n, key, i) == [buckets EXCEPT ![Probe(n, key, Free(buckets))] = i]

(* The buckets before each of the entries is placed anew, in the order     *)
(* they came, and after the last.                                          *)
BucketsBefore(entries, n) ==
  LET before[i \in 1 .. Len(entries) + 1] ==
        IF i = 1 THEN Empty(n) ELSE Seated(before[i - 1], n, entries[i - 1].key, i - 1)
  IN  before

Rehashed(entries, n) == BucketsBefore(entries, n)[Len(entries) + 1]

Put(m, key, val) ==
  LET entries == Append(m.entries, [key |-> key, val |-> val])
  IN  IF Has(m, key) THEN [m EXCEPT !.entries[m.buckets[Slot(m, key)]].val = val]
      ELSE [entries |-> entries,
            buckets |-> IF (Len(entries) + 1) * 10 > Buckets(m) * 7
                        THEN Rehashed(entries, 2 * Buckets(m))
                        ELSE [m.buckets EXCEPT ![Slot(m, key)] = Len(entries)]]
-----------------------------------------------------------------------------
(* What the proofs about the map rest on (Database_proofs).                *)

(* Search for a key from its own bucket on meets entry i before a free one.*)
Reaches(buckets, n, key, i) ==
  \E d \in 0..n - 1 :
    /\ buckets[(Hash(key) + d) % n] = i
    /\ \A e \in 0..d - 1 : buckets[(Hash(key) + e) % n] # 0

(* The first k entries have a bucket each, where a search meets it.        *)
Holds(entries, buckets, n, k) ==
  /\ buckets \in [0..n - 1 -> 0..k]
  /\ \A a, b \in 0..n - 1 : buckets[a] # 0 /\ buckets[a] = buckets[b] => a = b
  /\ \A i \in 1..k : Reaches(buckets, n, entries[i].key, i)

(* Keys are different, and there are free buckets: with the next entry,    *)
(* too, the table is at most seventy percent full.                         *)
IsMap(m) ==
  LET n == Buckets(m)
      k == Len(m.entries)
  IN  /\ m.entries \in Seq(ToSet(m.entries))
      /\ \A i \in 1..k : m.entries[i].key \in Keys
      /\ \A i, j \in 1..k : m.entries[i].key = m.entries[j].key => i = j
      /\ n \in Nat /\ n > 2 /\ (k + 1) * 10 <= n * 7
      /\ Holds(m.entries, m.buckets, n, k)
=============================================================================
