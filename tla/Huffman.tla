------------------------------ MODULE Huffman ------------------------------
(***************************************************************************)
(* huff.c: canonical Huffman codes of limited length.  Symbols count from  *)
(* 0; counts, lengths and codes are functions of the symbol.  A code is    *)
(* the sequence of its bits, first bit first.  Every operation is a pure   *)
(* function of its arguments.                                              *)
(***************************************************************************)
EXTENDS Integers, SequencesExt, Bitwise

CONSTANT MAXLEN    \* HUFF_MAXLEN (15): a length is stored in four bits

ASSUME MaxLenAssumption == MAXLEN \in 1..15

Used(counts) == {s \in DOMAIN counts : counts[s] > 0}

(* sort_syms: the symbols in use, lightest or heaviest first, by number    *)
(* among equals.                                                           *)
InUse(counts) ==
  SelectSeq([k \in 1..Cardinality(DOMAIN counts) |-> k - 1], LAMBDA s : counts[s] > 0)
Ascending(counts) ==
  SortSeq(InUse(counts), LAMBDA s, t : \/ counts[s] < counts[t]
                                       \/ counts[s] = counts[t] /\ s < t)
Descending(counts) ==
  SortSeq(InUse(counts), LAMBDA s, t : \/ counts[s] > counts[t]
                                       \/ counts[s] = counts[t] /\ s < t)
-----------------------------------------------------------------------------
(* The tree: its nodes are numbered, the leaves first and lightest first,  *)
(* then the inner ones as they are made.  Both kinds wait in queues.       *)

(* The lighter of the two heads; a leaf wins a tie.                        *)
Take(t, n) ==
  IF t.leaf <= n /\ (t.inner > Len(t.w) \/ t.w[t.leaf] <= t.w[t.inner])
  THEN [t EXCEPT !.leaf = @ + 1, !.took = Append(@, t.leaf)]
  ELSE [t EXCEPT !.inner = @ + 1, !.took = Append(@, t.inner)]

(* Nodes are taken two at a time, so node k is taken k-th into t.took and  *)
(* its parent is the inner node made of that pair.                         *)
Merge(t, n) ==
  LET two == Take(Take(t, n), n)
      k == Len(two.took)
  IN  [two EXCEPT !.w = Append(@, two.w[two.took[k - 1]] + two.w[two.took[k]])]

Tree(weights) ==
  LET n == Len(weights)
  IN  FoldLeft(LAMBDA t, k : Merge(t, n),
               [w |-> weights, leaf |-> 1, inner |-> n + 1, took |-> <<>>],
               [k \in 1..n - 1 |-> k])

(* How deep each node is, the root last.                                   *)
Depths(weights) ==
  LET n == Len(weights)
      took == Tree(weights).took
      Parent(i) == n + (SelectInSeq(took, LAMBDA x : x = i) + 1) \div 2
  IN  FoldLeft(LAMBDA d, i : [d EXCEPT ![i] = d[Parent(i)] + 1],
               [i \in 1..2 * n - 1 |-> 0],
               [k \in 1..2 * n - 2 |-> 2 * n - 1 - k])
-----------------------------------------------------------------------------
(* Leaves deeper than MAXLEN are moved up in pairs: one takes the place of *)
(* its parent, the other becomes the brother of a leaf further up.         *)

RECURSIVE MutantLimited(_, _)
(* The leaf further up is not moved down to make room.                     *)
MutantLimited(hist, d) ==
  IF d <= MAXLEN THEN hist
  ELSE IF hist[d] = 0 THEN MutantLimited(hist, d - 1)
  ELSE LET j == Max({k \in 1..d - 2 : hist[k] > 0})
       IN  MutantLimited([hist EXCEPT ![d] = @ - 2, ![d - 1] = @ + 1, ![j + 1] = @ + 1], d)

RECURSIVE Limited(_, _)
Limited(hist, d) ==
  IF d <= MAXLEN THEN hist
  ELSE IF hist[d] = 0 THEN Limited(hist, d - 1)
  ELSE LET j == Max({k \in 1..d - 2 : hist[k] > 0})
       IN  Limited([hist EXCEPT ![d] = @ - 2, ![d - 1] = @ + 1,
                                ![j + 1] = @ + 2, ![j] = @ - 1], d)

(* huff_lengths: the lengths are dealt out so that a more frequent symbol  *)
(* is never longer.                                                        *)
Lengths(counts) ==
  LET leaf == Ascending(counts)
      n == Len(leaf)
      depth == Depths([k \in 1..n |-> counts[leaf[k]]])
      deepest == Max({depth[k] : k \in 1..n})
      hist == Limited([d \in 1..deepest |->
                         Cardinality({k \in 1..n : depth[k] = d})], deepest)
      UpTo(d) == SumFunction([k \in 1..d |-> hist[k]])
      dealt == Descending(counts)
      Length(k) == IF n = 1 THEN 1 ELSE Min({d \in DOMAIN hist : UpTo(d) >= k})
  IN  FoldLeft(LAMBDA len, k : [len EXCEPT ![dealt[k]] = Length(k)],
               [s \in DOMAIN counts |-> 0], [k \in 1..n |-> k])
-----------------------------------------------------------------------------
(* Canonical codes: of one length consecutive in symbol order, and behind  *)
(* the shorter ones.                                                       *)

OfLength(lengths, l) == {s \in DOMAIN lengths : lengths[s] = l}
First(lengths) ==
  LET first[l \in 1..MAXLEN] ==
        IF l = 1 THEN 0
        ELSE 2 * (first[l - 1] + Cardinality(OfLength(lengths, l - 1)))
  IN  first

Bits(v, len) == [k \in 1..len |-> (v \div 2 ^ (len - k)) % 2]
Value(bits) == FoldLeft(LAMBDA v, b : 2 * v + b, 0, bits)

(* huff_codes, the code bw_put writes for each symbol.                     *)
Codes(lengths) ==
  LET first == First(lengths)
      Rank(s) == Cardinality({t \in OfLength(lengths, lengths[s]) : t < s})
  IN  [s \in DOMAIN lengths |->
         IF lengths[s] = 0 THEN <<>> ELSE Bits(first[lengths[s]] + Rank(s), lengths[s])]

(* bw_flush: zero bits up to a byte.                                       *)
Flushed(bits) == bits \o [k \in 1..((8 - (Len(bits) % 8)) % 8) |-> 0]

(* The symbol read at bit pos: the shortest prefix that lies in the range  *)
(* of its length's codes; -1 past the end or on a code nobody has.         *)
DecodeOne(lengths, bits, pos) ==
  LET first == First(lengths)
      Rank(l) == Value(SubSeq(bits, pos + 1, pos + l)) - first[l]
      hits == {l \in 1..MAXLEN : /\ pos + l <= Len(bits)
                                 /\ Rank(l) \in 0..Cardinality(OfLength(lengths, l)) - 1}
  IN  IF hits = {} THEN [sym |-> -1, pos |-> pos]
      ELSE LET l == Min(hits)
           IN  [sym |-> CHOOSE s \in OfLength(lengths, l) :
                          Cardinality({t \in OfLength(lengths, l) : t < s}) = Rank(l),
                pos |-> pos + l]

Crc16(bytes) ==
  LET Bit(crc, b) == (IF crc >= 32768 THEN (2 * crc) ^^ 4129 ELSE 2 * crc) % 65536
      Byte(crc, v) == FoldLeft(Bit, crc ^^ (256 * v), <<1, 2, 3, 4, 5, 6, 7, 8>>)
  IN  FoldLeft(Byte, 65535, bytes)
=============================================================================
