------------------------------- MODULE Text2 -------------------------------
(***************************************************************************)
(* NextDAAD's text format 2 (text2.c, with nxtext_select of backend.c and  *)
(* the verifiers of tokselect.c): texts are parsed into literals and       *)
(* tokens, the tokens nested one level and numbered, the symbols Huffman   *)
(* coded; a block that says how to read them precedes the texts in a       *)
(* region.  A behaviour is one compilation; every dictionary is built in   *)
(* a small and a large alphabet and one of them is kept.                   *)
(* Tokens count from 1 here, so token k is the code's k-1.                 *)
(***************************************************************************)
EXTENDS Huffman

CONSTANTS
  Jobs,     \* the compilations a run explores
  LITS,     \* literals are the symbols below it, and below it a byte (128)
  REFMAX,   \* T2_REFMAX, tokens a byte of an entry can name (128)
  LARGE     \* tokens of the large alphabet (383); the small has REFMAX

EOM == 10
UNUSED == 12    \* T2_UNUSED_LIT, cost of what round 1 did not use
ENTRY == 32     \* the longest entry the verifier takes

(* A job is a record                                                       *)
(*   texts    the corpus: four tables and the XMESSAGEs, in one sequence   *)
(*   group    its table for each text; -1 for an XMESSAGE                  *)
(*   first, second   what tokselect_select_costed returns in each round    *)
(*            (module Tokens, encoder "costed"), per alphabet              *)
(*   limit    region_max                                                   *)
Alphabets == <<"small", "large">>
MaxTok(a) == IF a = "small" THEN REFMAX ELSE LARGE

IsSelection(toks, a) ==
  /\ Len(toks) <= MaxTok(a)
  /\ \A k \in DOMAIN toks : toks[k] \in Seq(0..LITS - 1) /\ Len(toks[k]) \in 2..12
  /\ \A k, l \in DOMAIN toks : k < l => toks[k] # toks[l] /\ Len(toks[k]) >= Len(toks[l])

IsJob(j) ==
  /\ j.texts \in Seq(Seq(0..255))
  /\ \A i \in DOMAIN j.texts : EOM \notin ToSet(j.texts[i])
  /\ j.group \in [DOMAIN j.texts -> -1..4]
  /\ \A r \in {j.first, j.second} : \A a \in ToSet(Alphabets) : IsSelection(r[a], a)
  /\ j.limit \in 0..65535

ASSUME JobsAssumption == \A j \in Jobs : IsJob(j)
ASSUME SizesAssumption ==
  /\ REFMAX \in Nat \ {0} /\ LARGE \in Nat /\ LARGE > REFMAX /\ LITS > EOM
  /\ LITS + REFMAX <= 256
  /\ (LITS + LARGE) % 2 = 1 /\ LITS % 2 = 0   \* the nibbles of a length table

VARIABLES
  job,       \* what is compiled
  phase,     \* where the compilation is
  built,     \* the alphabets that are done, a Text2Result each
  cost,      \* what round 1 found: cost.lit, cost.ref
  tokens,    \* the tokens of round 2, later those that are used
  stream,    \* stream[i], the symbols of text i
  entries,   \* tokens as emitted
  chosen,    \* the result that is emitted, 0 before
  region,    \* the bytes of the text region
  at,        \* at[i], what the lookup word of text i holds
  xmb        \* the bytes of 0.XMB

vars == <<job, phase, built, cost, tokens, stream, entries, chosen, region, at, xmb>>
work == <<cost, tokens, stream, entries>>
image == <<chosen, region, at, xmb>>

XMessages == {i \in DOMAIN job.group : job.group[i] < 0}
a == Alphabets[Len(built) + 1]    \* the alphabet that is being built
NSym == LITS + MaxTok(a)
Symbol(k) == LITS + k - 1
Sum(f) == SumFunction(f)
Lens(s) == Sum([k \in DOMAIN s |-> Len(s[k])])
-----------------------------------------------------------------------------
(* encode, and the parse of an entry: the cheapest way to write s, from    *)
(* its end; a literal wins ties, then the first token.                     *)
Parse(s, toks, usable, lit, ref) ==
  LET Fits(p) == {k \in usable : /\ p + Len(toks[k]) - 1 <= Len(s)
                                 /\ SubSeq(s, p, p + Len(toks[k]) - 1) = toks[k]}
      Before(from, p) ==
        LET plain == lit[s[p]] + from[1].cost
            With(k) == ref + from[Len(toks[k])].cost
            best == Min({plain} \cup {With(k) : k \in Fits(p)})
        IN  <<IF best = plain THEN [cost |-> best, tok |-> 0]
              ELSE [cost |-> best, tok |-> Min({k \in Fits(p) : With(k) = best})]>> \o from
      dp == FoldLeft(Before, <<[cost |-> 0, tok |-> 0]>>,
                     [k \in DOMAIN s |-> Len(s) + 1 - k])
      code[p \in 1..Len(s) + 1] ==
        IF p > Len(s) THEN <<>>
        ELSE IF dp[p].tok = 0 THEN <<s[p]>> \o code[p + 1]
        ELSE <<Symbol(dp[p].tok)>> \o code[p + Len(toks[dp[p].tok])]
  IN  code[1]

Encode(toks, lit, ref) ==
  [i \in DOMAIN job.texts |->
     Append(Parse(job.texts[i], toks, DOMAIN toks, lit, ref), EOM)]

(* stream_lengths: how often each of nsym symbols occurs.                  *)
Counted(all, nsym) ==
  FoldSet(LAMBDA s, counts : [counts EXCEPT ![s] = Cardinality({n \in DOMAIN all : all[n] = s})],
          [s \in 0..nsym - 1 |-> 0], ToSet(all))
Counts(st) == Counted(FlattenSeq(st), NSym)

Unit == [b \in 0..LITS - 1 |-> 1]
-----------------------------------------------------------------------------
(* text2_nest                                                              *)

(* The order kept among equals.                                            *)
Sorted(toks, Heavier(_, _)) ==
  SortSeq([k \in DOMAIN toks |-> k],
          LAMBDA j, k : Heavier(j, k) \/ (~Heavier(k, j) /\ j < k))

(* A token is written with shorter ones that stay raw and, being pinned,   *)
(* get numbers a byte can hold.                                            *)
NestOne(n, toks, k) ==
  LET L == Len(toks[k])
      targets == {j \in DOMAIN toks : /\ Len(toks[j]) < L /\ j \notin n.nested
                                      /\ (j \in n.pinned \/ Cardinality(n.pinned) + L <= REFMAX)}
      body == Parse(toks[k], toks, targets, Unit, 1)
  IN  IF k \in n.pinned \/ Len(body) >= L THEN n
      ELSE [body |-> [n.body EXCEPT ![k] = body], nested |-> n.nested \cup {k},
            pinned |-> n.pinned \cup {j \in DOMAIN toks : Symbol(j) \in ToSet(body)}]

Nesting(toks) ==
  FoldLeft(LAMBDA n, k : NestOne(n, toks, k),
           [body |-> toks, nested |-> {}, pinned |-> {}],
           Sorted(toks, LAMBDA j, k : Len(toks[j]) > Len(toks[k])))

(* The old numbers in the new order: the low ones go to the pinned tokens  *)
(* and the most used of the others.                                        *)
Order(toks, uses, pinned) ==
  LET order == Sorted(toks, LAMBDA j, k : uses[j] > uses[k])
      free == Min({Len(toks), REFMAX}) - Cardinality(pinned)
      others == SelectSeq(order, LAMBDA k : k \notin pinned)
      low == pinned \cup ToSet(SubSeq(others, 1, Min({free, Len(others)})))
  IN  SelectSeq(order, LAMBDA k : k \in low) \o SelectSeq(order, LAMBDA k : k \notin low)

NewNumber(order, k) == SelectInSeq(order, LAMBDA o : o = k)

(* A body as the bytes of an entry, its length first.                      *)
Entry(body, order) ==
  <<Len(body)>> \o [p \in DOMAIN body |->
     IF body[p] < LITS THEN body[p]
     ELSE Symbol(NewNumber(order, body[p] - LITS + 1)) % (LITS + REFMAX)]
-----------------------------------------------------------------------------
(* build_one, in four steps per alphabet                                   *)

(* text2_build refuses a text byte that is no literal.                     *)
Refuse ==
  /\ phase = "start" /\ \E i \in DOMAIN job.texts : \E b \in ToSet(job.texts[i]) : b >= LITS
  /\ phase' = "refused"
  /\ UNCHANGED <<job, built, work, image>>

(* Round 1 counts symbols; their code lengths are the costs of round 2.    *)
RoundOne ==
  /\ phase = "start" /\ \A i \in DOMAIN job.texts : ToSet(job.texts[i]) \subseteq 0..LITS - 1
  /\ \E st \in {Encode(job.first[a], Unit, 1)} : \E len \in {Lengths(Counts(st))} :
     LET used == {k \in DOMAIN job.first[a] : len[Symbol(k)] > 0}
         n == Cardinality(used)
     IN  cost' = [lit |-> [b \in 0..LITS - 1 |-> IF len[b] > 0 THEN len[b] ELSE UNUSED],
                  ref |-> IF n = 0 THEN UNUSED
                          ELSE (MapThenSumSet(LAMBDA k : len[Symbol(k)], used) + n \div 2) \div n]
  /\ phase' = "second"
  /\ UNCHANGED <<job, built, tokens, stream, entries, image>>

RoundTwo ==
  /\ phase = "second"
  /\ tokens' = job.second[a]
  /\ stream' = Encode(tokens', cost.lit, cost.ref)
  /\ phase' = "nest"
  /\ UNCHANGED <<job, built, cost, entries, image>>

(* Streams renumbered by the order itself, not by its inverse.             *)
MutantRenumbered(s, kept, order) ==
  IF s < LITS THEN s
  ELSE Symbol(order[SelectInSeq(kept, LAMBDA k : Symbol(k) = s)])

Renumbered(s, kept, order) ==
  IF s < LITS THEN s
  ELSE Symbol(NewNumber(order, SelectInSeq(kept, LAMBDA k : Symbol(k) = s)))

(* Tokens the stream never names are dropped, the rest nested and          *)
(* numbered anew, in the streams too.                                      *)
Nest ==
  /\ phase = "nest"
  /\ \E counts \in {Counts(stream)} :
     \E kept \in {SelectSeq([k \in DOMAIN tokens |-> k], LAMBDA k : counts[Symbol(k)] > 0)} :
     \E toks \in {[k \in DOMAIN kept |-> tokens[kept[k]]]} :
     \E n \in {Nesting(toks)} :
     \E order \in {Order(toks, [k \in DOMAIN kept |-> counts[Symbol(kept[k])]], n.pinned)} :
       /\ tokens' = [k \in DOMAIN order |-> toks[order[k]]]
       /\ entries' = [k \in DOMAIN order |-> Entry(n.body[order[k]], order)]
       /\ stream' = [i \in DOMAIN stream |->
                       [p \in DOMAIN stream[i] |-> Renumbered(stream[i][p], kept, order)]]
  /\ phase' = "code"
  /\ UNCHANGED <<job, built, cost, image>>

LengthBytes(nsym) == (nsym + 1) \div 2

(* Equal streams of different tables are counted once too.                *)
MutantCountedBefore(coded, i) ==
  job.group[i] >= 0 /\ \E j \in 1..i - 1 : job.group[j] >= 0 /\ coded[j] = coded[i]

(* An equal stream of the same table came earlier.                         *)
CountedBefore(coded, i) ==
  job.group[i] >= 0 /\ \E j \in 1..i - 1 : job.group[j] = job.group[i] /\ coded[j] = coded[i]

UniqueBytes(coded, texts) ==
  MapThenSumSet(LAMBDA i : Len(coded[i]) \div 8, {i \in texts : ~CountedBefore(coded, i)})

Code ==
  /\ phase = "code"
  /\ \E lengths \in {Lengths(Counts(stream))} :
     \E codes \in {Codes(lengths)} :
     \E coded \in {[i \in DOMAIN stream |->
                      Flushed(FlattenSeq([p \in DOMAIN stream[i] |-> codes[stream[i][p]]]))]} :
     LET block == 7 + LengthBytes(NSym) + 2 * Len(entries) + Lens(entries)
     IN  built' = Append(built,
           [alphabet |-> a, tokens |-> tokens, entries |-> entries, stream |-> stream,
            lengths |-> lengths, coded |-> coded, block |-> block,
            unique |-> UniqueBytes(coded, DOMAIN coded),
            regionBytes |-> block + UniqueBytes(coded, DOMAIN coded \ XMessages)])
  /\ phase' = IF a = "small" THEN "start" ELSE "choose"
  /\ UNCHANGED <<job, work, image>>

(* The alphabet that fits; of two that fit the one with fewer bytes in     *)
(* all, of two that do not the one with fewer in the region.               *)
Choose ==
  /\ phase = "choose"
  /\ LET small == built[1]
         large == built[2]
         Fits(r) == r.regionBytes <= job.limit
     IN  chosen' = IF Fits(small) # Fits(large) THEN IF Fits(large) THEN 2 ELSE 1
                   ELSE IF ~Fits(small)
                        THEN IF large.regionBytes < small.regionBytes THEN 2 ELSE 1
                   ELSE IF large.unique + large.block < small.unique + small.block
                        THEN 2 ELSE 1
  /\ phase' = "check"
  /\ UNCHANGED <<job, built, work, region, at, xmb>>

Kept == built[chosen]
-----------------------------------------------------------------------------
(* nxtext_select                                                           *)

(* The loader refuses a block without tokens: format 1 is emitted.         *)
FormatOne ==
  /\ phase = "check" /\ Kept.entries = <<>>
  /\ phase' = "format1"
  /\ UNCHANGED <<job, built, work, image>>

RECURSIVE Symbols(_, _, _)
(* The symbols from bit pos to the end mark; ok = FALSE when it is never   *)
(* met.                                                                    *)
Symbols(lengths, bits, pos) ==
  LET one == DecodeOne(lengths, bits, pos)
  IN  IF one.sym = -1 THEN [ok |-> FALSE, syms |-> <<>>, pos |-> pos]
      ELSE IF one.sym = EOM THEN [ok |-> TRUE, syms |-> <<>>, pos |-> one.pos]
      ELSE LET rest == Symbols(lengths, bits, one.pos)
           IN  [rest EXCEPT !.syms = <<one.sym>> \o @]

(* An entry's bytes with its references replaced; those of a reference     *)
(* are not looked at again.                                                *)
Expanded(ent, k) ==
  FlattenSeq([p \in 1..ent[k][1] |->
     LET b == ent[k][p + 1]
     IN  IF b < LITS THEN <<b>> ELSE IF b - LITS >= Len(ent) THEN <<255>>
         ELSE Tail(ent[b - LITS + 1])])

(* The text a stream stands for.                                           *)
TextOf(ent, syms) ==
  FlattenSeq([p \in DOMAIN syms |->
     IF syms[p] < LITS THEN <<syms[p]>>
     ELSE IF syms[p] - LITS >= Len(ent) THEN <<255>> ELSE Expanded(ent, syms[p] - LITS + 1)])

(* text2_decodes_to, before anything is written.                           *)
Decodes(r, i) ==
  LET d == Symbols(r.lengths, r.coded[i], 0)
  IN  /\ d.ok /\ (d.pos + 7) \div 8 = Len(r.coded[i]) \div 8
      /\ TextOf(r.entries, d.syms) = job.texts[i]

SelfCheck ==
  /\ phase = "check" /\ Kept.entries # <<>>
  /\ phase' = IF \A i \in DOMAIN job.texts : Decodes(Kept, i)
              THEN IF Kept.regionBytes > job.limit THEN "toolong" ELSE "emit"
              ELSE "failed"
  /\ UNCHANGED <<job, built, work, image>>
-----------------------------------------------------------------------------
(* text2_block, the region and the XMB                                     *)

Word(v) == <<v % 256, (v \div 256) % 256>>

(* Two lengths to a byte, the even symbol's in the low half.               *)
Packed(lengths, nsym) ==
  [k \in 1..LengthBytes(nsym) |->
     lengths[2 * k - 2] + 16 * (IF 2 * k - 1 < nsym THEN lengths[2 * k - 1] ELSE 0)]

(* Where entry k starts in the block.                                      *)
Offset(r, k) ==
  7 + LengthBytes(LITS + MaxTok(r.alphabet)) + 2 * Len(r.entries)
    + Lens(SubSeq(r.entries, 1, k - 1))

Block(r) ==
  LET packed == Packed(r.lengths, LITS + MaxTok(r.alphabet))
  IN  <<72, 50, IF r.alphabet = "large" THEN 1 ELSE 0>> \o Word(Len(r.entries))
        \o Word(Crc16(packed)) \o packed
        \o FlattenSeq([k \in DOMAIN r.entries |-> Word(Offset(r, k))])
        \o FlattenSeq(r.entries)

Bytes(bits) == [k \in 1..Len(bits) \div 8 |-> Value(SubSeq(bits, 8 * k - 7, 8 * k))]
BitsOf(bytes) == FlattenSeq([k \in DOMAIN bytes |-> Bits(bytes[k], 8)])

(* The block, then each text behind the last unless it shares an earlier   *)
(* one; the XMESSAGEs behind the header of 0.XMB.                          *)
Emit ==
  /\ phase = "emit"
  /\ LET r == Kept
         Put(s, i) ==
           LET same == {j \in 1..i - 1 : job.group[j] = job.group[i] /\ r.coded[j] = r.coded[i]}
               bytes == Bytes(r.coded[i])
           IN  IF job.group[i] < 0
               THEN [s EXCEPT !.at = Append(@, Len(s.xmb)), !.xmb = @ \o bytes]
               ELSE IF same # {} THEN [s EXCEPT !.at = Append(@, s.at[Min(same)])]
               ELSE [s EXCEPT !.at = Append(@, Len(s.region)), !.region = @ \o bytes]
         header == IF XMessages = {} THEN <<>> ELSE <<88, 50>> \o SubSeq(Block(r), 6, 7)
     IN  \E all \in {FoldLeft(Put, [region |-> Block(r), at |-> <<>>, xmb |-> header],
                         [i \in DOMAIN r.coded |-> i])} :
           region' = all.region /\ at' = all.at /\ xmb' = all.xmb
  /\ phase' = "verify"
  /\ UNCHANGED <<job, built, work, chosen>>
-----------------------------------------------------------------------------
(* tokselect.c: the emitted bytes are read again                           *)

(* block2_parse: what the block says, or ok = FALSE.                       *)
Parsed(b) ==
  LET Byte(n) == b[n + 1]
      flags == Byte(2)
      nsym == LITS + IF flags = 0 THEN REFMAX ELSE LARGE
      lbytes == LengthBytes(nsym)
      ntok == Byte(3) + 256 * Byte(4)
      nibble == [s \in 0..2 * lbytes - 1 |->
                   (Byte(7 + s \div 2) \div (IF s % 2 = 0 THEN 1 ELSE 16)) % 16]
      Off(k) == Byte(5 + lbytes + 2 * k) + 256 * Byte(6 + lbytes + 2 * k)
      Whole(k) == /\ Off(k) < Len(b) /\ Byte(Off(k)) \in 1..ENTRY
                  /\ Len(b) - Off(k) >= 1 + Byte(Off(k))
      ent == [k \in 1..ntok |-> SubSeq(b, Off(k) + 1, Off(k) + 1 + Byte(Off(k)))]
      Refs(k) == {ent[k][p] - LITS + 1 : p \in {p \in 2..Len(ent[k]) : ent[k][p] >= LITS}}
      ok == /\ Len(b) >= 7 /\ Byte(0) = 72 /\ Byte(1) = 50 /\ flags \in {0, 1}
            /\ ntok \in 1..(IF flags = 0 THEN REFMAX ELSE LARGE)
            /\ Len(b) >= 7 + lbytes + 2 * ntok
            /\ Crc16(SubSeq(b, 8, 7 + lbytes)) = Byte(5) + 256 * Byte(6)
            /\ \A s \in DOMAIN nibble : nibble[s] > 0 => s < nsym /\ s < LITS + ntok
            /\ Sum([s \in DOMAIN nibble |-> IF nibble[s] = 0 THEN 0
                                            ELSE 2 ^ (15 - nibble[s])]) <= 2 ^ 15
            /\ \E s \in DOMAIN nibble : nibble[s] > 0
            /\ \A k \in 1..ntok : Whole(k)
            /\ \A k \in 1..ntok : \A r \in Refs(k) : r <= ntok /\ Refs(r) = {}
  IN  IF ok THEN [ok |-> TRUE, entries |-> ent, fp |-> SubSeq(b, 6, 7),
                  lengths |-> [s \in 0..nsym - 1 |-> nibble[s]]]
      ELSE [ok |-> FALSE]

(* block2_matches: the bytes from offset o on are text t.                  *)
Matches(blk, bytes, o, t) ==
  LET bits == BitsOf(SubSeq(bytes, o + 1, Len(bytes)))
      d == Symbols(blk.lengths, bits, 0)
  IN  /\ o < Len(bytes) /\ d.ok /\ TextOf(blk.entries, d.syms) = t
      /\ \A p \in d.pos + 1..8 * ((d.pos + 7) \div 8) : bits[p] = 0

(* tokselect_verify_region and xmb2_check                                  *)
Verify ==
  /\ phase = "verify"
  /\ \E blk \in {Parsed(region)} :
     LET Right(i) == Matches(blk, IF job.group[i] < 0 THEN xmb ELSE region, at[i], job.texts[i])
         ok == /\ blk.ok /\ Len(region) <= job.limit
               /\ \A i \in DOMAIN at : Right(i)
               /\ XMessages = {} \/ SubSeq(xmb, 1, 4) = <<88, 50>> \o blk.fp
     IN  phase' = IF ok THEN "done" ELSE "failed"
  /\ UNCHANGED <<job, built, work, image>>
-----------------------------------------------------------------------------
Init ==
  /\ job \in Jobs
  /\ phase = "start" /\ built = <<>>
  /\ cost = [lit |-> Unit, ref |-> 1] /\ tokens = <<>> /\ stream = <<>> /\ entries = <<>>
  /\ chosen = 0 /\ region = <<>> /\ at = <<>> /\ xmb = <<>>

Finished == phase \in {"refused", "format1", "toolong", "failed", "done"} /\ UNCHANGED vars

Next == Refuse \/ RoundOne \/ RoundTwo \/ Nest \/ Code \/ Choose
          \/ FormatOne \/ SelfCheck \/ Emit \/ Verify \/ Finished

Spec == Init /\ [][Next]_vars
-----------------------------------------------------------------------------
(* Every full binary tree of n leaves, as how many it has at each depth.   *)
Trees(n) ==
  LET Split(h, d) == [h EXCEPT ![d] = @ - 1, ![d + 1] = @ + 2]
      Grown(trees, k) == {Split(hd[1], hd[2]) : hd \in {hd \in trees \X (0..n - 2) : hd[1][hd[2]] > 0}}
  IN  FoldLeft(Grown, {[d \in 0..n - 1 |-> IF d = 0 THEN 1 ELSE 0]}, [k \in 1..n - 1 |-> k])

(* What such a tree costs when the heaviest symbols get its highest leaves.*)
TreeCost(h, weights) ==
  LET UpTo(d) == Sum([e \in 0..d |-> h[e]])
  IN  Sum([k \in DOMAIN weights |-> weights[k] * Min({d \in DOMAIN h : UpTo(d) >= k})])

(* The code of every dictionary is complete and within the limit, never    *)
(* gives the more frequent symbol the longer code, and costs no more bits  *)
(* than any other as long as a cheapest code exists within the limit: the  *)
(* repair is for trees that cannot do without (huff_lengths).              *)
CodesBest ==
  phase \in {"start", "choose"} /\ built # <<>> =>
    LET r == Last(built)
        counts == Counted(FlattenSeq(r.stream), Cardinality(DOMAIN r.lengths))
        weights == [k \in DOMAIN Descending(counts) |-> counts[Descending(counts)[k]]]
        n == Len(weights)
        cheapest == Min({TreeCost(h, weights) : h \in Trees(n)})
        fits == \E h \in Trees(n) : /\ TreeCost(h, weights) = cheapest
                                    /\ \A d \in MAXLEN + 1..n - 1 : h[d] = 0
    IN  /\ \A s \in Used(counts) : r.lengths[s] \in 1..MAXLEN
        /\ \A s, t \in Used(counts) : counts[s] > counts[t] => r.lengths[s] <= r.lengths[t]
        /\ n > 1 => Sum([s \in Used(counts) |-> 2 ^ (MAXLEN - r.lengths[s])]) = 2 ^ MAXLEN
        /\ n > 1 /\ fits => Sum([s \in Used(counts) |-> counts[s] * r.lengths[s]]) = cheapest

(* What is emitted reads back: every text the source holds is decoded, by  *)
(* the bits at its offset and through the entries as the block has them,   *)
(* to that text, and the block is one the loader takes; the two            *)
(* self-checks stop no compilation (text2_decodes_to, block2_parse,        *)
(* tokselect_verify_region, xmb2_check).                                   *)
AcceptsOwnOutput == phase # "failed"

(* The dictionary is chosen by sizes that are counted before anything is   *)
(* written, and they are the sizes of what is then written; a region that  *)
(* is too long is so in both alphabets, and no alphabet that fits is       *)
(* larger in all than one that fits (text2_build, text2_block).            *)
ChoiceBySize ==
  LET small == built[1]
      large == built[2]
      Total(r) == r.unique + r.block
  IN  /\ phase \in {"verify", "done"} =>
           /\ Len(region) = Kept.regionBytes
           /\ Len(region) + Len(xmb) =
                Total(Kept) + (IF XMessages = {} THEN 0 ELSE 4)
           /\ \A r \in {small, large} : r.regionBytes <= job.limit => Total(Kept) <= Total(r)
      /\ phase = "toolong" => small.regionBytes > job.limit /\ large.regionBytes > job.limit
=============================================================================
