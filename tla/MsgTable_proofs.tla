--------------------------- MODULE MsgTable_proofs --------------------------
(***************************************************************************)
(* Theorems about MsgTable, for every call of emit_messages: every text is *)
(* found whole at its offset in the place its flags name, texts that share *)
(* a copy included; the lookup words are the offsets' 16 bits; and what    *)
(* stays in RAM is aligned where the target pads.                          *)
(***************************************************************************)
EXTENDS MsgTable, Basics

(* Every variable is what the call's locals and outputs hold.              *)
TypeOK ==
  /\ call \in Tables
  /\ phase \in {"texts", "words", "done"}
  /\ i \in 1 .. Len(call.msgs) + 1
  /\ out \in Seq(Bytes) /\ xmb \in Seq(Bytes) /\ region \in Seq(Bytes)
  /\ addr \in Nat /\ xmbAddr \in Nat
  /\ offsets \in Seq(Nat)

(* The cursors count what was written from where the call began.           *)
CursorsCount ==
  /\ addr = call.base + Len(out)
  /\ xmbAddr = call.xmbBase + Len(xmb)

(* One offset for each text met.                                           *)
OffsetsKnown ==
  /\ Len(offsets) = IF phase = "texts" THEN i - 1 ELSE Len(call.msgs)
  /\ phase = "done" => i = Len(call.msgs) + 1

(* The words written so far end the database bytes.                        *)
WordsFrom == Len(out) - 2 * (i - 1)
WordsWritten ==
  phase # "texts" =>
    /\ WordsFrom >= 0
    /\ \A k \in 1 .. i - 1 :
         <<out[WordsFrom + 2 * k - 1], out[WordsFrom + 2 * k]>> = Word(offsets[k])

IInv ==
  /\ TypeOK /\ CursorsCount /\ OffsetsKnown
  /\ TextsReadBack /\ WordsWritten /\ RamTextsAligned

-----------------------------------------------------------------------------
(* Lemmas about the operators.                                             *)

(* The texts of a call are bytes, and so is what is stored for one.        *)
LEMMA StoredBytes ==
  ASSUME call \in Tables, NEW k \in 1..Len(call.msgs)
  PROVE  /\ Stored(call.msgs[k]) \in Seq(Bytes)
         /\ Len(Stored(call.msgs[k])) \in Nat
         /\ Len(call.msgs) \in Nat
         /\ DOMAIN call.msgs = 1..Len(call.msgs)
<1> DEFINE text == call.msgs[k]
<1>1. call.msgs \in Seq(Seq(Bytes))
  BY TablesAssumption DEF IsTable, Bytes
<1>2. text \in Seq(Bytes)
  BY <1>1, ElementOfSeq
<1>3. Len(call.msgs) \in Nat /\ DOMAIN call.msgs = 1..Len(call.msgs)
  BY <1>1, LenProperties
<1> HIDE DEF text
<1>4. Obfuscated(text) \in Seq(Bytes)
  <2>1. \A j \in 1..Len(text) : 255 - text[j] \in Bytes
    <3>1. \A j \in 1..Len(text) : text[j] \in Bytes
      BY <1>2, ElementOfSeq
    <3>2. \A x \in Bytes : 255 - x \in Bytes
      BY DEF Bytes
    <3>3. QED
      BY <3>1, <3>2, Zenon
  <2>2. DOMAIN text = 1..Len(text) /\ Len(text) \in Nat
    BY <1>2, LenProperties
  <2>3. QED
    BY <2>1, <2>2 DEF Obfuscated
<1>5. Append(Obfuscated(text), Terminator) \in Seq(Bytes)
  BY <1>4, AppendProperties DEF Bytes, Terminator
<1>6. Stored(text) \in Seq(Bytes)
  BY <1>2, <1>5, Zenon DEF Stored
<1>7. QED
  BY <1>3, <1>6, LenProperties DEF text

(* What is found in a place is found in whatever the place grows to.       *)
LEMMA SliceStays ==
  ASSUME NEW s \in Seq(Bytes), NEW t \in Seq(Bytes), NEW b \in Seq(Bytes),
         NEW from \in Int, Slice(s, from, Len(b)) = b
  PROVE  Slice(s \o t, from, Len(b)) = b
<1>1. Len(b) \in Nat /\ Len(s) \in Nat /\ Len(s \o t) \in Nat
  BY Concat, LenProperties
<1>2. CASE from \in 0 .. Len(s) - Len(b)
  <2>1. from \in Nat /\ from + Len(b) <= Len(s)
    BY <1>1, <1>2
  <2>2. /\ from + Len(b) <= Len(s \o t)
        /\ SubSeq(s \o t, from + 1, from + Len(b)) = SubSeq(s, from + 1, from + Len(b))
    BY <1>1, <2>1, PartStays
  <2>3. from \in 0 .. Len(s \o t) - Len(b)
    BY <1>1, <2>1, <2>2
  <2>4. QED
    BY <1>2, <2>2, <2>3 DEF Slice
<1>3. CASE from \notin 0 .. Len(s) - Len(b)
  <2>1. b = <<>> /\ Len(b) = 0
    BY <1>3 DEF Slice
  <2>2. SubSeq(s \o t, from + 1, from + 0) = <<>>
    BY SubSeqEmpty
  <2>3. QED
    BY <2>1, <2>2 DEF Slice
<1>4. QED
  BY <1>2, <1>3

(* What is written at the end of a place is found there.                   *)
LEMMA SliceAppended ==
  ASSUME NEW s \in Seq(Bytes), NEW b \in Seq(Bytes)
  PROVE  Slice(s \o b, Len(s), Len(b)) = b
<1>1. /\ Len(s) \in Nat /\ Len(b) \in Nat
      /\ Len(s \o b) = Len(s) + Len(b)
  BY Concat
<1>2. Len(s) \in 0 .. Len(s \o b) - Len(b)
  BY <1>1
<1>3. QED
  BY <1>2, PartAppended DEF Slice

(* The pad is counted, and makes the address even where the target pads.   *)
LEMMA PadCounted ==
  ASSUME TypeOK
  PROVE  /\ Pad \in Seq(Bytes)
         /\ Padded \in Nat
         /\ Padded = addr + Len(Pad)
         /\ call.padding => Padded % 2 = 0
<1>1. CASE PadNeeded
  <2>1. Pad = <<0>> /\ Padded = addr + 1 /\ addr % 2 = 1 /\ 0 \in Bytes
    <3>1. Pad = <<0>> /\ Padded = addr + 1
      BY <1>1 DEF Pad, Padded
    <3>2. addr % 2 = 1
      BY <1>1 DEF PadNeeded
    <3>3. QED
      BY <3>1, <3>2 DEF Bytes
  <2>2. <<0>> \in Seq(Bytes) /\ Len(<<0>>) = 1
    BY <2>1
  <2>3. addr \in Nat
    BY DEF TypeOK
  <2>4. (addr + 1) % 2 = 0
    BY <2>1, <2>3
  <2>5. QED
    BY <2>1, <2>2, <2>3, <2>4
<1>2. CASE ~PadNeeded
  <2>1. Pad = <<>> /\ Padded = addr
    BY <1>2 DEF Pad, Padded
  <2>2. call.padding => addr % 2 # 1
    BY <1>2, Zenon DEF PadNeeded
  <2>3. <<>> \in Seq(Bytes) /\ Len(<<>>) = 0
    OBVIOUS
  <2>4. QED
    BY <2>1, <2>2, <2>3 DEF TypeOK
<1>3. QED
  BY <1>1, <1>2

(* A lookup word is two bytes, the 16 bits of the offset.                  *)
LEMMA WordBytes ==
  ASSUME NEW v \in Nat
  PROVE  /\ Word(v) \in Seq(Bytes) /\ Len(Word(v)) = 2
         /\ Word(v) = <<Word(v)[1], Word(v)[2]>>
         /\ IF call.bigEndian THEN 256 * Word(v)[1] + Word(v)[2] = v % 65536
            ELSE Word(v)[1] + 256 * Word(v)[2] = v % 65536
<1> DEFINE lo == v % 256
           hi == (v \div 256) % 256
<1>1. lo \in Bytes /\ hi \in Bytes /\ lo + 256 * hi = v % 65536
  BY TwoBytes DEF Bytes
<1>2. Word(v) = IF call.bigEndian THEN <<hi, lo>> ELSE <<lo, hi>>
  BY Zenon DEF Word
<1> HIDE DEF lo, hi
<1>3. CASE call.bigEndian
  <2>1. Word(v) = <<hi, lo>>
    BY <1>2, <1>3
  <2>2. 256 * hi + lo = v % 65536
    BY <1>1, SMT DEF Bytes
  <2>3. QED
    BY <1>1, <1>3, <2>1, <2>2, SMT
<1>4. CASE ~call.bigEndian
  <2>1. Word(v) = <<lo, hi>>
    BY <1>2, <1>4
  <2>2. QED
    BY <1>1, <1>4, <2>1, SMT
<1>5. QED
  BY <1>3, <1>4

(* What is found of a text stays found while the three places grow.        *)
LEMMA FoundStays ==
  ASSUME TypeOK, call' = call,
         NEW a \in Seq(Bytes), NEW b \in Seq(Bytes), NEW c \in Seq(Bytes),
         out' = out \o a, xmb' = xmb \o b, region' = region \o c,
         NEW k \in 1..Len(call.msgs), NEW o \in Nat,
         Found(k, o) = Stored(call.msgs[k])
  PROVE  Found(k, o)' = Stored(call.msgs[k])'
<1> DEFINE bytes == Stored(call.msgs[k])
<1>1. bytes \in Seq(Bytes)
  BY StoredBytes DEF TypeOK
<1>2. Stored(call.msgs[k])' = bytes
  BY DEF Stored, Obfuscated
<1>3. /\ o - call.regionBase \in Int /\ o - call.xmbBase \in Int
      /\ o - call.base \in Int
  <2>1. IsTable(call)
    BY TablesAssumption DEF TypeOK
  <2>2. call.regionBase \in Nat /\ call.xmbBase \in Nat /\ call.base \in Nat
    BY <2>1, Zenon DEF IsTable
  <2>3. QED
    BY <2>2, SMTT(30)
<1>4. ToXmb(k)' <=> ToXmb(k)
  BY DEF ToXmb
<1> HIDE DEF bytes
<1>5. CASE call.region
  <2>1. Slice(region, o - call.regionBase, Len(bytes)) = bytes
    BY <1>5 DEF Found, bytes
  <2>2. Slice(region \o c, o - call.regionBase, Len(bytes)) = bytes
    <3>1. region \in Seq(Bytes)
      BY DEF TypeOK
    <3>2. QED
      BY <1>1, <1>3, <2>1, <3>1, SliceStays
  <2>3. Found(k, o)' = Slice(region \o c, o - call.regionBase, Len(bytes))
    BY <1>2, <1>4, <1>5 DEF Found, Slice
  <2>4. QED
    BY <1>2, <2>2, <2>3
<1>6. CASE ~call.region /\ ToXmb(k)
  <2>1. Slice(xmb, o - call.xmbBase, Len(bytes)) = bytes
    BY <1>6 DEF Found, bytes
  <2>2. Slice(xmb \o b, o - call.xmbBase, Len(bytes)) = bytes
    BY <1>1, <1>3, <2>1, SliceStays, SMTT(30) DEF TypeOK
  <2>3. Found(k, o)' = Slice(xmb \o b, o - call.xmbBase, Len(bytes))
    BY <1>2, <1>4, <1>6 DEF Found, Slice
  <2>4. QED
    BY <1>2, <2>2, <2>3
<1>7. CASE ~call.region /\ ~ToXmb(k)
  <2>1. Slice(out, o - call.base, Len(bytes)) = bytes
    BY <1>7 DEF Found, bytes
  <2>2. Slice(out \o a, o - call.base, Len(bytes)) = bytes
    BY <1>1, <1>3, <2>1, SliceStays, SMTT(30) DEF TypeOK
  <2>3. Found(k, o)' = Slice(out \o a, o - call.base, Len(bytes))
    BY <1>2, <1>4, <1>7 DEF Found, Slice
  <2>4. QED
    BY <1>2, <2>2, <2>3
<1>8. QED
  BY <1>5, <1>6, <1>7

(* Every offset given so far keeps leading to its text.                    *)
LEMMA OldTextsStay ==
  ASSUME IInv, call' = call,
         NEW a \in Seq(Bytes), NEW b \in Seq(Bytes), NEW c \in Seq(Bytes),
         out' = out \o a, xmb' = xmb \o b, region' = region \o c,
         NEW k \in 1..Len(offsets)
  PROVE  /\ k \in 1..Len(call.msgs)
         /\ \A o \in Nat : o = offsets[k] => Found(k, o)' = Stored(call.msgs[k])'
<1>1. offsets[k] \in Nat /\ k \in DOMAIN offsets
  BY ElementOfSeq, LenProperties DEF IInv, TypeOK
<1>2. k \in 1..Len(call.msgs)
  <2>1. Len(call.msgs) \in Nat
    BY TablesAssumption, LenProperties DEF IInv, TypeOK, IsTable
  <2>2. QED
    BY <2>1 DEF IInv, TypeOK, OffsetsKnown
<1>3. Found(k, offsets[k]) = Stored(call.msgs[k])
  BY <1>1 DEF IInv, TextsReadBack
<1>4. ASSUME NEW o \in Nat, o = offsets[k] PROVE Found(k, o)' = Stored(call.msgs[k])'
  BY <1>2, <1>3, <1>4, FoundStays DEF IInv
<1>5. QED
  BY <1>1, <1>2, <1>4

(* What the typed state of a call gives.                                   *)
LEMMA CallFacts ==
  ASSUME TypeOK
  PROVE  /\ IsTable(call)
         /\ Len(call.msgs) \in Nat /\ DOMAIN call.msgs = 1..Len(call.msgs)
         /\ call.base \in Nat /\ call.xmbBase \in Nat /\ call.regionBase \in Nat
         /\ Len(out) \in Nat /\ Len(xmb) \in Nat /\ Len(region) \in Nat
         /\ Len(offsets) \in Nat /\ DOMAIN offsets = 1..Len(offsets)
         /\ \A k \in 1..Len(offsets) : offsets[k] \in Nat
<1>1. IsTable(call)
  BY TablesAssumption DEF TypeOK
<1>2. call.base \in Nat /\ call.xmbBase \in Nat /\ call.regionBase \in Nat
  BY <1>1, Zenon DEF IsTable
<1>3. Len(call.msgs) \in Nat /\ DOMAIN call.msgs = 1..Len(call.msgs)
  <2>1. call.msgs \in Seq(Seq(0..255))
    BY <1>1, Zenon DEF IsTable
  <2>2. QED
    BY <2>1, LenProperties, Zenon
<1>4. Len(out) \in Nat /\ Len(xmb) \in Nat /\ Len(region) \in Nat
  BY LenProperties, Zenon DEF TypeOK
<1>5. Len(offsets) \in Nat /\ DOMAIN offsets = 1..Len(offsets)
  BY LenProperties, Zenon DEF TypeOK
<1>6. \A k \in 1..Len(offsets) : offsets[k] \in Nat
  BY ElementOfSeq, Zenon DEF TypeOK
<1>7. QED
  BY <1>1, <1>2, <1>3, <1>4, <1>5, <1>6

(* A text met: what is needed of its offset for the invariant to hold      *)
(* behind it, whatever the three places grew by.                           *)
LEMMA TextMet ==
  ASSUME IInv, AtText, UNCHANGED <<call, phase>>, i' = i + 1,
         NEW a \in Seq(Bytes), NEW b \in Seq(Bytes), NEW c \in Seq(Bytes),
         out' = out \o a, xmb' = xmb \o b, region' = region \o c,
         addr' = addr + Len(a), xmbAddr' = xmbAddr + Len(b),
         NEW o \in Nat, offsets' = Append(offsets, o),
         \A k \in 1..Len(call.msgs) : k = i => Found(k, o)' = Stored(call.msgs[k])',
         call.padding /\ ~call.region /\ ~ToXmb(i) => o % 2 = 0
  PROVE  IInv'
<1>1. TypeOK /\ CursorsCount /\ OffsetsKnown /\ TextsReadBack /\ RamTextsAligned
  BY DEF IInv
<1>2. /\ i \in 1..Len(call.msgs) /\ Len(call.msgs) \in Nat /\ Len(offsets) = i - 1
      /\ phase = "texts" /\ phase' = "texts"
  <2>1. Len(call.msgs) \in Nat
    BY <1>1, CallFacts
  <2>2. phase = "texts" /\ i <= Len(call.msgs)
    BY DEF AtText
  <2>3. i \in 1..Len(call.msgs)
    BY <1>1, <2>1, <2>2 DEF TypeOK
  <2>4. QED
    BY <1>1, <2>1, <2>2, <2>3 DEF OffsetsKnown
<1>3. /\ out' \in Seq(Bytes) /\ Len(out') = Len(out) + Len(a)
      /\ xmb' \in Seq(Bytes) /\ Len(xmb') = Len(xmb) + Len(b)
      /\ region' \in Seq(Bytes)
      /\ Len(a) \in Nat /\ Len(b) \in Nat
  BY <1>1, Concat DEF TypeOK
<1>4. /\ offsets' \in Seq(Nat) /\ Len(offsets') = i
      /\ DOMAIN offsets' = 1..i
      /\ \A k \in 1..i - 1 : offsets'[k] = offsets[k]
      /\ offsets'[i] = o
  <2>1. offsets \in Seq(Nat)
    BY <1>1 DEF TypeOK
  <2>2. /\ offsets' \in Seq(Nat) /\ Len(offsets') = Len(offsets) + 1
        /\ \A k \in 1..Len(offsets) : offsets'[k] = offsets[k]
        /\ offsets'[Len(offsets) + 1] = o
    BY <2>1, AppendProperties
  <2>3. DOMAIN offsets' = 1..Len(offsets')
    BY <2>2, LenProperties
  <2>4. Len(offsets) + 1 = i
    BY <1>2
  <2>5. QED
    BY <1>2, <2>2, <2>3, <2>4
<1>5. TypeOK'
  <2>1. addr' \in Nat /\ xmbAddr' \in Nat
    <3>1. addr \in Nat /\ xmbAddr \in Nat
      BY <1>1 DEF TypeOK
    <3>2. Len(a) \in Nat /\ Len(b) \in Nat
      BY <1>3
    <3>3. addr + Len(a) \in Nat /\ xmbAddr + Len(b) \in Nat
      BY <3>1, <3>2
    <3>4. QED
      BY <3>3
  <2>2. i' \in 1 .. Len(call'.msgs) + 1
    BY <1>2
  <2>3. QED
    BY <1>1, <1>2, <1>3, <1>4, <2>1, <2>2 DEF TypeOK
<1>6. CursorsCount'
  <2>1. /\ call.base \in Nat /\ call.xmbBase \in Nat
        /\ Len(out) \in Nat /\ Len(xmb) \in Nat
    BY <1>1, CallFacts
  <2>2. addr = call.base + Len(out) /\ xmbAddr = call.xmbBase + Len(xmb)
    BY <1>1 DEF CursorsCount
  <2>3. /\ addr + Len(a) = call.base + (Len(out) + Len(a))
        /\ xmbAddr + Len(b) = call.xmbBase + (Len(xmb) + Len(b))
    <3>1. \A x, y, z \in Nat : (x + y) + z = x + (y + z)
      OBVIOUS
    <3>2. (call.base + Len(out)) + Len(a) = call.base + (Len(out) + Len(a))
      BY <1>3, <2>1, <3>1, SMTT(30)
    <3>3. (call.xmbBase + Len(xmb)) + Len(b) = call.xmbBase + (Len(xmb) + Len(b))
      BY <1>3, <2>1, <3>1, SMTT(30)
    <3>4. QED
      BY <2>2, <3>2, <3>3, Zenon
  <2>4. QED
    BY <1>3, <2>3, Zenon DEF CursorsCount
<1>7. OffsetsKnown' /\ WordsWritten'
  BY <1>2, <1>4 DEF OffsetsKnown, WordsWritten
<1>8. TextsReadBack'
  <2>1. ASSUME NEW k \in 1..i PROVE Found(k, offsets[k])' = Stored(call.msgs[k])'
    <3>1. CASE k = i
      <4>1. k \in 1..Len(call.msgs)
        BY <1>2
      <4>2. Found(k, o)' = Stored(call.msgs[k])'
        BY <3>1, <4>1
      <4>3. offsets'[k] = o
        BY <1>4, <3>1
      <4>4. QED
        BY <4>2, <4>3 DEF Found, Slice, ToXmb
    <3>2. CASE k # i
      <4>1. k \in 1..Len(offsets) /\ offsets'[k] = offsets[k]
        BY <1>2, <1>4, <3>2, SMT
      <4>2. offsets[k] \in Nat
        BY <1>1, <4>1, CallFacts
      <4>3. PICK p \in Nat : p = offsets[k]
        BY <4>2
      <4>4. Found(k, p)' = Stored(call.msgs[k])'
        BY <4>1, <4>3, OldTextsStay
      <4>5. offsets'[k] = p
        BY <4>1, <4>3
      <4>6. QED
        BY <4>4, <4>5 DEF Found, Slice, ToXmb
    <3>3. QED
      BY <3>1, <3>2
  <2>2. QED
    BY <1>4, <2>1 DEF TextsReadBack
<1>9. RamTextsAligned'
  <2>1. ASSUME call.padding, NEW k \in 1..i, ~call.region, ~ToXmb(k)
        PROVE  offsets'[k] % 2 = 0
    <3>1. CASE k = i
      BY <1>4, <2>1, <3>1
    <3>2. CASE k # i
      <4>1. k \in 1..Len(offsets) /\ offsets'[k] = offsets[k]
        BY <1>2, <1>4, <3>2
      <4>2. k \in DOMAIN offsets
        BY <1>1, <4>1, CallFacts
      <4>3. QED
        BY <1>1, <2>1, <4>1, <4>2 DEF RamTextsAligned
    <3>3. QED
      BY <3>1, <3>2
  <2>2. QED
    BY <1>2, <1>4, <2>1 DEF RamTextsAligned, ToXmb
<1>10. QED
  BY <1>5, <1>6, <1>7, <1>8, <1>9 DEF IInv

(* Nothing appended is the empty sequence appended.                        *)
LEMMA NothingAppended ==
  ASSUME NEW s \in Seq(Bytes)
  PROVE  s = s \o <<>> /\ <<>> \in Seq(Bytes) /\ Len(<<>>) = 0
BY ConcatEmptySeq, EmptySeq

(* A text whose copy an earlier one made: it has that one's offset.        *)
LEMMA ShareTextStep == IInv /\ ShareText => IInv'
<1> SUFFICES ASSUME IInv, ShareText PROVE IInv'
  OBVIOUS
<1>1. /\ AtText /\ UNCHANGED <<call, phase, out, addr, xmb, xmbAddr, region>>
      /\ i' = i + 1
  BY DEF ShareText
<1>2. PICK j \in Sharers(i) : offsets' = Append(offsets, offsets[j])
  BY DEF ShareText
<1>3. TypeOK
  BY DEF IInv
<1>4. /\ i \in 1..Len(call.msgs) /\ Len(offsets) = i - 1
      /\ addr \in Nat /\ xmbAddr \in Nat
  BY <1>1, <1>3, CallFacts DEF AtText, IInv, TypeOK, OffsetsKnown
<1>5. /\ j \in 1..Len(offsets) /\ j \in 1..Len(call.msgs)
      /\ (ToXmb(j) <=> ToXmb(i)) /\ call.msgs[j] = call.msgs[i]
  BY <1>3, <1>4, CallFacts DEF Sharers
<1>6. offsets[j] \in Nat /\ j \in DOMAIN offsets
  BY <1>3, <1>5, CallFacts
<1>7. out \in Seq(Bytes) /\ xmb \in Seq(Bytes) /\ region \in Seq(Bytes)
  BY <1>3 DEF TypeOK
<1>8. ASSUME NEW k \in 1..Len(call.msgs), k = i, NEW o \in Nat, o = offsets[j]
      PROVE  Found(k, o)' = Stored(call.msgs[k])'
  <2>1. Found(j, offsets[j]) = Stored(call.msgs[j])
    BY <1>6 DEF IInv, TextsReadBack
  <2>2. (ToXmb(k) <=> ToXmb(j)) /\ call.msgs[k] = call.msgs[j]
    BY <1>5, <1>8
  <2>3. Found(k, o) = Found(j, offsets[j])
    BY <1>8, <2>2 DEF Found
  <2>4. Found(k, o) = Stored(call.msgs[k])
    BY <2>1, <2>2, <2>3
  <2>5. /\ out' = out \o <<>> /\ xmb' = xmb \o <<>> /\ region' = region \o <<>>
        /\ <<>> \in Seq(Bytes) /\ call' = call
    BY <1>1, <1>7, NothingAppended
  <2>6. QED
    BY <1>3, <1>8, <2>4, <2>5, FoundStays
<1>9. call.padding /\ ~call.region /\ ~ToXmb(i) => offsets[j] % 2 = 0
  BY <1>5, <1>6 DEF IInv, RamTextsAligned
<1>10. PICK o \in Nat : o = offsets[j]
  BY <1>6
<1>11. \A k \in 1..Len(call.msgs) : k = i => Found(k, o)' = Stored(call.msgs[k])'
  BY <1>8, <1>10
<1>12. /\ out' = out \o <<>> /\ xmb' = xmb \o <<>> /\ region' = region \o <<>>
       /\ <<>> \in Seq(Bytes)
       /\ addr' = addr + Len(<<>>) /\ xmbAddr' = xmbAddr + Len(<<>>)
  <2>1. addr = addr + 0 /\ xmbAddr = xmbAddr + 0
    BY <1>4
  <2>2. QED
    BY <1>1, <1>7, <2>1, NothingAppended
<1>13. UNCHANGED <<call, phase>> /\ offsets' = Append(offsets, o)
  BY <1>1, <1>2, <1>10
<1>14. QED
  BY <1>1, <1>9, <1>10, <1>11, <1>12, <1>13, TextMet

(* A new text's copy at the end of the format 2 region.                    *)
LEMMA TextToRegionStep == IInv /\ TextToRegion => IInv'
<1> SUFFICES ASSUME IInv, TextToRegion PROVE IInv'
  OBVIOUS
<1> DEFINE b == Stored(Text)
           o == call.regionBase + Len(region)
<1>1. /\ AtText /\ UNCHANGED <<call, phase, out, addr, xmb, xmbAddr>>
      /\ i' = i + 1 /\ call.region
      /\ offsets' = Append(offsets, o) /\ region' = region \o b
  BY DEF TextToRegion
<1>2. TypeOK
  BY DEF IInv
<1>3. i \in 1..Len(call.msgs) /\ addr \in Nat /\ xmbAddr \in Nat
  BY <1>1, <1>2, CallFacts DEF AtText, TypeOK
<1>4. /\ out \in Seq(Bytes) /\ xmb \in Seq(Bytes) /\ region \in Seq(Bytes)
      /\ b \in Seq(Bytes) /\ Len(region) \in Nat /\ call.regionBase \in Nat
  BY <1>2, <1>3, CallFacts, StoredBytes DEF TypeOK, Text
<1>5. o \in Nat /\ o - call.regionBase = Len(region)
  BY <1>4
<1>6. Slice(region \o b, Len(region), Len(b)) = b
  BY <1>4, SliceAppended
<1>7. ASSUME NEW k \in 1..Len(call.msgs), k = i, NEW p \in Nat, p = o
      PROVE  Found(k, p)' = Stored(call.msgs[k])'
  <2>1. Stored(call.msgs[k])' = b
    BY <1>1, <1>7 DEF Stored, Obfuscated, Text
  <2>2. p - call.regionBase = Len(region)
    BY <1>5, <1>7
  <2> HIDE DEF b, o
  <2>3. Found(k, p)' = Slice(region \o b, Len(region), Len(b))
    BY <1>1, <2>1, <2>2 DEF Found, Slice
  <2>4. QED
    BY <1>6, <2>1, <2>3
<1>8. /\ out' = out \o <<>> /\ xmb' = xmb \o <<>> /\ <<>> \in Seq(Bytes)
      /\ addr' = addr + Len(<<>>) /\ xmbAddr' = xmbAddr + Len(<<>>)
  <2>1. addr = addr + 0 /\ xmbAddr = xmbAddr + 0
    BY <1>3
  <2>2. QED
    BY <1>1, <1>4, <2>1, NothingAppended
<1> HIDE DEF b, o
<1>9. PICK p \in Nat : p = o
  BY <1>5
<1>10. \A k \in 1..Len(call.msgs) : k = i => Found(k, p)' = Stored(call.msgs[k])'
  BY <1>7, <1>9
<1>11. QED
  BY <1>1, <1>4, <1>8, <1>9, <1>10, TextMet

(* A new text's copy in the database, behind its pad.                      *)
LEMMA TextToRamStep == IInv /\ TextToRam => IInv'
<1> SUFFICES ASSUME IInv, TextToRam PROVE IInv'
  OBVIOUS
<1> DEFINE b == Stored(Text)
<1>1. /\ AtText /\ UNCHANGED <<call, phase, xmb, xmbAddr, region>>
      /\ i' = i + 1 /\ ~call.region /\ ~ToXmb(i)
      /\ offsets' = Append(offsets, Padded) /\ out' = (out \o Pad) \o b
      /\ addr' = Padded + Len(b)
  BY DEF TextToRam
<1>2. TypeOK
  BY DEF IInv
<1>3. i \in 1..Len(call.msgs) /\ addr \in Nat /\ xmbAddr \in Nat
  BY <1>1, <1>2, CallFacts DEF AtText, TypeOK
<1>4. /\ out \in Seq(Bytes) /\ xmb \in Seq(Bytes) /\ region \in Seq(Bytes)
      /\ b \in Seq(Bytes) /\ call.base \in Nat
  BY <1>2, <1>3, CallFacts, StoredBytes DEF TypeOK, Text
<1>5. /\ Pad \in Seq(Bytes) /\ Padded \in Nat /\ Padded = addr + Len(Pad)
      /\ call.padding => Padded % 2 = 0
  BY <1>2, PadCounted
<1> HIDE DEF b
<1>6. /\ out \o Pad \in Seq(Bytes) /\ Len(out \o Pad) = Len(out) + Len(Pad)
      /\ Pad \o b \in Seq(Bytes) /\ Len(Pad \o b) = Len(Pad) + Len(b)
      /\ Len(out) \in Nat /\ Len(Pad) \in Nat /\ Len(b) \in Nat
      /\ (out \o Pad) \o b = out \o (Pad \o b)
  <2>1. /\ out \o Pad \in Seq(Bytes) /\ Len(out \o Pad) = Len(out) + Len(Pad)
        /\ Pad \o b \in Seq(Bytes) /\ Len(Pad \o b) = Len(Pad) + Len(b)
        /\ Len(out) \in Nat /\ Len(Pad) \in Nat /\ Len(b) \in Nat
    BY <1>4, <1>5, Concat
  <2>2. (out \o Pad) \o b = out \o (Pad \o b)
    <3>1. out \in Seq(Bytes) /\ Pad \in Seq(Bytes) /\ b \in Seq(Bytes)
      BY <1>4, <1>5
    <3> HIDE DEF Bytes, Pad
    <3>2. QED
      BY ONLY <3>1, ConcatAssociative
  <2>3. QED
    BY <2>1, <2>2
<1>7. Padded - call.base = Len(out \o Pad)
  <2>1. addr = call.base + Len(out)
    BY DEF IInv, CursorsCount
  <2>2. QED
    BY <1>4, <1>5, <1>6, <2>1, SMTT(30)
<1>8. Slice((out \o Pad) \o b, Len(out \o Pad), Len(b)) = b
  BY <1>4, <1>6, SliceAppended
<1>9. PICK p \in Nat : p = Padded
  BY <1>5
<1>10. ASSUME NEW k \in 1..Len(call.msgs), k = i
       PROVE  Found(k, p)' = Stored(call.msgs[k])'
  <2>1. Stored(call.msgs[k])' = b
    BY <1>1, <1>10 DEF Stored, Obfuscated, Text, b
  <2>2. p - call.base = Len(out \o Pad)
    BY <1>7, <1>9
  <2>3. ~ToXmb(k)' /\ ~call'.region
    BY <1>1, <1>10 DEF ToXmb
  <2>4. Found(k, p)' = Slice((out \o Pad) \o b, Len(out \o Pad), Len(b))
    BY <1>1, <2>1, <2>2, <2>3 DEF Found, Slice
  <2>5. QED
    BY <1>8, <2>1, <2>4
<1>11. /\ out' = out \o (Pad \o b)
       /\ xmb' = xmb \o <<>> /\ region' = region \o <<>> /\ <<>> \in Seq(Bytes)
       /\ addr' = addr + Len(Pad \o b) /\ xmbAddr' = xmbAddr + Len(<<>>)
  <2>1. xmbAddr = xmbAddr + 0
    BY <1>3
  <2>2. Padded + Len(b) = addr + (Len(Pad) + Len(b))
    BY <1>3, <1>5, <1>6
  <2>3. xmb' = xmb \o <<>> /\ region' = region \o <<>> /\ <<>> \in Seq(Bytes)
    BY <1>1, <1>4, NothingAppended
  <2>4. QED
    BY <1>1, <1>6, <2>1, <2>2, <2>3, EmptySeq
<1>12. QED
  BY <1>1, <1>5, <1>6, <1>9, <1>10, <1>11, TextMet

(* A new text's copy at the end of 0.XMB; the database gets the pad alone. *)
LEMMA TextToXmbStep == IInv /\ TextToXmb => IInv'
<1> SUFFICES ASSUME IInv, TextToXmb PROVE IInv'
  OBVIOUS
<1> DEFINE b == Stored(Text)
<1>1. /\ AtText /\ UNCHANGED <<call, phase, region>>
      /\ i' = i + 1 /\ ToXmb(i)
      /\ offsets' = Append(offsets, xmbAddr) /\ xmb' = xmb \o b
      /\ xmbAddr' = xmbAddr + Len(b)
      /\ out' = out \o Pad /\ addr' = Padded
  BY DEF TextToXmb
<1>2. TypeOK
  BY DEF IInv
<1>3. i \in 1..Len(call.msgs) /\ addr \in Nat /\ xmbAddr \in Nat
  BY <1>1, <1>2, CallFacts DEF AtText, TypeOK
<1>4. /\ out \in Seq(Bytes) /\ xmb \in Seq(Bytes) /\ region \in Seq(Bytes)
      /\ b \in Seq(Bytes) /\ call.xmbBase \in Nat /\ Len(xmb) \in Nat
  BY <1>2, <1>3, CallFacts, StoredBytes DEF TypeOK, Text
<1>5. Pad \in Seq(Bytes) /\ Padded = addr + Len(Pad)
  BY <1>2, PadCounted
<1> HIDE DEF b
<1>6. ~call.region
  <2>1. IsTable(call) /\ call.dump
    BY <1>1, <1>2, CallFacts DEF ToXmb
  <2>2. QED
    BY <2>1, Zenon DEF IsTable
<1>7. xmbAddr - call.xmbBase = Len(xmb)
  <2>1. xmbAddr = call.xmbBase + Len(xmb)
    BY DEF IInv, CursorsCount
  <2>2. QED
    BY <1>4, <2>1
<1>8. Slice(xmb \o b, Len(xmb), Len(b)) = b
  BY <1>4, SliceAppended
<1>9. PICK p \in Nat : p = xmbAddr
  BY <1>3
<1>10. ASSUME NEW k \in 1..Len(call.msgs), k = i
       PROVE  Found(k, p)' = Stored(call.msgs[k])'
  <2>1. Stored(call.msgs[k])' = b
    BY <1>1, <1>10 DEF Stored, Obfuscated, Text, b
  <2>2. p - call.xmbBase = Len(xmb)
    BY <1>7, <1>9
  <2>3. ToXmb(k)' /\ ~call'.region
    BY <1>1, <1>6, <1>10 DEF ToXmb
  <2>4. Found(k, p)' = Slice(xmb \o b, Len(xmb), Len(b))
    BY <1>1, <2>1, <2>2, <2>3 DEF Found, Slice
  <2>5. QED
    BY <1>8, <2>1, <2>4
<1>11. /\ region' = region \o <<>> /\ <<>> \in Seq(Bytes)
       /\ offsets' = Append(offsets, p)
  BY <1>1, <1>4, <1>9, NothingAppended
<1>12. QED
  BY <1>1, <1>4, <1>5, <1>9, <1>10, <1>11, TextMet

-----------------------------------------------------------------------------
(* The lookup words.                                                       *)

(* Bytes added behind the texts: everything found before is found still.   *)
LEMMA TailAdded ==
  ASSUME IInv, UNCHANGED <<call, xmb, region, offsets>>,
         NEW a \in Seq(Bytes), out' = out \o a
  PROVE  TextsReadBack'
<1>1. TypeOK
  BY DEF IInv
<1>2. /\ xmb' = xmb \o <<>> /\ region' = region \o <<>> /\ <<>> \in Seq(Bytes)
      /\ Len(offsets) \in Nat /\ DOMAIN offsets = 1..Len(offsets)
  BY <1>1, NothingAppended, CallFacts DEF TypeOK
<1>3. ASSUME NEW k \in 1..Len(offsets) PROVE Found(k, offsets[k])' = Stored(call.msgs[k])'
  <2>1. PICK p \in Nat : p = offsets[k]
    BY <1>1, CallFacts
  <2>2. Found(k, p)' = Stored(call.msgs[k])'
    BY <1>2, <2>1, OldTextsStay
  <2>3. offsets'[k] = p
    BY <2>1
  <2>4. QED
    BY <2>2, <2>3 DEF Found, Slice, ToXmb
<1>4. QED
  BY <1>2, <1>3 DEF TextsReadBack

(* The texts are done; the table of words begins behind its pad.           *)
LEMMA StartWordsStep == IInv /\ StartWords => IInv'
<1> SUFFICES ASSUME IInv, StartWords PROVE IInv'
  OBVIOUS
<1>1. /\ phase = "texts" /\ phase' = "words" /\ i > Len(call.msgs) /\ i' = 1
      /\ out' = out \o Pad /\ addr' = Padded
      /\ UNCHANGED <<call, xmb, xmbAddr, region, offsets>>
  BY DEF StartWords
<1>2. TypeOK /\ CursorsCount /\ OffsetsKnown /\ RamTextsAligned
  BY DEF IInv
<1>3. /\ Pad \in Seq(Bytes) /\ Padded \in Nat /\ Padded = addr + Len(Pad)
      /\ call.padding => Padded % 2 = 0
  BY <1>2, PadCounted
<1>4. /\ out' \in Seq(Bytes) /\ Len(out') = Len(out) + Len(Pad)
      /\ Len(out) \in Nat /\ Len(Pad) \in Nat /\ Len(out') \in Nat
  BY <1>1, <1>2, <1>3, Concat DEF TypeOK
<1>5. Len(call.msgs) \in Nat /\ Len(offsets) = Len(call.msgs)
  BY <1>1, <1>2, CallFacts DEF TypeOK, OffsetsKnown
<1>6. TypeOK'
  BY <1>1, <1>2, <1>3, <1>4, <1>5 DEF TypeOK
<1>7. CursorsCount'
  <2>1. addr = call.base + Len(out) /\ call.base \in Nat
    BY <1>2, CallFacts DEF CursorsCount
  <2>2. addr' = call.base + Len(out')
    BY <1>1, <1>3, <1>4, <2>1, SMT
  <2>3. QED
    BY <1>1, <1>2, <2>2 DEF CursorsCount
<1>8. OffsetsKnown' /\ WordsWritten'
  BY <1>1, <1>4, <1>5 DEF OffsetsKnown, WordsWritten, WordsFrom
<1>9. TextsReadBack'
  BY <1>1, <1>3, TailAdded
<1>10. RamTextsAligned'
  BY <1>1, <1>2, <1>3 DEF RamTextsAligned, ToXmb
<1>11. QED
  BY <1>6, <1>7, <1>8, <1>9, <1>10 DEF IInv

(* One word more.                                                          *)
LEMMA WriteWordStep == IInv /\ WriteWord => IInv'
<1> SUFFICES ASSUME IInv, WriteWord PROVE IInv'
  OBVIOUS
<1> DEFINE w == Word(offsets[i])
<1>1. /\ phase = "words" /\ i <= Len(call.msgs) /\ i' = i + 1
      /\ out' = out \o w /\ addr' = addr + 2
      /\ UNCHANGED <<call, phase, xmb, xmbAddr, region, offsets>>
  BY DEF WriteWord
<1>2. TypeOK /\ CursorsCount /\ OffsetsKnown /\ WordsWritten /\ RamTextsAligned
  BY DEF IInv
<1>3. /\ Len(call.msgs) \in Nat /\ Len(offsets) = Len(call.msgs)
      /\ i \in 1..Len(offsets) /\ i \in Nat /\ addr \in Nat
  BY <1>1, <1>2, CallFacts DEF TypeOK, OffsetsKnown
<1>4. offsets[i] \in Nat
  BY <1>2, <1>3, CallFacts
<1>5. w \in Seq(Bytes) /\ Len(w) = 2 /\ w = <<w[1], w[2]>>
  BY <1>4, WordBytes
<1> HIDE DEF w
<1>6. /\ out' \in Seq(Bytes) /\ Len(out') = Len(out) + 2
      /\ Len(out) \in Nat
      /\ \A k \in 1..Len(out) : out'[k] = out[k]
      /\ out'[Len(out) + 1] = w[1] /\ out'[Len(out) + 2] = w[2]
  <2>1. /\ out' \in Seq(Bytes) /\ Len(out') = Len(out) + Len(w)
        /\ Len(out) \in Nat
        /\ \A k \in 1..Len(out) : out'[k] = out[k]
        /\ \A k \in 1..Len(w) : out'[Len(out) + k] = w[k]
    <3>1. out \in Seq(Bytes)
      BY <1>2 DEF TypeOK
    <3>2. /\ out \o w \in Seq(Bytes) /\ Len(out \o w) = Len(out) + Len(w)
          /\ Len(out) \in Nat
          /\ \A k \in 1..Len(out) : (out \o w)[k] = out[k]
          /\ \A k \in 1..Len(w) : (out \o w)[Len(out) + k] = w[k]
      <4>1. w \in Seq(Bytes)
        BY <1>5, Zenon
      <4>2. QED
        BY <3>1, <4>1, Concat, SMTT(60)
    <3>3. QED
      BY <1>1, <3>2, Zenon
  <2>2. 1 \in 1..Len(w) /\ 2 \in 1..Len(w)
    BY <1>5
  <2>3. QED
    BY <1>5, <2>1, <2>2
<1>7. TypeOK'
  BY <1>1, <1>2, <1>3, <1>6 DEF TypeOK
<1>8. CursorsCount'
  <2>1. addr = call.base + Len(out) /\ call.base \in Nat
    BY <1>2, CallFacts DEF CursorsCount
  <2>2. addr' = call.base + Len(out')
    BY <1>1, <1>6, <2>1, SMT
  <2>3. QED
    BY <1>1, <1>2, <2>2 DEF CursorsCount
<1>9. OffsetsKnown'
  BY <1>1, <1>2 DEF OffsetsKnown
<1>10. WordsWritten'
  <2>1. WordsFrom' = WordsFrom /\ WordsFrom = Len(out) - 2 * (i - 1) /\ WordsFrom >= 0
    BY <1>1, <1>2, <1>3, <1>6 DEF WordsWritten, WordsFrom
  <2>2. WordsFrom \in Nat
    BY <1>3, <1>6, <2>1
  <2>3. ASSUME NEW k \in 1..i
        PROVE  <<out'[WordsFrom + 2 * k - 1], out'[WordsFrom + 2 * k]>> = Word(offsets[k])
    <3>1. CASE k = i
      <4>1. WordsFrom + 2 * k - 1 = Len(out) + 1 /\ WordsFrom + 2 * k = Len(out) + 2
        BY <1>3, <1>6, <2>1, <3>1
      <4>2. QED
        BY <1>5, <1>6, <3>1, <4>1 DEF w
    <3>2. CASE k # i
      <4>1. k \in 1 .. i - 1
        BY <1>3, <3>2
      <4>2. /\ WordsFrom + 2 * k - 1 \in 1..Len(out)
            /\ WordsFrom + 2 * k \in 1..Len(out)
        BY <1>3, <1>6, <2>1, <2>2, <4>1
      <4>3. <<out[WordsFrom + 2 * k - 1], out[WordsFrom + 2 * k]>> = Word(offsets[k])
        BY <1>1, <1>2, <4>1 DEF WordsWritten
      <4>4. QED
        BY <1>6, <4>2, <4>3
    <3>3. QED
      BY <3>1, <3>2
  <2>4. ASSUME NEW k \in 1..i
        PROVE  <<out'[WordsFrom' + 2 * k - 1], out'[WordsFrom' + 2 * k]>>
                 = Word(offsets[k])'
    <3>1. Word(offsets[k])' = Word(offsets[k])
      BY <1>1 DEF Word
    <3>2. WordsFrom' = WordsFrom
      BY <2>1
    <3>3. QED
      BY <2>3, <3>1, <3>2, Zenon
  <2>5. i' - 1 = i
    BY <1>1, <1>3
  <2>6. QED
    BY <2>1, <2>4, <2>5 DEF WordsWritten
<1>11. TextsReadBack'
  BY <1>1, <1>5, TailAdded
<1>12. RamTextsAligned'
  <2>1. call.padding => addr % 2 = 0
    BY <1>1, <1>2 DEF RamTextsAligned
  <2>2. call.padding => (addr + 2) % 2 = 0
    BY <1>3, <2>1
  <2>3. QED
    BY <1>1, <1>2, <2>2 DEF RamTextsAligned, ToXmb
<1>13. QED
  BY <1>7, <1>8, <1>9, <1>10, <1>11, <1>12 DEF IInv

(* The call returns, or has returned: nothing is written.                  *)
LEMMA RestStep ==
  ASSUME IInv,
         UNCHANGED <<call, i, out, addr, xmb, xmbAddr, region, offsets>>,
         \/ phase' = phase
         \/ phase = "words" /\ i > Len(call.msgs) /\ phase' = "done"
  PROVE  IInv'
<1>1. TypeOK /\ CursorsCount /\ OffsetsKnown /\ WordsWritten /\ RamTextsAligned
      /\ TextsReadBack
  BY DEF IInv
<1>2. Len(call.msgs) \in Nat
  BY <1>1, CallFacts
<1>3. TypeOK' /\ CursorsCount'
  BY <1>1 DEF TypeOK, CursorsCount
<1>4. OffsetsKnown'
  <2>1. CASE phase' = phase
    BY <1>1, <2>1 DEF OffsetsKnown
  <2>2. CASE phase = "words" /\ i > Len(call.msgs) /\ phase' = "done"
    <3>1. i = Len(call.msgs) + 1
      BY <1>1, <1>2, <2>2 DEF TypeOK
    <3>2. QED
      BY <1>1, <2>2, <3>1 DEF OffsetsKnown
  <2>3. QED
    BY <2>1, <2>2
<1>5. WordsWritten'
  BY <1>1 DEF WordsWritten, WordsFrom, Word
<1>6. RamTextsAligned'
  BY <1>1 DEF RamTextsAligned, ToXmb
<1>7. TextsReadBack'
  BY <1>1, SMTT(30) DEF TextsReadBack, Found, Slice, ToXmb, Stored, Obfuscated
<1>8. QED
  BY <1>3, <1>4, <1>5, <1>6, <1>7 DEF IInv

-----------------------------------------------------------------------------
(* The theorems.                                                           *)

(* The invariant holds when emit_messages is entered.                      *)
LEMMA InitInv == Init => IInv
<1> SUFFICES ASSUME Init PROVE IInv
  OBVIOUS
<1>1. IsTable(call)
  BY TablesAssumption DEF Init
<1>2. call.base \in Nat /\ call.xmbBase \in Nat
  BY <1>1, Zenon DEF IsTable
<1>3. Len(call.msgs) \in Nat
  <2>1. call.msgs \in Seq(Seq(0..255))
    BY <1>1, Zenon DEF IsTable
  <2>2. QED
    BY <2>1, LenProperties, Zenon
<1>4. TypeOK
  BY <1>2, <1>3 DEF Init, TypeOK
<1>5. CursorsCount /\ OffsetsKnown /\ WordsWritten
  BY <1>2 DEF Init, CursorsCount, OffsetsKnown, WordsWritten
<1>6. TextsReadBack /\ RamTextsAligned
  BY DEF Init, TextsReadBack, RamTextsAligned
<1>7. QED
  BY <1>4, <1>5, <1>6 DEF IInv

(* It is kept by every step and so holds throughout every call.            *)
LEMMA Invariance == Spec => []IInv
<1>1. IInv /\ [Next]_vars => IInv'
  <2> SUFFICES ASSUME IInv, [Next]_vars PROVE IInv'
    OBVIOUS
  <2>1. CASE Return \/ Returned \/ UNCHANGED vars
    BY <2>1, RestStep DEF Return, Returned, vars
  <2>2. QED
    BY <2>1, ShareTextStep, TextToRegionStep, TextToRamStep, TextToXmbStep,
       StartWordsStep, WriteWordStep DEF Next
<1>2. QED
  BY <1>1, InitInv, PTL DEF Spec

(* For every call, at every moment, each text met so far, shared or not,   *)
(* is found whole at its offset: in the region, in 0.XMB or in the         *)
(* database, as the call's flags name it.                                  *)
THEOREM TextsFound == Spec => []TextsReadBack
<1>1. IInv => TextsReadBack
  BY DEF IInv
<1>2. QED
  BY <1>1, Invariance, PTL

(* On a padding target no text in RAM and no lookup table of any call is   *)
(* at an odd address, a duplicate's included.                              *)
THEOREM TextsAligned == Spec => []RamTextsAligned
<1>1. IInv => RamTextsAligned
  BY DEF IInv
<1>2. QED
  BY <1>1, Invariance, PTL

(* A finished table's words, read as the target reads them, are the        *)
(* offsets cut to 16 bits: what an offset past 64K is then taken for.      *)
WordsAreOffsets ==
  phase = "done" => \A k \in DOMAIN call.msgs : LookupWord(k) = offsets[k] % 65536

(* The lookup word of every text is its offset cut to 16 bits              *)
(* (emit_msg.c:118).                                                       *)
THEOREM WordsCutOffsets == Spec => []WordsAreOffsets
<1>1. IInv => WordsAreOffsets
  <2> SUFFICES ASSUME IInv, phase = "done", NEW k \in DOMAIN call.msgs
               PROVE  LookupWord(k) = offsets[k] % 65536
    BY DEF WordsAreOffsets
  <2>1. TypeOK /\ OffsetsKnown /\ WordsWritten
    BY DEF IInv
  <2>2. /\ Len(call.msgs) \in Nat /\ DOMAIN call.msgs = 1..Len(call.msgs)
        /\ Len(offsets) = Len(call.msgs) /\ i - 1 = Len(call.msgs)
        /\ Len(out) \in Nat
    BY <2>1, CallFacts DEF OffsetsKnown
  <2>3. k \in 1..Len(call.msgs) /\ k \in 1 .. i - 1
    BY <2>2
  <2>4. offsets[k] \in Nat
    BY <2>1, <2>2, <2>3, CallFacts
  <2> DEFINE at == Len(out) - 2 * Len(call.msgs) + 2 * (k - 1) + 1
             w == Word(offsets[k])
  <2>5. at = WordsFrom + 2 * k - 1 /\ at + 1 = WordsFrom + 2 * k
    <3>1. k \in Nat /\ i = Len(call.msgs) + 1
      BY <2>1, <2>2, <2>3 DEF OffsetsKnown
    <3>2. QED
      BY <2>2, <3>1, SMTT(30) DEF WordsFrom
  <2>6. <<out[WordsFrom + 2 * k - 1], out[WordsFrom + 2 * k]>> = w
    BY <2>1, <2>3 DEF WordsWritten
  <2> HIDE DEF at
  <2>7. out[at] = w[1] /\ out[at + 1] = w[2]
    BY <2>5, <2>6
  <2>8. IF call.bigEndian THEN 256 * w[1] + w[2] = offsets[k] % 65536
        ELSE w[1] + 256 * w[2] = offsets[k] % 65536
    BY <2>4, WordBytes
  <2>9. LookupWord(k) = IF call.bigEndian THEN 256 * out[at] + out[at + 1]
                        ELSE out[at] + 256 * out[at + 1]
    BY DEF LookupWord, at
  <2> HIDE DEF w
  <2>10. CASE call.bigEndian
    BY <2>7, <2>8, <2>9, <2>10
  <2>11. CASE ~call.bigEndian
    BY <2>7, <2>8, <2>9, <2>11
  <2>12. QED
    BY <2>10, <2>11
<1>2. QED
  BY <1>1, Invariance, PTL

(* As long as every offset fits a word, the finished words lead to the     *)
(* texts: what the 64K checks of the back end owe this table, and what     *)
(* nothing checks of the append cursor of -X.                              *)
OffsetsFit == \A k \in DOMAIN offsets : offsets[k] < 65536

(* While the offsets fit their 16 bits, each lookup word leads to its      *)
(* own text, shared or not, in the database, in 0.XMB or in the region.    *)
THEOREM LookupsFound == Spec => [](OffsetsFit => LookupsReadBack)
<1>1. IInv /\ WordsAreOffsets => (OffsetsFit => LookupsReadBack)
  <2> SUFFICES ASSUME IInv, WordsAreOffsets, OffsetsFit, phase = "done",
                      NEW k \in DOMAIN call.msgs
               PROVE  Found(k, LookupWord(k)) = Stored(call.msgs[k])
    BY DEF LookupsReadBack
  <2>1. TypeOK /\ OffsetsKnown /\ TextsReadBack
    BY DEF IInv
  <2>2. k \in DOMAIN offsets /\ offsets[k] \in Nat
    BY <2>1, CallFacts DEF OffsetsKnown
  <2>3. offsets[k] < 65536
    BY <2>2 DEF OffsetsFit
  <2>4. offsets[k] % 65536 = offsets[k]
    BY <2>2, <2>3, SMT
  <2>5. LookupWord(k) = offsets[k]
    BY <2>4 DEF WordsAreOffsets
  <2>6. Found(k, offsets[k]) = Stored(call.msgs[k])
    BY <2>1, <2>2 DEF TextsReadBack
  <2>7. QED
    BY <2>5, <2>6
<1>2. QED
  BY <1>1, Invariance, WordsCutOffsets, PTL

-----------------------------------------------------------------------------
(* The bytes saved.                                                        *)

(* What the texts before each one would take without sharing.              *)
LEMMA LengthsAdd ==
  ASSUME TypeOK
  PROVE  /\ Lengths[1] = 0
         /\ \A k \in 1..Len(call.msgs) :
              /\ Lengths[k] \in Nat
              /\ Lengths[k + 1] = Lengths[k] + Len(Stored(call.msgs[k]))
<1> DEFINE n == Len(call.msgs)
           Value(k, v) == v + Len(Stored(call.msgs[k]))
           step == [x \in (1..n) \X Nat |-> Value(x[1], x[2])]
           Eq(f) == f = [k \in 1 .. n + 1 |-> IF k = 1 THEN 0
                                              ELSE Value(k - 1, f[k - 1])]
           g == Lengths
<1>1. n \in Nat /\ \A k \in 1..n : Len(Stored(call.msgs[k])) \in Nat
  BY CallFacts, StoredBytes DEF TypeOK
<1>2. \A k \in 1..n : \A v \in Nat : Value(k, v) \in Nat
  BY <1>1
<1>3. /\ step \in [(1..n) \X Nat -> Nat]
      /\ \A k \in 1..n : \A v \in Nat : step[<<k, v>>] = Value(k, v)
  <2> HIDE DEF Value
  <2>1. QED
    BY <1>2
<1> HIDE DEF step
<1>4. PICK f \in [1 .. n + 1 -> Nat] :
         f[1] = 0 /\ \A k \in 1..n : f[k + 1] = step[<<k, f[k]>>]
  <2> HIDE DEF n
  <2>1. 0 \in Nat
    OBVIOUS
  <2>2. \E f : IsForward(f, n, Nat, 0, step)
    BY <1>1, <1>3, <2>1, ForwardRecursion, Zenon
  <2>3. QED
    BY <2>2 DEF IsForward
<1>5. \A k \in 1..n : f[k] \in Nat /\ f[k + 1] = Value(k, f[k])
  <2> HIDE DEF Value, n
  <2>1. \A k \in 1..n : k \in 1 .. n + 1
    BY <1>1
  <2>2. \A k \in 1..n : f[k] \in Nat
    BY <1>4, <2>1
  <2>3. QED
    BY <1>3, <1>4, <2>2
<1>6. Eq(f)
  <2> HIDE DEF Value
  <2>1. ASSUME NEW k \in 1 .. n + 1
        PROVE  f[k] = IF k = 1 THEN 0 ELSE Value(k - 1, f[k - 1])
    <3>1. CASE k = 1
      BY <1>4, <3>1
    <3>2. CASE k # 1
      <4>1. k - 1 \in 1..n /\ k - 1 + 1 = k
        BY <1>1, <3>2
      <4>2. f[k - 1 + 1] = Value(k - 1, f[k - 1])
        BY <1>5, <4>1
      <4>3. QED
        BY <3>2, <4>1, <4>2
    <3>3. QED
      BY <3>1, <3>2
  <2>2. QED
    BY <1>4, <2>1
<1>7. Eq(g)
  BY <1>6, Zenon DEF Lengths
<1>8. g[1] = 0 /\ \A k \in 1..n : g[k + 1] = Value(k, g[k])
  <2> HIDE DEF Value, g
  <2>1. \A k \in 1 .. n + 1 : g[k] = IF k = 1 THEN 0 ELSE Value(k - 1, g[k - 1])
    BY <1>7, Zenon
  <2>2. ASSUME NEW k \in 1..n PROVE g[k + 1] = Value(k, g[k])
    <3>1. k + 1 \in 1 .. n + 1 /\ k + 1 # 1 /\ k + 1 - 1 = k
      BY <1>1
    <3>2. g[k + 1] = Value(k + 1 - 1, g[k + 1 - 1])
      BY <2>1, <3>1
    <3>3. QED
      BY <3>1, <3>2
  <2>3. 1 \in 1 .. n + 1
    BY <1>1
  <2>4. QED
    BY <2>1, <2>2, <2>3
<1>9. \A k \in 1 .. n + 1 : g[k] \in Nat
  <2> HIDE DEF Value, g
  <2> DEFINE U == {m \in Nat : m + 1 <= n + 1 => g[m + 1] \in Nat}
  <2>1. 0 \in U
    BY <1>8
  <2>2. ASSUME NEW m \in U PROVE m + 1 \in U
    <3> SUFFICES ASSUME m + 2 <= n + 1 PROVE g[m + 2] \in Nat
      OBVIOUS
    <3>1. m + 1 \in 1..n /\ m + 1 + 1 = m + 2
      BY <1>1
    <3>2. g[m + 1 + 1] = Value(m + 1, g[m + 1]) /\ g[m + 1] \in Nat
      BY <1>1, <1>8, <2>2, <3>1
    <3>3. QED
      BY <1>2, <3>1, <3>2
  <2>3. U \subseteq Nat
    OBVIOUS
  <2> HIDE DEF U
  <2>4. U = Nat
    BY <2>1, <2>2, <2>3, Induction
  <2>5. ASSUME NEW k \in 1 .. n + 1 PROVE g[k] \in Nat
    <3>1. k - 1 \in U /\ k - 1 + 1 = k /\ k - 1 + 1 <= n + 1
      BY <1>1, <2>4
    <3>2. QED
      BY <3>1 DEF U
  <2>6. QED
    BY <2>5
<1>10. QED
  <2> HIDE DEF g
  <2>1. \A k \in 1..n : k \in 1 .. n + 1
    BY <1>1
  <2>2. g[1] = 0 /\ \A k \in 1..n : /\ g[k] \in Nat
                                    /\ g[k + 1] = g[k] + Len(Stored(call.msgs[k]))
    BY <1>8, <1>9, <2>1
  <2>3. QED
    BY <2>2 DEF g

(* The counter of bytes saved is right.                                    *)
Savings == saved \in Nat /\ SavingsExact

(* A text met adds its length, to what is saved or to what is stored.      *)
LEMMA OneMoreText ==
  ASSUME IInv, Savings, AtText, UNCHANGED <<call, phase>>, i' = i + 1,
         NEW m \in Nat, NEW stored \in Nat, saved' = saved + m,
         m + stored = Len(Stored(Text)),
         NEW o, offsets' = Append(offsets, o),
         ~(call.padding \/ call.forced) =>
           Len(out)' + Len(xmb)' + Len(region)' =
             Len(out) + Len(xmb) + Len(region) + stored
  PROVE  Savings'
<1>1. TypeOK /\ OffsetsKnown
  BY DEF IInv
<1>2. i \in 1..Len(call.msgs) /\ Len(call.msgs) \in Nat /\ Len(offsets) = i - 1
  BY <1>1, CallFacts DEF TypeOK, OffsetsKnown, AtText
<1>3. Len(out) \in Nat /\ Len(xmb) \in Nat /\ Len(region) \in Nat
  BY <1>1, CallFacts
<1>4. Len(offsets') = i
  BY <1>1, <1>2 DEF TypeOK
<1>5. /\ Lengths[i] \in Nat
      /\ Lengths[i + 1] = Lengths[i] + Len(Stored(call.msgs[i]))
  BY <1>1, <1>2, LengthsAdd
<1>6. TotalLength = Lengths[i] /\ TotalLength' = Lengths[i + 1]
  <2>1. Lengths' = Lengths
    BY DEF Lengths, Stored, Obfuscated
  <2>2. QED
    BY <1>2, <1>4, <2>1 DEF TotalLength
<1>7. phase = "texts"
  BY DEF AtText
<1>8. saved' \in Nat
  BY DEF Savings
<1>9. SavingsExact'
  <2> SUFFICES ASSUME ~(call.padding \/ call.forced)
               PROVE  saved' = TotalLength' - (Len(out)' + Len(xmb)' + Len(region)')
    BY DEF SavingsExact
  <2>1. saved = TotalLength - (Len(out) + Len(xmb) + Len(region))
    BY <1>7 DEF Savings, SavingsExact
  <2>2. Len(Stored(call.msgs[i])) = m + stored
    BY DEF Text
  <2>3. QED
    BY <1>3, <1>5, <1>6, <2>1, <2>2, SMTT(30) DEF Savings
<1>10. QED
  BY <1>8, <1>9 DEF Savings

(* For every call, whatever is shared: the bytes reported as saved are     *)
(* those the table would have taken more, terminators included where a     *)
(* text has one (emit_msg.c:61), none where a stream brings its own end.   *)
THEOREM SavingsCounted == Spec => []SavingsExact
<1>1. Init => Savings
  <2> SUFFICES ASSUME Init PROVE Savings
    OBVIOUS
  <2>1. TypeOK
    BY InitInv DEF IInv
  <2>2. TotalLength = 0
    BY <2>1, LengthsAdd DEF Init, TotalLength
  <2>3. Len(out) = 0 /\ Len(xmb) = 0 /\ Len(region) = 0 /\ saved = 0
    BY DEF Init
  <2>4. QED
    BY <2>2, <2>3 DEF Savings, SavingsExact
<1>2. IInv /\ Savings /\ [Next]_vars => Savings'
  <2> SUFFICES ASSUME IInv, Savings, [Next]_vars PROVE Savings'
    OBVIOUS
  <2>1. TypeOK /\ saved \in Nat
    BY DEF IInv, Savings
  <2>2. /\ out \in Seq(Bytes) /\ xmb \in Seq(Bytes) /\ region \in Seq(Bytes)
        /\ Len(out) \in Nat /\ Len(xmb) \in Nat /\ Len(region) \in Nat
    BY <2>1, CallFacts DEF TypeOK
  <2>3. AtText => /\ Stored(Text) \in Seq(Bytes) /\ Len(Stored(Text)) \in Nat
    BY <2>1, CallFacts, StoredBytes DEF AtText, TypeOK, Text
  <2>4. ~(call.padding \/ call.forced) => Pad = <<>>
    BY DEF Pad, PadNeeded
  <2>5. Pad \in Seq(Bytes)
    BY <2>1, PadCounted
  <2>6. CASE ShareText
    <3>1. PICK j \in Sharers(i) : offsets' = Append(offsets, offsets[j])
      BY <2>6 DEF ShareText
    <3>2. /\ AtText /\ UNCHANGED <<call, phase, out, xmb, region>> /\ i' = i + 1
          /\ saved' = saved + Len(Stored(Text))
      BY <2>6 DEF ShareText
    <3>3. Len(out)' + Len(xmb)' + Len(region)'
            = Len(out) + Len(xmb) + Len(region) + 0
      BY <2>2, <3>2
    <3>4. /\ 0 \in Nat /\ Len(Stored(Text)) \in Nat
          /\ Len(Stored(Text)) + 0 = Len(Stored(Text))
      BY <2>3, <3>2
    <3>5. QED
      BY <3>1, <3>2, <3>3, <3>4, OneMoreText
  <2>7. CASE TextToRegion \/ TextToRam \/ TextToXmb
    <3> DEFINE stored == Len(Stored(Text))
    <3>1. /\ AtText /\ UNCHANGED <<call, phase, saved>> /\ i' = i + 1
          /\ \E o : offsets' = Append(offsets, o)
      BY <2>7 DEF TextToRegion, TextToRam, TextToXmb
    <3>2. PICK o : offsets' = Append(offsets, o)
      BY <3>1
    <3>3. stored \in Nat /\ 0 + stored = stored /\ saved' = saved + 0 /\ 0 \in Nat
      BY <2>1, <2>3, <3>1
    <3>4. ~(call.padding \/ call.forced) =>
            Len(out)' + Len(xmb)' + Len(region)'
              = Len(out) + Len(xmb) + Len(region) + stored
      <4> DEFINE b == Stored(Text)
      <4> SUFFICES ASSUME ~(call.padding \/ call.forced)
                   PROVE  Len(out') + Len(xmb') + Len(region')
                            = Len(out) + Len(xmb) + Len(region) + Len(b)
        OBVIOUS
      <4>1. Pad = <<>> /\ out \o <<>> = out /\ b \in Seq(Bytes)
        BY <2>2, <2>3, <2>4, <3>1
      <4>2. CASE TextToRegion
        <5>1. out' = out /\ xmb' = xmb /\ region' = region \o b
          BY <4>2 DEF TextToRegion
        <5> HIDE DEF b
        <5>2. QED
          BY <2>2, <4>1, <5>1
      <4>3. CASE TextToRam
        <5>1. out' = out \o Pad \o b /\ xmb' = xmb /\ region' = region
          BY <4>3 DEF TextToRam
        <5> HIDE DEF b
        <5>2. out' = out \o b
          BY <4>1, <5>1
        <5>3. QED
          BY <2>2, <4>1, <5>1, <5>2
      <4>4. CASE TextToXmb
        <5>1. out' = out \o Pad /\ xmb' = xmb \o b /\ region' = region
          BY <4>4 DEF TextToXmb
        <5> HIDE DEF b
        <5>2. out' = out
          BY <4>1, <5>1
        <5>3. QED
          BY <2>2, <4>1, <5>1, <5>2
      <4>5. QED
        BY <2>7, <4>2, <4>3, <4>4
    <3> HIDE DEF stored
    <3>5. stored = Len(Stored(Text))
      BY DEF stored
    <3>6. QED
      BY <3>1, <3>2, <3>3, <3>4, <3>5, OneMoreText
  <2>8. CASE StartWords \/ WriteWord \/ Return
    <3>1. phase' # "texts" /\ saved' = saved
      BY <2>8 DEF StartWords, WriteWord, Return
    <3>2. QED
      BY <2>1, <3>1 DEF Savings, SavingsExact
  <2>9. CASE UNCHANGED vars
    <3>1. UNCHANGED <<call, phase, out, xmb, region, offsets, saved>>
      BY <2>9 DEF vars
    <3>2. TotalLength' = TotalLength
      BY <3>1 DEF TotalLength, Lengths, Stored, Obfuscated
    <3>3. QED
      BY <3>1, <3>2 DEF Savings, SavingsExact
  <2>10. QED
    BY <2>6, <2>7, <2>8, <2>9 DEF Next, Returned
<1>3. Savings => SavingsExact
  BY DEF Savings
<1>4. QED
  BY <1>1, <1>2, <1>3, Invariance, PTL DEF Spec

=============================================================================
