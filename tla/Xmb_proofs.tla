------------------------------ MODULE Xmb_proofs ----------------------------
(***************************************************************************)
(* What Xmb's run checks on small files, for every size and any texts:     *)
(* where the emitter puts a text is where the interpreter finds it.        *)
(***************************************************************************)
EXTENDS Xmb, Basics

Bytes == Nat \X Nat

(* The type of the state.                                                  *)
TypeOK ==
  /\ call \in Calls
  /\ phase \in {"open", "texts", "written", "failed"}
  /\ i \in Nat
  /\ fresh \in BOOLEAN
  /\ files \in Seq(Seq(Bytes))
  /\ page \in Nat
  /\ cursor \in Nat
  /\ offsets \in Seq(Nat)

(* On a target that pages one file no text is longer than a page: the      *)
(* emitter starts a page for it and leaves the rest to luck.               *)
TextsFitPages == Paged => \A k \in DOMAIN call.lens : Length(k) <= call.size

Running == phase \in {"texts", "written"}
Start == IF call.format2 THEN 4 ELSE 0

(* The loop's index counts the offsets, and nothing is there before it.    *)
LoopCounts ==
  /\ i = Len(offsets) + 1
  /\ i <= Len(call.lens) + 1
  /\ phase = "open" => /\ files = <<>> /\ offsets = <<>>
                       /\ page = 0 /\ cursor = 0 /\ ~fresh

(* No refused call gets going.                                             *)
NotRefused == Running => ~Refused

(* The cursor is behind the header and, where texts are known to fit,      *)
(* inside the file or page; a fresh one is empty.                          *)
CursorInside ==
  Running => /\ Start <= cursor
             /\ phase = "texts" /\ fresh => cursor = Start
             /\ call.format2 \/ (Paged /\ TextsFitPages) => cursor <= call.size

(* The cursor and the page say where the bytes written end.                *)
LayoutKnown ==
  Running =>
    /\ Len(files) = IF Paged THEN 1 ELSE page + 1
    /\ ~Paged => Len(files[Len(files)]) = cursor
    /\ Paged /\ TextsFitPages => Len(files[1]) = call.size * page + cursor

(* ImageCoversTexts while texts are still being written.                   *)
ImageSoFar ==
  call.format2 =>
    /\ \A k \in DOMAIN offsets :
         /\ offsets[k] % call.size >= Len(Header)
         /\ offsets[k] + Length(k) <= XMessageSize
    /\ \A f \in DOMAIN files : /\ Len(Header) <= Len(files[f])
                               /\ SubSeq(files[f], 1, Len(Header)) = Header

(* Each text written is where its offset leads an interpreter.             *)
FileOf(offset) == IF Paged THEN 1 ELSE offset \div call.size + 1
PlaceOf(offset) == IF Paged THEN offset ELSE offset % call.size
InPlace(k) ==
  LET f == FileOf(offsets[k])
      at == PlaceOf(offsets[k])
  IN  /\ f \in DOMAIN files
      /\ at \in Nat
      /\ at + Length(k) <= Len(files[f])
      /\ SubSeq(files[f], at + 1, at + Length(k)) = TextBytes(k)
TextsInPlace == TextsFitPages => \A k \in DOMAIN offsets : InPlace(k)

(* The inductive invariant.                                                *)
IInv ==
  /\ TypeOK
  /\ LoopCounts
  /\ NotRefused
  /\ CursorInside
  /\ LayoutKnown
  /\ TextsWithinPages
  /\ ImageSoFar
  /\ TextsInPlace

-----------------------------------------------------------------------------
(* Lemmas.                                                                 *)

(* What a call is.                                                         *)
LEMMA CallFacts ==
  ASSUME call \in Calls
  PROVE  /\ call.lens \in Seq(Nat) /\ Len(call.lens) \in Nat
         /\ DOMAIN call.lens = 1..Len(call.lens)
         /\ \A k \in DOMAIN call.lens : call.lens[k] \in Nat
         /\ call.size \in Nat
         /\ call.target \in Targets
         /\ call.format2 \in BOOLEAN
         /\ Windowed => call.size = 0 \/ Gap <= call.size
         /\ call.format2 => /\ call.target = "plain" /\ ~Paged
                            /\ call.size = 0 \/ 4 + MaxCoded <= call.size
                            /\ \A k \in DOMAIN call.lens : call.lens[k] > 0
         /\ Gap \in Nat /\ MaxCoded \in Nat /\ MaxCoded > 0 /\ DataLimit \in Nat
         /\ Windowed => Paged
<1>1. IsCall(call)
  BY CallsAssumption
<1>2. /\ call.lens \in Seq(Nat)
      /\ call.size \in Nat
      /\ call.target \in Targets
      /\ call.format2 \in BOOLEAN
      /\ Windowed => call.size = 0 \/ Gap <= call.size
      /\ call.format2 => /\ call.target = "plain"
                         /\ call.size = 0 \/ 4 + MaxCoded <= call.size
                         /\ \A k \in DOMAIN call.lens : call.lens[k] > 0
  BY <1>1, Zenon DEF IsCall, Windowed
<1>3. Len(call.lens) \in Nat /\ DOMAIN call.lens = 1..Len(call.lens)
      /\ \A k \in DOMAIN call.lens : call.lens[k] \in Nat
  BY <1>2
<1>4. Gap \in Nat /\ MaxCoded \in Nat /\ MaxCoded > 0 /\ DataLimit \in Nat
  BY SizesAssumption
<1>5. (Windowed => Paged) /\ (call.target = "plain" => ~Paged)
  BY DEF Windowed, Paged
<1>6. QED
  BY <1>2, <1>3, <1>4, <1>5, Zenon

(* A text's bytes: never none, and no more than its length and an end.     *)
LEMMA TextFacts ==
  ASSUME call \in Calls, NEW k \in DOMAIN call.lens
  PROVE  /\ TextBytes(k) \in Seq(Bytes)
         /\ Length(k) \in Nat /\ Length(k) > 0
         /\ Length(k) = call.lens[k] + (IF call.format2 THEN 0 ELSE 1)
<1> DEFINE n == call.lens[k]
           a == [b \in 1..n |-> <<k, b>>]
           z == IF call.format2 THEN <<>> ELSE <<<<0, 5>>>>
<1>1. n \in Nat /\ k \in Nat /\ (call.format2 => n > 0)
      /\ call.format2 \in BOOLEAN
  BY CallFacts
<1>2. a \in Seq(Bytes) /\ Len(a) = n
  BY <1>1 DEF Bytes
<1>3. z \in Seq(Bytes) /\ Len(z) = IF call.format2 THEN 0 ELSE 1
  BY <1>1, SMTT(30) DEF Bytes
<1>4. TextBytes(k) = a \o z
  BY Zenon DEF TextBytes
<1> HIDE DEF n, a, z
<1>5. a \o z \in Seq(Bytes) /\ Len(a \o z) = Len(a) + Len(z)
  BY <1>2, <1>3, Concat
<1>6. Length(k) = Len(a \o z)
  BY <1>4, Zenon DEF Length
<1>7. QED
  BY <1>1, <1>2, <1>3, <1>4, <1>5, <1>6 DEF n

(* The header and the filler.                                              *)
LEMMA FillerFacts ==
  /\ Header \in Seq(Bytes) /\ Len(Header) = 4
  /\ \A n \in Int : Zeros(n) \in Seq(Bytes)
  /\ \A n \in Nat : Len(Zeros(n)) = n
<1>1. Header \in Seq(Bytes) /\ Len(Header) = 4
  BY DEF Header, Bytes
<1>2. ASSUME NEW n \in Nat PROVE Zeros(n) \in Seq(Bytes) /\ Len(Zeros(n)) = n
  BY DEF Zeros, Bytes
<1>3. ASSUME NEW n \in Int, n < 0 PROVE Zeros(n) \in Seq(Bytes)
  <2>1. Zeros(n) = [k \in 1..0 |-> <<0, 0>>]
    BY <1>3 DEF Zeros
  <2>2. [k \in 1..0 |-> <<0, 0>>] \in Seq(Bytes)
    BY DEF Bytes
  <2>3. QED
    BY <2>1, <2>2
<1>4. QED
  BY <1>1, <1>2, <1>3

(* A text's bytes are of the call, which nothing changes.                  *)
LEMMA TextsStay ==
  ASSUME UNCHANGED call
  PROVE  /\ \A k : TextBytes(k)' = TextBytes(k) /\ Length(k)' = Length(k)
         /\ Paged' = Paged /\ Windowed' = Windowed /\ Start' = Start
         /\ TextsFitPages' = TextsFitPages /\ Refused' = Refused
<1>1. \A k : TextBytes(k)' = TextBytes(k)
  BY Zenon DEF TextBytes
<1>2. \A k : Length(k)' = Length(k)
  BY <1>1, Zenon DEF Length, TextBytes
<1>3. Paged' = Paged /\ Windowed' = Windowed /\ Start' = Start /\ Refused' = Refused
  BY Zenon DEF Paged, Windowed, Start, Refused
<1>4. TextsFitPages' = TextsFitPages
  BY <1>2, <1>3, Zenon DEF TextsFitPages
<1>5. QED
  BY <1>1, <1>2, <1>3, <1>4

(* Files only grow: each keeps what it had.                                *)
Grown ==
  /\ files' \in Seq(Seq(Bytes))
  /\ Len(files) <= Len(files')
  /\ \A f \in 1..Len(files) : \E t \in Seq(Bytes) : files'[f] = files[f] \o t

(* Bytes written go to the end of the last file.                           *)
LEMMA WriteGrows ==
  ASSUME files \in Seq(Seq(Bytes)), Len(files) > 0,
         NEW bytes \in Seq(Bytes), Write(bytes)
  PROVE  /\ Grown
         /\ Len(files') = Len(files)
         /\ Len(files) \in DOMAIN files
         /\ files[Len(files)] \in Seq(Bytes)
         /\ files'[Len(files)] = files[Len(files)] \o bytes
         /\ Len(files'[Len(files)]) = Len(files[Len(files)]) + Len(bytes)
<1> DEFINE last == Len(files)
           old == files[last]
<1>1. last \in Nat /\ last \in DOMAIN files /\ DOMAIN files = 1..last
  OBVIOUS
<1>2. old \in Seq(Bytes)
  BY <1>1, ElementOfSeq
<1>3. files' = [files EXCEPT ![last] = old \o bytes]
  BY DEF Write
<1> HIDE DEF old, last
<1>4. old \o bytes \in Seq(Bytes) /\ Len(old \o bytes) = Len(old) + Len(bytes)
  BY <1>2, Concat
<1>5. /\ files' \in Seq(Seq(Bytes)) /\ Len(files') = last
      /\ files'[last] = old \o bytes
      /\ \A f \in 1..last : f # last => files'[f] = files[f]
  BY <1>1, <1>3, <1>4, ExceptSeq DEF last
<1>6. \A f \in 1..last : files[f] \in Seq(Bytes)
  BY <1>1, ElementOfSeq DEF last
<1>7. ASSUME NEW f \in 1..last
      PROVE  \E t \in Seq(Bytes) : files'[f] = files[f] \o t
  <2>1. CASE f = last
    BY <1>5, <2>1 DEF old
  <2>2. CASE f # last
    <3>1. files[f] \o <<>> = files[f]
      BY <1>6, ConcatEmptySeq
    <3>2. <<>> \in Seq(Bytes)
      OBVIOUS
    <3>3. QED
      BY <1>5, <2>2, <3>1, <3>2
  <2>3. QED
    BY <2>1, <2>2
<1>8. Grown
  <2>1. last <= last
    BY <1>1
  <2>2. last <= Len(files')
    BY <1>5, <2>1, Zenon
  <2>3. QED
    BY <1>5, <1>7, <2>2, Zenon DEF Grown, last
<1>9. QED
  BY <1>1, <1>2, <1>4, <1>5, <1>8 DEF old, last

(* A file opened comes after the others.                                   *)
LEMMA OpenGrows ==
  ASSUME files \in Seq(Seq(Bytes)), NEW start \in Seq(Bytes),
         files' = Append(files, start)
  PROVE  /\ Grown
         /\ Len(files') = Len(files) + 1
         /\ files'[Len(files) + 1] = start
<1>1. /\ files' \in Seq(Seq(Bytes)) /\ Len(files') = Len(files) + 1
      /\ \A f \in 1..Len(files) : files'[f] = files[f]
      /\ files'[Len(files) + 1] = start
      /\ Len(files) \in Nat
  BY AppendProperties
<1>2. ASSUME NEW f \in 1..Len(files)
      PROVE  \E t \in Seq(Bytes) : files'[f] = files[f] \o t
  <2>1. files[f] \in Seq(Bytes)
    BY ElementOfSeq
  <2>2. files[f] \o <<>> = files[f]
    BY <2>1, ConcatEmptySeq
  <2>3. <<>> \in Seq(Bytes)
    OBVIOUS
  <2>4. QED
    BY <1>1, <2>2, <2>3
<1>3. Len(files) <= Len(files')
  BY <1>1
<1>4. Grown
  BY <1>1, <1>2, <1>3, Zenon DEF Grown
<1>5. QED
  BY <1>1, <1>4

(* What a file held it holds when files have grown.                        *)
LEMMA PartKept ==
  ASSUME files \in Seq(Seq(Bytes)), Grown,
         NEW f \in DOMAIN files, NEW at \in Nat, NEW n \in Nat,
         at + n <= Len(files[f])
  PROVE  /\ f \in DOMAIN files'
         /\ at + n <= Len(files'[f])
         /\ SubSeq(files'[f], at + 1, at + n) = SubSeq(files[f], at + 1, at + n)
<1>1. f \in 1..Len(files) /\ Len(files) \in Nat
  OBVIOUS
<1>2. files[f] \in Seq(Bytes)
  BY <1>1, ElementOfSeq
<1>3. PICK t \in Seq(Bytes) : files'[f] = files[f] \o t
  BY <1>1, Zenon DEF Grown
<1>4. f \in DOMAIN files'
  <2>1. files' \in Seq(Seq(Bytes)) /\ Len(files) <= Len(files')
    BY Zenon DEF Grown
  <2>2. QED
    BY <1>1, <2>1
<1>5. /\ at + n <= Len(files[f] \o t)
      /\ SubSeq(files[f] \o t, at + 1, at + n) = SubSeq(files[f], at + 1, at + n)
  BY <1>2, PartStays
<1>6. QED
  BY <1>3, <1>4, <1>5, Zenon

(* A text in its place stays there.                                        *)
LEMMA TextKept ==
  ASSUME files \in Seq(Seq(Bytes)), Grown, UNCHANGED call,
         NEW k, Length(k) \in Nat, offsets'[k] = offsets[k], InPlace(k)
  PROVE  InPlace(k)'
<1> DEFINE f == FileOf(offsets[k])
           at == PlaceOf(offsets[k])
           n == Length(k)
<1>1. /\ f \in DOMAIN files /\ at \in Nat /\ n \in Nat
      /\ at + n <= Len(files[f])
      /\ SubSeq(files[f], at + 1, at + n) = TextBytes(k)
  BY Zenon DEF InPlace
<1>2. FileOf(offsets[k])' = f /\ PlaceOf(offsets[k])' = at
      /\ Length(k)' = n /\ TextBytes(k)' = TextBytes(k)
  <2>1. Paged' = Paged /\ call' = call
        /\ Length(k)' = n /\ TextBytes(k)' = TextBytes(k)
    BY TextsStay, Zenon
  <2>2. QED
    BY <2>1, Zenon DEF FileOf, PlaceOf
<1> HIDE DEF f, at, n
<1>3. /\ f \in DOMAIN files' /\ at + n <= Len(files'[f])
      /\ SubSeq(files'[f], at + 1, at + n) = SubSeq(files[f], at + 1, at + n)
  BY <1>1, PartKept
<1>4. QED
  BY <1>1, <1>2, <1>3, Zenon DEF InPlace

(* A header stays.                                                         *)
LEMMA HeaderKept ==
  ASSUME files \in Seq(Seq(Bytes)), Grown, NEW f \in DOMAIN files,
         Len(Header) <= Len(files[f]), SubSeq(files[f], 1, Len(Header)) = Header
  PROVE  /\ Len(Header) <= Len(files'[f])
         /\ SubSeq(files'[f], 1, Len(Header)) = Header
<1> DEFINE n == Len(Header)
<1>1. n = 4
  BY FillerFacts
<1> HIDE DEF n
<1>2. 0 \in Nat /\ n \in Nat /\ 0 + n <= Len(files[f]) /\ 0 + 1 = 1 /\ 0 + n = n
  BY <1>1 DEF n
<1>3. /\ 0 + n <= Len(files'[f])
      /\ SubSeq(files'[f], 0 + 1, 0 + n) = SubSeq(files[f], 0 + 1, 0 + n)
  BY <1>2, PartKept
<1>4. QED
  BY <1>2, <1>3, Zenon DEF n

(* A whole sequence as a part of itself.                                   *)
LEMMA HeaderWhole == Len(Header) <= Len(Header) /\ SubSeq(Header, 1, Len(Header)) = Header
<1>1. Header \in Seq(Bytes) /\ Len(Header) = 4
  BY FillerFacts
<1>2. SubSeq(Header, 1, Len(Header)) = Header
  BY <1>1, SubSeqFull
<1>3. QED
  BY <1>1, <1>2

(* A text of an offset is a text of the call.                              *)
LEMMA WrittenTexts ==
  ASSUME TypeOK, LoopCounts
  PROVE  /\ Len(offsets) \in Nat /\ DOMAIN offsets = 1..Len(offsets)
         /\ \A k \in DOMAIN offsets :
              /\ k \in DOMAIN call.lens /\ offsets[k] \in Nat
              /\ Length(k) \in Nat /\ Length(k) > 0
<1>1. Len(offsets) \in Nat /\ DOMAIN offsets = 1..Len(offsets)
      /\ \A k \in DOMAIN offsets : offsets[k] \in Nat
  BY DEF TypeOK
<1>2. call \in Calls
  BY DEF TypeOK
<1>3. Len(call.lens) \in Nat /\ DOMAIN call.lens = 1..Len(call.lens)
  BY <1>2, CallFacts
<1>4. Len(offsets) <= Len(call.lens)
  BY <1>1, <1>3 DEF LoopCounts
<1>5. \A k \in DOMAIN offsets : k \in DOMAIN call.lens
  BY <1>1, <1>3, <1>4
<1>6. QED
  BY <1>1, <1>2, <1>5, TextFacts, Zenon

-----------------------------------------------------------------------------
(* The invariant is inductive.                                             *)

(* The beginning.                                                          *)
LEMMA InitIInv == Init => IInv
<1> SUFFICES ASSUME Init PROVE IInv
  OBVIOUS
<1>1. /\ call \in Calls /\ phase = "open" /\ i = 1 /\ fresh = FALSE
      /\ files = <<>> /\ page = 0 /\ cursor = 0 /\ offsets = <<>>
  BY Zenon DEF Init
<1>2. Len(call.lens) \in Nat
  BY <1>1, CallFacts
<1>3. TypeOK
  <2>1. <<>> \in Seq(Seq(Bytes)) /\ <<>> \in Seq(Nat)
    BY EmptySeq
  <2>2. 0 \in Nat /\ 1 \in Nat
    OBVIOUS
  <2>3. QED
    BY <1>1, <2>1, <2>2, Zenon DEF TypeOK
<1>4. LoopCounts
  BY <1>1, <1>2 DEF LoopCounts
<1>5. ~Running /\ DOMAIN offsets = {} /\ DOMAIN files = {}
  BY <1>1 DEF Running
<1>6. QED
  BY <1>3, <1>4, <1>5, Zenon
     DEF IInv, NotRefused, CursorInside, LayoutKnown, TextsWithinPages,
         ImageSoFar, TextsInPlace

(* The call given up, at any point.                                        *)
LEMMA FailStep ==
  ASSUME IInv, phase' = "failed",
         UNCHANGED <<call, i, fresh, files, page, cursor, offsets>>
  PROVE  IInv'
<1>1. TypeOK' /\ LoopCounts'
  BY DEF IInv, TypeOK, LoopCounts
<1>2. ~Running'
  BY DEF Running
<1>3. NotRefused' /\ CursorInside' /\ LayoutKnown'
  BY <1>2, Zenon DEF NotRefused, CursorInside, LayoutKnown
<1>4. /\ \A k : TextBytes(k)' = TextBytes(k) /\ Length(k)' = Length(k)
      /\ Paged' = Paged /\ Windowed' = Windowed
      /\ TextsFitPages' = TextsFitPages
  BY TextsStay, Zenon
<1>5. TextsWithinPages'
  BY <1>4, Zenon DEF IInv, TextsWithinPages
<1>6. ImageSoFar'
  BY <1>4, Zenon DEF IInv, ImageSoFar, XMessageSize
<1>7. TextsInPlace'
  BY <1>4, Zenon DEF IInv, TextsInPlace, InPlace, FileOf, PlaceOf
<1>8. QED
  BY <1>1, <1>3, <1>5, <1>6, <1>7 DEF IInv

(* The first file.                                                         *)
LEMMA OpenFirstStep == IInv /\ OpenFirst => IInv'
<1> SUFFICES ASSUME IInv, OpenFirst PROVE IInv'
  OBVIOUS
<1> DEFINE start == FileStart
<1>1. /\ phase = "open" /\ ~Refused /\ phase' = "texts"
      /\ files' = <<start>> /\ cursor' = Len(start)
      /\ UNCHANGED <<call, i, fresh, page, offsets>>
  BY Zenon DEF OpenFirst
<1>2. TypeOK /\ LoopCounts
  BY Zenon DEF IInv
<1>3. offsets = <<>> /\ page = 0 /\ ~fresh /\ call \in Calls
  BY <1>1, <1>2 DEF LoopCounts, TypeOK
<1>4. start \in Seq(Bytes)
  <2>1. Gap \in Int
    BY <1>3, CallFacts
  <2>2. Header \in Seq(Bytes) /\ Zeros(Gap) \in Seq(Bytes) /\ <<>> \in Seq(Bytes)
    BY <2>1, FillerFacts, EmptySeq
  <2>3. QED
    BY <2>2, Zenon DEF FileStart
<1>5. /\ Start <= Len(start)
      /\ call.format2 \/ Paged => Len(start) <= call.size
      /\ call.format2 => start = Header
  <2>1. call.size \in Nat /\ call.size # 0
    BY <1>1, <1>3, CallFacts DEF Refused
  <2>2. CASE call.format2
    <3>1. start = Header /\ Len(Header) = 4
      BY <2>2, FillerFacts DEF FileStart
    <3>2. 4 + MaxCoded <= call.size /\ MaxCoded \in Nat
      BY <1>3, <2>1, <2>2, CallFacts
    <3>3. QED
      BY <2>1, <2>2, <3>1, <3>2 DEF Start
  <2>3. CASE ~call.format2 /\ call.target \in {"plus3", "amiga"}
    <3>1. start = Zeros(Gap) /\ Len(Zeros(Gap)) = Gap /\ Gap \in Nat
      BY <1>3, <2>3, FillerFacts, CallFacts DEF FileStart
    <3>2. Paged => Gap <= call.size
      BY <1>3, <2>1, <2>3, CallFacts DEF Paged, Windowed
    <3>3. QED
      BY <2>1, <2>3, <3>1, <3>2 DEF Start
  <2>4. CASE ~call.format2 /\ ~(call.target \in {"plus3", "amiga"})
    <3>1. start = <<>> /\ Len(<<>>) = 0
      BY <2>4 DEF FileStart
    <3>2. QED
      BY <2>1, <2>4, <3>1 DEF Start
  <2>5. QED
    BY <2>2, <2>3, <2>4
<1>6. /\ Paged' = Paged /\ Start' = Start
      /\ TextsFitPages' = TextsFitPages /\ Refused' = Refused
  BY <1>1, TextsStay, Zenon
<1> HIDE DEF start
<1>7. files' \in Seq(Seq(Bytes)) /\ Len(files') = 1 /\ files'[1] = start
      /\ DOMAIN files' = {1} /\ Len(start) \in Nat
  BY <1>1, <1>4
<1>8. TypeOK' /\ LoopCounts'
  <2>1. TypeOK'
    BY <1>1, <1>2, <1>7 DEF TypeOK
  <2>2. QED
    BY <1>1, <1>2, <2>1 DEF LoopCounts
<1>9. NotRefused' /\ CursorInside'
  BY <1>1, <1>3, <1>5, <1>6 DEF NotRefused, CursorInside
<1>10. LayoutKnown'
  <2>1. call.size \in Nat
    BY <1>3, CallFacts
  <2>2. page' = 0 /\ call'.size * 0 + Len(start) = Len(start)
    BY <1>1, <1>3, <1>7, <2>1, SMT
  <2>3. QED
    BY <1>1, <1>6, <1>7, <2>2 DEF LayoutKnown
<1>11. DOMAIN offsets' = {}
  BY <1>1, <1>3
<1>12. TextsWithinPages' /\ TextsInPlace'
  BY <1>11, Zenon DEF TextsWithinPages, TextsInPlace
<1>13. ImageSoFar'
  BY <1>1, <1>5, <1>7, <1>11, HeaderWhole DEF ImageSoFar
<1>14. QED
  BY <1>8, <1>9, <1>10, <1>12, <1>13 DEF IInv

(* Texts stay in place while files grow.                                   *)
LEMMA TextsKept ==
  ASSUME IInv, Grown, UNCHANGED <<call, offsets>>
  PROVE  TextsInPlace' /\ TextsWithinPages'
<1>1. TypeOK /\ LoopCounts /\ TextsInPlace /\ TextsWithinPages
  BY Zenon DEF IInv
<1>2. files \in Seq(Seq(Bytes))
  BY <1>1 DEF TypeOK
<1>3. /\ \A k : TextBytes(k)' = TextBytes(k) /\ Length(k)' = Length(k)
      /\ Windowed' = Windowed /\ TextsFitPages' = TextsFitPages
  BY TextsStay, Zenon
<1>4. \A k \in DOMAIN offsets : Length(k) \in Nat
  BY <1>1, WrittenTexts
<1>5. TextsInPlace'
  BY <1>1, <1>2, <1>3, <1>4, TextKept, Zenon DEF TextsInPlace
<1>6. TextsWithinPages'
  BY <1>1, <1>3, Zenon DEF TextsWithinPages
<1>7. QED
  BY <1>5, <1>6

(* A call's constants while it runs.                                       *)
LEMMA RunningFacts ==
  ASSUME IInv, Running
  PROVE  /\ call \in Calls /\ call.size \in Nat /\ call.size > 0
         /\ page \in Nat /\ cursor \in Nat /\ Start \in {0, 4}
         /\ Start < call.size
         /\ files \in Seq(Seq(Bytes)) /\ Len(files) \in Nat /\ Len(files) > 0
         /\ call.size * page \in Nat
         /\ call.size * (page + 1) = call.size * page + call.size
<1>1. TypeOK /\ NotRefused /\ LayoutKnown
  BY Zenon DEF IInv
<1>2. call \in Calls /\ page \in Nat /\ cursor \in Nat /\ files \in Seq(Seq(Bytes))
  BY <1>1 DEF TypeOK
<1>3. call.size \in Nat /\ call.size > 0
  BY <1>1, <1>2, CallFacts DEF NotRefused, Refused
<1>4. Start \in {0, 4} /\ Start < call.size
  <2>1. CASE call.format2
    <3>1. 4 + MaxCoded <= call.size /\ MaxCoded \in Nat /\ MaxCoded > 0
      BY <1>2, <1>3, <2>1, CallFacts
    <3>2. QED
      BY <1>3, <2>1, <3>1 DEF Start
  <2>2. CASE ~call.format2
    BY <1>3, <2>2 DEF Start
  <2>3. QED
    BY <2>1, <2>2
<1>5. Len(files) \in Nat /\ Len(files) > 0
  <2>1. Len(files) = IF Paged THEN 1 ELSE page + 1
    BY <1>1, Zenon DEF LayoutKnown
  <2>2. (IF Paged THEN 1 ELSE page + 1) \in Nat \ {0}
    BY <1>2
  <2>3. QED
    BY <2>1, <2>2
<1>6. call.size * page \in Nat
      /\ call.size * (page + 1) = call.size * page + call.size
  BY <1>2, <1>3, SMTT(30)
<1>7. QED
  BY <1>2, <1>3, <1>4, <1>5, <1>6

(* The next file.                                                          *)
LEMMA NextFileStep == IInv /\ NextFile => IInv'
<1> SUFFICES ASSUME IInv, NextFile PROVE IInv'
  OBVIOUS
<1> DEFINE start == IF call.format2 THEN Header ELSE <<>>
<1>1. /\ phase = "texts" /\ i <= Len(call.lens) /\ ~Paged
      /\ files' = Append(files, start) /\ cursor' = Len(start)
      /\ page' = page + 1 /\ fresh' = TRUE
      /\ UNCHANGED <<call, phase, i, offsets>>
  BY Zenon DEF NextFile
<1>2. /\ TypeOK /\ LoopCounts /\ NotRefused /\ CursorInside /\ LayoutKnown
      /\ ImageSoFar
  BY Zenon DEF IInv
<1>3. Running /\ Running'
  BY <1>1 DEF Running
<1>4. /\ call \in Calls /\ call.size \in Nat /\ call.size > 0
      /\ page \in Nat /\ cursor \in Nat /\ Start \in {0, 4} /\ Start < call.size
      /\ files \in Seq(Seq(Bytes)) /\ Len(files) \in Nat
      /\ call.size * page \in Nat
      /\ call.size * (page + 1) = call.size * page + call.size
  BY <1>3, RunningFacts
<1>5. start \in Seq(Bytes) /\ Len(start) = Start
      /\ (call.format2 => start = Header)
  BY FillerFacts, EmptySeq DEF Start
<1>6. /\ Paged' = Paged /\ Start' = Start
      /\ TextsFitPages' = TextsFitPages /\ Refused' = Refused
      /\ \A k : Length(k)' = Length(k)
  BY <1>1, TextsStay, Zenon
<1> HIDE DEF start
<1>7. Grown /\ Len(files') = Len(files) + 1 /\ files'[Len(files) + 1] = start
  BY <1>1, <1>4, <1>5, OpenGrows
<1>8. TypeOK' /\ LoopCounts'
  <2>1. files' \in Seq(Seq(Bytes))
    BY <1>7 DEF Grown
  <2>2. page' \in Nat /\ cursor' \in Nat
    BY <1>1, <1>4, <1>5
  <2>3. TypeOK'
    BY <1>1, <1>2, <2>1, <2>2 DEF TypeOK
  <2>4. QED
    BY <1>1, <1>2, <2>3 DEF LoopCounts
<1>9. NotRefused' /\ CursorInside'
  <2>1. NotRefused'
    BY <1>2, <1>3, <1>6 DEF NotRefused
  <2>2. cursor' = Start /\ cursor' <= call.size /\ Start <= Start
    BY <1>1, <1>4, <1>5
  <2>3. QED
    BY <1>1, <1>6, <2>1, <2>2 DEF CursorInside
<1>10. LayoutKnown'
  <2>1. Len(files) = page + 1
    BY <1>1, <1>2, <1>3 DEF LayoutKnown
  <2>2. Len(files') = page' + 1 /\ Len(files'[Len(files')]) = cursor'
    BY <1>1, <1>4, <1>7, <2>1
  <2>3. QED
    BY <1>1, <1>6, <2>2, Zenon DEF LayoutKnown
<1>11. TextsWithinPages' /\ TextsInPlace'
  BY <1>1, <1>7, TextsKept
<1>12. ImageSoFar'
  <2> SUFFICES ASSUME call.format2 PROVE ImageSoFar'
    BY <1>1, Zenon DEF ImageSoFar
  <2>1. /\ \A k \in DOMAIN offsets : /\ offsets[k] % call.size >= Len(Header)
                                     /\ offsets[k] + Length(k) <= XMessageSize
        /\ \A f \in DOMAIN files : /\ Len(Header) <= Len(files[f])
                                   /\ SubSeq(files[f], 1, Len(Header)) = Header
    BY <1>2, Zenon DEF ImageSoFar
  <2>2. XMessageSize \in Nat /\ XMessageSize' \in Nat
        /\ XMessageSize <= XMessageSize'
    <3>1. cursor <= call.size
      BY <1>2, <1>3 DEF CursorInside
    <3> DEFINE p == call.size * page
               q == call.size * (page + 1)
    <3>2. p \in Nat /\ q = p + call.size
      BY <1>4, Zenon
    <3>3. XMessageSize = p + cursor
      BY Zenon DEF XMessageSize
    <3>4. XMessageSize' = q + Start
      BY <1>1, <1>5, Zenon DEF XMessageSize
    <3> HIDE DEF p, q
    <3>5. call.size \in Nat /\ cursor \in Nat /\ Start \in Nat
      BY <1>4
    <3>6. q \in Nat /\ p + cursor \in Nat
      BY <3>2, <3>5
    <3>7. q + Start \in Nat /\ p + cursor <= q + Start
      BY <3>1, <3>2, <3>5
    <3>8. QED
      BY <3>3, <3>4, <3>6, <3>7, Zenon
  <2>3. ASSUME NEW k \in DOMAIN offsets'
        PROVE  /\ (offsets'[k] % call'.size) >= Len(Header)
               /\ offsets'[k] + Length(k)' <= XMessageSize'
    <3>1. k \in DOMAIN offsets /\ offsets'[k] = offsets[k]
      BY <1>1
    <3>2. offsets[k] \in Nat /\ Length(k) \in Nat
      BY <1>2, <3>1, WrittenTexts
    <3>3. offsets[k] + Length(k) <= XMessageSize'
      BY <2>1, <2>2, <3>1, <3>2
    <3>4. QED
      BY <1>1, <1>6, <2>1, <3>1, <3>3, Zenon
  <2>4. ASSUME NEW f \in DOMAIN files'
        PROVE  /\ Len(Header) <= Len(files'[f])
               /\ SubSeq(files'[f], 1, Len(Header)) = Header
    <3>1. f \in 1 .. Len(files) + 1
      BY <1>7, <1>8 DEF TypeOK
    <3>2. CASE f \in DOMAIN files
      BY <1>4, <1>7, <2>1, <3>2, HeaderKept
    <3>3. CASE f = Len(files) + 1
      BY <1>5, <1>7, <3>3, HeaderWhole
    <3>4. QED
      BY <1>4, <3>1, <3>2, <3>3, SMTT(30)
  <2>5. QED
    BY <2>3, <2>4, Zenon DEF ImageSoFar
<1>13. QED
  BY <1>8, <1>9, <1>10, <1>11, <1>12 DEF IInv

(* The next page of the one file.                                          *)
LEMMA NextPageStep == IInv /\ NextPage => IInv'
<1> SUFFICES ASSUME IInv, NextPage PROVE IInv'
  OBVIOUS
<1> DEFINE pad == Zeros(call.size - cursor)
<1>1. /\ phase = "texts" /\ i <= Len(call.lens) /\ Paged
      /\ Write(pad) /\ cursor' = 0
      /\ page' = page + 1 /\ fresh' = TRUE
      /\ UNCHANGED <<call, phase, i, offsets>>
  BY Zenon DEF NextPage
<1>2. /\ TypeOK /\ LoopCounts /\ NotRefused /\ CursorInside /\ LayoutKnown
  BY Zenon DEF IInv
<1>3. Running /\ Running'
  BY <1>1 DEF Running
<1>4. /\ call \in Calls /\ call.size \in Nat /\ call.size > 0
      /\ page \in Nat /\ cursor \in Nat
      /\ files \in Seq(Seq(Bytes)) /\ Len(files) > 0
      /\ call.size * page \in Nat
      /\ call.size * (page + 1) = call.size * page + call.size
  BY <1>3, RunningFacts
<1>5. ~call.format2 /\ Start = 0
  BY <1>1, <1>4, CallFacts DEF Start
<1>6. pad \in Seq(Bytes)
      /\ (cursor <= call.size => Len(pad) = call.size - cursor)
  <2> DEFINE n == call.size - cursor
  <2>1. n \in Int /\ (cursor <= call.size => n \in Nat)
    BY <1>4
  <2> HIDE DEF n
  <2>2. Zeros(n) \in Seq(Bytes) /\ (cursor <= call.size => Len(Zeros(n)) = n)
    BY <2>1, FillerFacts
  <2>3. QED
    BY <2>2, Zenon DEF n
<1>7. /\ Paged' = Paged /\ Start' = Start
      /\ TextsFitPages' = TextsFitPages /\ Refused' = Refused
  BY <1>1, TextsStay, Zenon
<1> HIDE DEF pad
<1>8. /\ Grown /\ Len(files') = Len(files)
      /\ files[Len(files)] \in Seq(Bytes)
      /\ Len(files'[Len(files)]) = Len(files[Len(files)]) + Len(pad)
  BY <1>1, <1>4, <1>6, WriteGrows
<1>9. TypeOK' /\ LoopCounts'
  <2>1. files' \in Seq(Seq(Bytes))
    BY <1>8 DEF Grown
  <2>2. page' \in Nat /\ cursor' \in Nat
    BY <1>1, <1>4
  <2>3. TypeOK'
    BY <1>1, <1>2, <2>1, <2>2 DEF TypeOK
  <2>4. QED
    BY <1>1, <1>2, <2>3 DEF LoopCounts
<1>10. NotRefused' /\ CursorInside'
  <2>1. NotRefused'
    BY <1>2, <1>3, <1>7 DEF NotRefused
  <2>2. cursor' = Start /\ cursor' <= call.size /\ Start <= Start
    BY <1>1, <1>4, <1>5
  <2>3. QED
    BY <1>1, <1>7, <2>1, <2>2 DEF CursorInside
<1>11. LayoutKnown'
  <2>1. Len(files) = 1
    BY <1>1, <1>2, <1>3 DEF LayoutKnown
  <2>2. ASSUME TextsFitPages
        PROVE  Len(files'[1]) = call.size * page' + cursor'
    <3>1. cursor <= call.size /\ Len(files[1]) = call.size * page + cursor
      BY <1>1, <1>2, <1>3, <2>2 DEF CursorInside, LayoutKnown
    <3>2. Len(files'[1]) = call.size * page + cursor + (call.size - cursor)
      BY <1>6, <1>8, <2>1, <3>1
    <3>3. Len(files'[1]) = call.size * (page + 1) + 0
      BY <1>4, <3>2
    <3>4. QED
      BY <1>1, <3>3, Zenon
  <2>3. QED
    BY <1>1, <1>7, <1>8, <2>1, <2>2, Zenon DEF LayoutKnown
<1>12. TextsWithinPages' /\ TextsInPlace'
  BY <1>1, <1>8, TextsKept
<1>13. ImageSoFar'
  BY <1>1, <1>5 DEF ImageSoFar
<1>14. QED
  BY <1>9, <1>10, <1>11, <1>12, <1>13 DEF IInv

(* Where a text is put: inside a page, with room for all of it where a     *)
(* page can hold it, and for the window where there is one.                *)
LEMMA RoomForText ==
  ASSUME IInv, PutText
  PROVE  /\ i \in DOMAIN call.lens
         /\ cursor < call.size
         /\ Length(i) + Start <= call.size => cursor + Length(i) <= call.size
         /\ Windowed => cursor + Gap <= call.size
         /\ call.format2 \/ (Paged /\ TextsFitPages)
              => cursor + Length(i) <= call.size
<1>1. /\ phase = "texts" /\ i <= Len(call.lens) /\ (fresh \/ Fits(i))
  BY Zenon DEF PutText
<1>2. /\ TypeOK /\ LoopCounts /\ NotRefused /\ CursorInside
  BY Zenon DEF IInv
<1>3. Running
  BY <1>1 DEF Running
<1>4. /\ call \in Calls /\ call.size \in Nat /\ call.size > 0
      /\ cursor \in Nat /\ Start \in {0, 4} /\ Start < call.size
  BY <1>3, RunningFacts
<1>5. i \in DOMAIN call.lens
  <2>1. i \in Nat /\ Len(offsets) \in Nat /\ i = Len(offsets) + 1
    BY <1>2 DEF TypeOK, LoopCounts
  <2>2. DOMAIN call.lens = 1..Len(call.lens) /\ Len(call.lens) \in Nat
    BY <1>4, CallFacts
  <2>3. QED
    BY <1>1, <2>1, <2>2
<1>6. /\ Length(i) \in Nat /\ Length(i) > 0
      /\ Length(i) = call.lens[i] + (IF call.format2 THEN 0 ELSE 1)
  BY <1>4, <1>5, TextFacts
<1>7. /\ Gap \in Nat /\ MaxCoded \in Nat /\ call.lens[i] \in Nat
      /\ (Windowed => Paged /\ Gap <= call.size)
      /\ (call.format2 => ~Paged /\ 4 + MaxCoded <= call.size)
  BY <1>4, <1>5, CallFacts
<1>8. CASE fresh
  <2>1. cursor = Start
    BY <1>1, <1>2, <1>3, <1>8 DEF CursorInside
  <2>2. CASE call.format2
    <3>1. ~(call.lens[i] > MaxCoded)
      BY <1>2, <1>3, <1>5, <2>2 DEF NotRefused, Refused
    <3>2. Start = 4 /\ cursor + Length(i) <= call.size
      BY <1>4, <1>6, <1>7, <2>1, <2>2, <3>1 DEF Start
    <3>3. QED
      BY <1>4, <1>5, <1>7, <2>1, <2>2, <3>2
  <2>3. CASE ~call.format2
    <3>1. Start = 0 /\ cursor = 0
      BY <2>1, <2>3 DEF Start
    <3>2. Paged /\ TextsFitPages => Length(i) <= call.size
      BY <1>5, Zenon DEF TextsFitPages
    <3>3. QED
      BY <1>4, <1>5, <1>6, <1>7, <2>3, <3>1, <3>2
  <2>4. QED
    BY <2>2, <2>3
<1>9. CASE Fits(i)
  <2>1. Length(i) + cursor <= call.size /\ (Windowed => cursor + Gap <= call.size)
    BY <1>9, Zenon DEF Fits
  <2>2. QED
    BY <1>4, <1>5, <1>6, <2>1
<1>10. QED
  BY <1>1, <1>8, <1>9

(* A text.                                                                 *)
LEMMA PutTextStep == IInv /\ PutText => IInv'
<1> SUFFICES ASSUME IInv, PutText PROVE IInv'
  OBVIOUS
<1> DEFINE o == cursor + page * call.size
           n == Length(i)
           bytes == TextBytes(i)
           old == files[Len(files)]
<1>1. /\ phase = "texts"
      /\ offsets' = Append(offsets, o) /\ Write(bytes)
      /\ cursor' = cursor + n /\ i' = i + 1 /\ fresh' = FALSE
      /\ UNCHANGED <<call, phase, page>>
  BY Zenon DEF PutText
<1>2. /\ TypeOK /\ LoopCounts /\ NotRefused /\ CursorInside /\ LayoutKnown
      /\ TextsWithinPages /\ ImageSoFar /\ TextsInPlace
  BY Zenon DEF IInv
<1>3. Running /\ Running'
  BY <1>1 DEF Running
<1>4. /\ call \in Calls /\ call.size \in Nat /\ call.size > 0
      /\ page \in Nat /\ cursor \in Nat /\ Start \in Nat
      /\ files \in Seq(Seq(Bytes)) /\ Len(files) \in Nat /\ Len(files) > 0
      /\ call.size * page \in Nat
  BY <1>3, RunningFacts
<1>5. /\ i \in DOMAIN call.lens /\ cursor < call.size
      /\ n + Start <= call.size => cursor + n <= call.size
      /\ Windowed => cursor + Gap <= call.size
      /\ call.format2 \/ (Paged /\ TextsFitPages) => cursor + n <= call.size
  BY RoomForText
<1>6. bytes \in Seq(Bytes) /\ n \in Nat /\ n > 0 /\ n = Len(bytes)
      /\ i \in Nat /\ Gap \in Nat
  BY <1>2, <1>4, <1>5, TextFacts, CallFacts DEF TypeOK, Length
<1>7. o \in Nat /\ o % call.size = cursor /\ o \div call.size = page
  BY <1>4, <1>5, PageAndPlace
<1>8. o = call.size * page + cursor
  BY <1>4, SMT
<1>9. /\ \A k : TextBytes(k)' = TextBytes(k) /\ Length(k)' = Length(k)
      /\ Paged' = Paged /\ Windowed' = Windowed /\ Start' = Start
      /\ TextsFitPages' = TextsFitPages /\ Refused' = Refused
  BY <1>1, TextsStay, Zenon
<1> HIDE DEF o, n, bytes
<1>10. /\ Grown /\ Len(files') = Len(files) /\ Len(files) \in DOMAIN files
       /\ old \in Seq(Bytes)
       /\ files'[Len(files)] = old \o bytes
       /\ Len(files'[Len(files)]) = Len(old) + n
       /\ Len(old) \in Nat
  <2>1. /\ Grown /\ Len(files') = Len(files) /\ Len(files) \in DOMAIN files
        /\ old \in Seq(Bytes)
        /\ files'[Len(files)] = old \o bytes
        /\ Len(files'[Len(files)]) = Len(old) + Len(bytes)
    BY <1>1, <1>4, <1>6, WriteGrows
  <2> HIDE DEF old
  <2>2. Len(old) \in Nat
    BY <2>1
  <2>3. QED
    BY <1>6, <2>1, <2>2, Zenon
<1> HIDE DEF old
<1>11. /\ offsets' \in Seq(Nat) /\ Len(offsets') = Len(offsets) + 1
       /\ \A k \in DOMAIN offsets : offsets'[k] = offsets[k]
       /\ offsets'[i] = o
       /\ \A k \in DOMAIN offsets' : k # i => k \in DOMAIN offsets
       /\ i = Len(offsets) + 1
  <2>1. offsets \in Seq(Nat) /\ i = Len(offsets) + 1
    BY <1>2 DEF TypeOK, LoopCounts
  <2>2. QED
    BY <1>1, <1>7, <2>1, AppendProperties
<1>12. TypeOK' /\ LoopCounts'
  <2>1. files' \in Seq(Seq(Bytes))
    BY <1>10 DEF Grown
  <2>2. i' \in Nat /\ cursor' \in Nat
    BY <1>1, <1>4, <1>6
  <2>3. TypeOK'
    BY <1>1, <1>2, <1>11, <2>1, <2>2 DEF TypeOK
  <2>4. i' = Len(offsets') + 1 /\ i' <= Len(call'.lens) + 1
    <3>1. Len(call.lens) \in Nat /\ DOMAIN call.lens = 1..Len(call.lens)
      BY <1>4, CallFacts
    <3>2. QED
      BY <1>1, <1>5, <1>6, <1>11, <3>1
  <2>5. QED
    BY <1>1, <2>3, <2>4 DEF LoopCounts
<1>13. NotRefused' /\ CursorInside'
  <2>1. NotRefused'
    BY <1>2, <1>3, <1>9 DEF NotRefused
  <2>2. Start <= cursor
    BY <1>2, <1>3 DEF CursorInside
  <2>3. Start <= cursor + n
    BY <1>4, <1>6, <2>2
  <2>4. QED
    BY <1>1, <1>5, <1>9, <2>1, <2>3, Zenon DEF CursorInside
<1>14. /\ Len(files) = IF Paged THEN 1 ELSE page + 1
       /\ ~Paged => Len(old) = cursor
       /\ Paged /\ TextsFitPages => Len(old) = o
  BY <1>2, <1>3, <1>8 DEF LayoutKnown, old
<1>15. LayoutKnown'
  <2>1. /\ ~Paged => Len(files'[Len(files')]) = cursor'
        /\ Paged /\ TextsFitPages => Len(files'[1]) = o + n
    BY <1>1, <1>10, <1>14
  <2>2. call'.size * page' + cursor' = o + n
    <3>1. call'.size * page' + cursor' = call.size * page + (cursor + n)
      BY <1>1, Zenon
    <3> DEFINE p == call.size * page
    <3>2. p \in Nat /\ cursor \in Nat /\ o = p + cursor
      BY <1>4, <1>8, Zenon
    <3> HIDE DEF p
    <3>3. p + (cursor + n) = o + n
      BY <1>6, <3>2
    <3>4. QED
      BY <3>1, <3>3, Zenon DEF p
  <2>3. QED
    BY <1>1, <1>9, <1>10, <1>14, <2>1, <2>2, Zenon DEF LayoutKnown
<1>16. TextsWithinPages'
  <2>1. ASSUME NEW k \in DOMAIN offsets'
        PROVE  LET at == offsets'[k] % call.size
                   start == IF call.format2 THEN Len(Header) ELSE 0
               IN  /\ Length(k) + start <= call.size => at + Length(k) <= call.size
                   /\ Windowed => at + Gap <= call.size
    <3>1. CASE k = i
      <4>1. (IF call.format2 THEN Len(Header) ELSE 0) = Start
        BY FillerFacts DEF Start
      <4>2. QED
        BY <1>5, <1>7, <1>11, <3>1, <4>1, Zenon DEF n
    <3>2. CASE k # i
      BY <1>2, <1>11, <3>2, Zenon DEF TextsWithinPages
    <3>3. QED
      BY <3>1, <3>2
  <2>2. QED
    BY <1>1, <1>9, <2>1, Zenon DEF TextsWithinPages
<1>17. ImageSoFar'
  <2> SUFFICES ASSUME call.format2 PROVE ImageSoFar'
    BY <1>1, Zenon DEF ImageSoFar
  <2>1. /\ \A k \in DOMAIN offsets : /\ offsets[k] % call.size >= Len(Header)
                                     /\ offsets[k] + Length(k) <= XMessageSize
        /\ \A f \in DOMAIN files : /\ Len(Header) <= Len(files[f])
                                   /\ SubSeq(files[f], 1, Len(Header)) = Header
    BY <1>2, Zenon DEF ImageSoFar
  <2>2. XMessageSize = o /\ XMessageSize' = o + n
    <3>1. XMessageSize' = call.size * page + (cursor + n)
      BY <1>1, Zenon DEF XMessageSize
    <3> DEFINE p == call.size * page
    <3>2. p \in Nat /\ cursor \in Nat /\ o = p + cursor
      BY <1>4, <1>8, Zenon
    <3> HIDE DEF p
    <3>3. p + (cursor + n) = o + n
      BY <1>6, <3>2
    <3>4. QED
      BY <1>8, <3>1, <3>3, Zenon DEF p, XMessageSize
  <2>3. ASSUME NEW k \in DOMAIN offsets'
        PROVE  /\ (offsets'[k] % call.size) >= Len(Header)
               /\ offsets'[k] + Length(k) <= XMessageSize'
    <3>1. CASE k = i
      <4>1. Len(Header) = Start /\ Start <= cursor
        BY <1>2, <1>3, FillerFacts DEF CursorInside, Start
      <4>2. (offsets'[k] % call.size) = cursor
            /\ offsets'[k] + Length(k) = o + n
        BY <1>7, <1>11, <3>1, Zenon DEF n
      <4>3. cursor >= Len(Header) /\ o + n <= o + n
        BY <1>4, <1>6, <1>7, <4>1
      <4>4. QED
        BY <2>2, <4>2, <4>3, Zenon
    <3>2. CASE k # i
      <4>1. k \in DOMAIN offsets /\ offsets'[k] = offsets[k]
        BY <1>11, <3>2
      <4>2. offsets[k] \in Nat /\ Length(k) \in Nat
        BY <1>2, <4>1, WrittenTexts
      <4>3. offsets[k] + Length(k) <= o
        BY <2>1, <2>2, <4>1, Zenon
      <4>4. offsets[k] + Length(k) <= o + n
        BY <1>6, <1>7, <4>2, <4>3
      <4>5. QED
        BY <2>1, <2>2, <4>1, <4>4, Zenon
    <3>3. QED
      BY <3>1, <3>2
  <2>4. ASSUME NEW f \in DOMAIN files'
        PROVE  /\ Len(Header) <= Len(files'[f])
               /\ SubSeq(files'[f], 1, Len(Header)) = Header
    <3>1. DOMAIN files = 1..Len(files) /\ DOMAIN files' = 1..Len(files')
      BY <1>4, <1>12 DEF TypeOK
    <3>2. Len(files') = Len(files)
      BY <1>10
    <3>3. f \in DOMAIN files
      BY <3>1, <3>2
    <3>4. QED
      BY <1>4, <1>10, <2>1, <3>3, HeaderKept
  <2>5. QED
    BY <1>1, <1>9, <2>3, <2>4, Zenon DEF ImageSoFar
<1>18. TextsInPlace'
  <2> SUFFICES ASSUME TextsFitPages, NEW k \in DOMAIN offsets'
               PROVE  InPlace(k)'
    BY <1>9, Zenon DEF TextsInPlace
  <2>1. CASE k # i
    <3>1. k \in DOMAIN offsets /\ offsets'[k] = offsets[k] /\ InPlace(k)
      BY <1>2, <1>11, <2>1 DEF TextsInPlace
    <3>2. Length(k) \in Nat
      BY <1>2, <3>1, WrittenTexts
    <3>3. QED
      BY <1>1, <1>4, <1>10, <3>1, <3>2, TextKept
  <2>2. CASE k = i
    <3> DEFINE f == Len(files)
               at == Len(old)
    <3>1. FileOf(offsets[k])' = f /\ PlaceOf(offsets[k])' = at
      <4>1. offsets'[k] = o
        BY <1>11, <2>2
      <4>2. (IF Paged THEN 1 ELSE page + 1) = f
            /\ (IF Paged THEN o ELSE cursor) = at
        BY <1>14
      <4>3. QED
        BY <1>1, <1>7, <1>9, <4>1, <4>2, Zenon DEF FileOf, PlaceOf
    <3>2. Length(k)' = n /\ TextBytes(k)' = bytes
      BY <1>9, <2>2 DEF n, bytes
    <3>3. f \in DOMAIN files' /\ at \in Nat /\ at + n <= Len(files'[f])
      <4>1. DOMAIN files' = 1..Len(files')
        BY <1>12 DEF TypeOK
      <4>2. QED
        BY <1>4, <1>6, <1>10, <4>1
    <3>4. SubSeq(files'[f], at + 1, at + n) = bytes
      BY <1>6, <1>10, PartAppended
    <3> HIDE DEF f, at
    <3>5. QED
      BY <3>1, <3>2, <3>3, <3>4, Zenon DEF InPlace
  <2>3. QED
    BY <2>1, <2>2
<1>19. QED
  BY <1>12, <1>13, <1>15, <1>16, <1>17, <1>18 DEF IInv

(* The end: the Amiga's gap.                                               *)
LEMMA CloseStep == IInv /\ Close => IInv'
<1> SUFFICES ASSUME IInv, Close PROVE IInv'
  OBVIOUS
<1> DEFINE tail == IF call.target = "amiga" /\ ~call.format2 THEN Gap ELSE 0
           pad == Zeros(tail)
<1>1. /\ phase = "texts" /\ Write(pad) /\ cursor' = cursor + tail
      /\ phase' \in {"failed", "written"}
      /\ UNCHANGED <<call, i, fresh, page, offsets>>
  BY Zenon DEF Close
<1>2. /\ TypeOK /\ LoopCounts /\ NotRefused /\ CursorInside /\ LayoutKnown
      /\ ImageSoFar
  BY Zenon DEF IInv
<1>3. Running
  BY <1>1 DEF Running
<1>4. /\ call \in Calls /\ call.size \in Nat /\ call.size > 0
      /\ page \in Nat /\ cursor \in Nat /\ Start \in Nat
      /\ files \in Seq(Seq(Bytes)) /\ Len(files) \in Nat /\ Len(files) > 0
      /\ call.size * page \in Nat
  BY <1>3, RunningFacts
<1>5. tail \in Nat /\ (Paged => tail = 0) /\ (call.format2 => tail = 0)
  BY <1>4, CallFacts DEF Paged
<1>6. pad \in Seq(Bytes) /\ Len(pad) = tail
  BY <1>5, FillerFacts
<1>7. /\ Paged' = Paged /\ Start' = Start
      /\ TextsFitPages' = TextsFitPages /\ Refused' = Refused
      /\ \A k : Length(k)' = Length(k)
  BY <1>1, TextsStay, Zenon
<1> HIDE DEF tail, pad
<1>8. /\ Grown /\ Len(files') = Len(files)
      /\ files[Len(files)] \in Seq(Bytes)
      /\ Len(files'[Len(files)]) = Len(files[Len(files)]) + tail
  BY <1>1, <1>4, <1>6, WriteGrows
<1>9. TypeOK' /\ LoopCounts'
  <2>1. files' \in Seq(Seq(Bytes)) /\ cursor' \in Nat
    BY <1>1, <1>4, <1>5, <1>8 DEF Grown
  <2>2. TypeOK'
    BY <1>1, <1>2, <2>1 DEF TypeOK
  <2>3. QED
    BY <1>1, <1>2, <2>2 DEF LoopCounts
<1>10. NotRefused' /\ CursorInside'
  <2>1. NotRefused'
    BY <1>2, <1>3, <1>7 DEF NotRefused
  <2>2. /\ Start <= cursor
        /\ call.format2 \/ (Paged /\ TextsFitPages) => cursor <= call.size
    BY <1>2, <1>3, Zenon DEF CursorInside
  <2>3. /\ Start <= cursor'
        /\ call.format2 \/ (Paged /\ TextsFitPages) => cursor' <= call.size
    BY <1>1, <1>4, <1>5, <2>2
  <2>4. phase' # "texts"
    BY <1>1
  <2>5. QED
    BY <1>1, <1>7, <2>1, <2>3, <2>4, Zenon DEF CursorInside
<1>11. LayoutKnown'
  <2>1. /\ Len(files) = IF Paged THEN 1 ELSE page + 1
        /\ ~Paged => Len(files[Len(files)]) = cursor
        /\ Paged /\ TextsFitPages => Len(files[1]) = call.size * page + cursor
    BY <1>2, <1>3, Zenon DEF LayoutKnown
  <2>2. ~Paged => Len(files'[Len(files')]) = cursor'
    BY <1>1, <1>8, <2>1
  <2>3. ASSUME Paged, TextsFitPages
        PROVE  Len(files'[1]) = call.size * page + cursor'
    <3>1. tail = 0 /\ Len(files) = 1 /\ cursor' = cursor
      BY <1>1, <1>4, <1>5, <2>1, <2>3
    <3>2. Len(files'[1]) = Len(files[1]) /\ Len(files[1]) \in Nat
      BY <1>8, <3>1
    <3>3. QED
      BY <2>1, <2>3, <3>1, <3>2, Zenon
  <2>4. QED
    BY <1>1, <1>7, <1>8, <2>1, <2>2, <2>3, Zenon DEF LayoutKnown
<1>12. TextsWithinPages' /\ TextsInPlace'
  BY <1>1, <1>8, TextsKept
<1>13. ImageSoFar'
  <2> SUFFICES ASSUME call.format2 PROVE ImageSoFar'
    BY <1>1, Zenon DEF ImageSoFar
  <2>1. cursor' = cursor
    BY <1>1, <1>4, <1>5
  <2>2. ASSUME NEW f \in DOMAIN files'
        PROVE  /\ Len(Header) <= Len(files'[f])
               /\ SubSeq(files'[f], 1, Len(Header)) = Header
    <3>1. f \in DOMAIN files
      BY <1>4, <1>8, <1>9, SMTT(30) DEF TypeOK
    <3>2. QED
      BY <1>2, <1>4, <1>8, <3>1, HeaderKept DEF ImageSoFar
  <2>3. QED
    BY <1>1, <1>2, <1>7, <2>1, <2>2, Zenon DEF ImageSoFar, XMessageSize
<1>14. QED
  BY <1>9, <1>10, <1>11, <1>12, <1>13 DEF IInv

(* Every step.                                                             *)
LEMMA Inductive == IInv /\ [Next]_vars => IInv'
<1> SUFFICES ASSUME IInv, [Next]_vars PROVE IInv'
  OBVIOUS
<1>1. CASE Refuse
  BY <1>1, FailStep DEF Refuse
<1>2. CASE OpenFirst
  BY <1>2, OpenFirstStep
<1>3. CASE NextFile
  BY <1>3, NextFileStep
<1>4. CASE NextPage
  BY <1>4, NextPageStep
<1>5. CASE PutText
  BY <1>5, PutTextStep
<1>6. CASE Close
  BY <1>6, CloseStep
<1>7. CASE CannotOpen
  BY <1>7, FailStep, Zenon DEF CannotOpen
<1>8. CASE WriteFails
  BY <1>8, FailStep DEF WriteFails
<1>9. CASE UNCHANGED vars
  <2>1. UNCHANGED <<call, phase, i, fresh, page, cursor, offsets, files>>
    BY <1>9 DEF vars
  <2>2. IInv
    OBVIOUS
  <2>3. /\ \A k : TextBytes(k)' = TextBytes(k) /\ Length(k)' = Length(k)
        /\ Paged' = Paged /\ Windowed' = Windowed /\ Start' = Start
        /\ TextsFitPages' = TextsFitPages /\ Refused' = Refused
    BY <2>1, TextsStay, Zenon
  <2>4. Running' = Running
    BY <2>1, Zenon DEF Running
  <2>5. TypeOK' /\ LoopCounts'
    BY <2>1, <2>2 DEF IInv, TypeOK, LoopCounts
  <2>6. NotRefused' /\ CursorInside' /\ LayoutKnown'
    BY <2>1, <2>2, <2>3, <2>4, Zenon DEF IInv, NotRefused, CursorInside, LayoutKnown
  <2>7. TextsWithinPages' /\ ImageSoFar'
    BY <2>1, <2>2, <2>3, Zenon DEF IInv, TextsWithinPages, ImageSoFar, XMessageSize
  <2>8. TextsInPlace'
    BY <2>1, <2>2, <2>3, Zenon DEF IInv, TextsInPlace, InPlace, FileOf, PlaceOf
  <2>9. QED
    BY <2>5, <2>6, <2>7, <2>8 DEF IInv
<1>10. CASE Returned
  BY <1>9, <1>10, Zenon DEF Returned
<1>11. QED
  BY <1>1, <1>2, <1>3, <1>4, <1>5, <1>6, <1>7, <1>8, <1>9, <1>10 DEF Next

(* The invariant holds throughout.                                         *)
LEMMA Invariance == Spec => []IInv
<1>1. QED
  BY InitIInv, Inductive, PTL DEF Spec

(* Nothing changes the call, so texts that fit go on fitting.              *)
LEMMA FittingStays == TextsFitPages /\ Spec => []TextsFitPages
<1>1. TextsFitPages /\ [Next]_vars => TextsFitPages'
  <2> SUFFICES ASSUME TextsFitPages, [Next]_vars PROVE TextsFitPages'
    OBVIOUS
  <2>1. UNCHANGED call
    BY Zenon DEF Next, vars, Refuse, OpenFirst, NextFile, NextPage, PutText, Close,
           CannotOpen, WriteFails, Returned
  <2>2. QED
    BY <2>1, TextsStay, Zenon
<1>2. QED
  BY <1>1, PTL DEF Spec

-----------------------------------------------------------------------------
(* Theorems.                                                               *)

(* Whatever the sizes and the texts: a text that a page can hold is not    *)
(* cut by a page's end, and the window read at a text's start stays inside *)
(* its page (the roll-over test of emit_xmessages and emit_xmessages2).    *)
THEOREM TextsUncut == Spec => []TextsWithinPages
<1>1. IInv => TextsWithinPages
  BY DEF IInv
<1>2. QED
  BY <1>1, Invariance, PTL

(* The size handed to the check of -nxtext covers every text, and every    *)
(* file keeps its header (emit_xmessages2 for xmb2_check).                 *)
THEOREM ImageComplete == Spec => []ImageCoversTexts
<1>1. IInv => ImageCoversTexts
  <2> SUFFICES ASSUME IInv, call.format2 PROVE ImageCoversTexts
    BY Zenon DEF ImageCoversTexts
  <2>1. QED
    BY Zenon DEF IInv, ImageSoFar, ImageCoversTexts
<1>2. QED
  BY <1>1, Invariance, PTL

(* How a call that wrote all its texts ended, by the cursor: within the    *)
(* limit, or beyond it.                                                    *)
EndKnown ==
  /\ phase = "written" => cursor <= LastMayHave
  /\ phase = "failed" /\ ~call.format2 /\ files # <<>> /\ i > Len(call.lens)
       => LastLength > LastMayHave

(* At the end the cursor is the length of the last file or page, the       *)
(* Amiga's gap included.                                                   *)
LEMMA ClosedLength ==
  ASSUME IInv, TextsFitPages, Close
  PROVE  LastLength' = cursor'
<1> DEFINE tail == IF call.target = "amiga" /\ ~call.format2 THEN Gap ELSE 0
           pad == Zeros(tail)
<1>1. /\ phase = "texts" /\ Write(pad) /\ cursor' = cursor + tail
      /\ UNCHANGED <<call, page>>
  BY Zenon DEF Close
<1>2. Running /\ LayoutKnown
  BY <1>1, Zenon DEF Running, IInv
<1>3. /\ call.size \in Nat /\ page \in Nat /\ cursor \in Nat
      /\ files \in Seq(Seq(Bytes)) /\ Len(files) \in Nat /\ Len(files) > 0
      /\ call.size * page \in Nat
  BY <1>2, RunningFacts
<1>4. tail \in Nat /\ (Paged => tail = 0)
  <2>1. call \in Calls
    BY DEF IInv, TypeOK
  <2>2. QED
    BY <2>1, CallFacts DEF Paged
<1>5. pad \in Seq(Bytes) /\ Len(pad) = tail
  BY <1>4, FillerFacts
<1>6. Paged' = Paged
  BY <1>1, TextsStay, Zenon
<1> HIDE DEF tail, pad
<1>7. /\ Len(files') = Len(files)
      /\ files[Len(files)] \in Seq(Bytes)
      /\ Len(files'[Len(files)]) = Len(files[Len(files)]) + tail
  BY <1>1, <1>3, <1>5, WriteGrows
<1>8. CASE Paged
  <2>1. Len(files) = 1 /\ Len(files[1]) = call.size * page + cursor
    BY <1>2, <1>8, Zenon DEF LayoutKnown
  <2>2. LastLength' = Len(files'[1]) - call.size * page
    BY <1>1, <1>6, <1>8, Zenon DEF LastLength
  <2>3. QED
    BY <1>1, <1>3, <1>4, <1>7, <1>8, <2>1, <2>2
<1>9. CASE ~Paged
  <2>1. Len(files[Len(files)]) = cursor
    BY <1>2, <1>9, Zenon DEF LayoutKnown
  <2>2. LastLength' = Len(files'[Len(files')])
    BY <1>6, <1>9, Zenon DEF LastLength
  <2>3. QED
    BY <1>1, <1>7, <2>1, <2>2
<1>10. QED
  BY <1>8, <1>9

(* Only Close ends a call whose texts are all written.                     *)
LEMMA EndStep ==
  ASSUME IInv, TextsFitPages, EndKnown, [Next]_vars
  PROVE  EndKnown'
<1>1. CASE Close
  <2>1. LastLength' = cursor'
    BY <1>1, ClosedLength
  <2>2. call \in Calls /\ cursor \in Nat /\ call' = call
    BY <1>1 DEF IInv, TypeOK, Close
  <2>3. LastMayHave' = LastMayHave /\ (call.format2 => call.target # "amiga")
    BY <2>2, CallFacts DEF LastMayHave
  <2>4. /\ phase' = "written" => ~(cursor' > LastMayHave)
        /\ phase' = "failed" => cursor' > LastMayHave
    BY <1>1, <2>2, <2>3 DEF Close, LastMayHave
  <2>5. cursor' \in Nat /\ LastMayHave \in Nat
    BY <1>1, <2>2, CallFacts DEF Close, LastMayHave
  <2>6. QED
    BY <2>1, <2>3, <2>4, <2>5 DEF EndKnown
<1>2. CASE Refuse
  <2>1. files' = <<>> /\ phase' = "failed"
    BY <1>2 DEF Refuse, IInv, LoopCounts
  <2>2. QED
    BY <2>1 DEF EndKnown
<1>3. CASE OpenFirst \/ NextFile \/ NextPage \/ PutText
  <2>1. phase' = "texts"
    BY <1>3, Zenon DEF OpenFirst, NextFile, NextPage, PutText
  <2>2. QED
    BY <2>1 DEF EndKnown
<1>4. CASE CannotOpen
  <2>1. phase' = "failed" /\ UNCHANGED <<call, i, files>>
    BY <1>4, Zenon DEF CannotOpen
  <2>2. files = <<>> \/ i <= Len(call.lens)
    BY <1>4, Zenon DEF CannotOpen, IInv, LoopCounts
  <2>3. i \in Nat /\ Len(call.lens) \in Nat
    BY CallFacts DEF IInv, TypeOK
  <2>4. QED
    BY <2>1, <2>2, <2>3 DEF EndKnown
<1>5. CASE WriteFails
  BY <1>5 DEF WriteFails, EndKnown
<1>6. CASE UNCHANGED vars
  BY <1>6, Zenon DEF vars, EndKnown, LastLength, LastMayHave, Paged
<1>7. CASE Returned
  BY <1>6, <1>7, Zenon DEF Returned
<1>8. QED
  BY <1>1, <1>2, <1>3, <1>4, <1>5, <1>6, <1>7, Zenon DEF Next

(* The files written are as many and as long as xmessage_size and          *)
(* current_file say, if no text outgrows a page of a paged file, and once  *)
(* all texts are written the call succeeds exactly when the last file is   *)
(* below 64K (the two checks behind fclose of emit_xmessages).             *)
THEOREM SizesKnown == TextsFitPages /\ Spec => []SizesAgree
<1>1. IInv /\ TextsFitPages /\ EndKnown => SizesAgree
  <2> SUFFICES ASSUME IInv, TextsFitPages, EndKnown PROVE SizesAgree
    OBVIOUS
  <2>1. ASSUME phase = "written"
        PROVE  /\ IF Paged THEN Len(files) = 1 /\ Len(files[1]) = XMessageSize
                  ELSE Len(files) = page + 1 /\ Len(files[Len(files)]) = cursor
               /\ LastLength <= LastMayHave
    <3>1. Running
      BY <2>1 DEF Running
    <3>2. /\ Len(files) = IF Paged THEN 1 ELSE page + 1
          /\ ~Paged => Len(files[Len(files)]) = cursor
          /\ Paged => Len(files[1]) = XMessageSize
      BY <3>1, Zenon DEF IInv, LayoutKnown, XMessageSize
    <3>3. cursor \in Nat /\ call.size * page \in Nat
      BY <3>1, RunningFacts
    <3>4. LastLength = cursor
      BY <3>2, <3>3 DEF LastLength, XMessageSize
    <3>5. cursor <= LastMayHave
      BY <2>1 DEF EndKnown
    <3>6. QED
      BY <3>2, <3>4, <3>5, Zenon
  <2>2. QED
    BY <2>1, Zenon DEF SizesAgree, EndKnown
<1>2. Init => EndKnown
  BY DEF Init, EndKnown
<1>3. QED
  BY <1>1, <1>2, EndStep, Invariance, FittingStays, PTL DEF Spec

-----------------------------------------------------------------------------
(* The refinement.                                                         *)

(* What an interpreter finds at a text's offset is the text.               *)
LEMMA FoundIsText ==
  ASSUME IInv, TextsFitPages, NEW k \in DOMAIN offsets
  PROVE  Located(offsets[k], Length(k)) = TextBytes(k)
<1>1. InPlace(k)
  BY Zenon DEF IInv, TextsInPlace
<1>2. QED
  BY <1>1, Zenon DEF InPlace, FileOf, PlaceOf, Located

(* The table of Placement in terms of the offsets alone.                   *)
Table == [k \in DOMAIN call.lens |->
            IF k \in DOMAIN offsets THEN TextBytes(k) ELSE <<>>]
Meaning == [k \in DOMAIN call.lens |-> TextBytes(k)]
TableFound == [k \in DOMAIN call.lens |->
                 IF k \in DOMAIN offsets THEN Located(offsets[k], Length(k))
                 ELSE <<>>]

(* The refinement mapping and the table of offsets say the same.           *)
LEMMA TableIsFound == IInv /\ TextsFitPages => TableFound = Table
  BY FoundIsText, Zenon DEF Table, TableFound

(* A text put is a text placed; every other step is a stutter.             *)
LEMMA StepPlaces ==
  ASSUME IInv, TextsFitPages, IInv', TextsFitPages', [Next]_vars
  PROVE  \/ UNCHANGED <<Meaning, TableFound>>
         \/ \E x \in DOMAIN Meaning :
              /\ TableFound[x] = <<>>
              /\ TableFound' = [TableFound EXCEPT ![x] = Meaning[x]]
              /\ UNCHANGED Meaning
<1>1. TableFound = Table /\ TableFound' = Table'
  <2>1. TableFound = Table
    BY TableIsFound
  <2>2. TableFound' = Table'
    <3>1. (IInv /\ TextsFitPages => TableFound = Table)'
      BY TableIsFound, PTL
    <3>2. QED
      BY <3>1
  <2>3. QED
    BY <2>1, <2>2
<1>2. UNCHANGED call
  BY Zenon DEF Next, vars, Refuse, OpenFirst, NextFile, NextPage, PutText, Close,
         CannotOpen, WriteFails, Returned
<1>3. \A k : TextBytes(k)' = TextBytes(k)
  BY <1>2, TextsStay, Zenon
<1>4. UNCHANGED Meaning
  BY <1>2, <1>3, Zenon DEF Meaning
<1>5. CASE UNCHANGED offsets
  <2>1. Table' = Table
    BY <1>2, <1>3, <1>5, Zenon DEF Table
  <2>2. QED
    BY <1>1, <1>4, <2>1
<1>6. CASE PutText
  <2>1. i \in DOMAIN call.lens
    BY <1>6, RoomForText
  <2>2. /\ offsets \in Seq(Nat) /\ i = Len(offsets) + 1 /\ offsets' \in Seq(Nat)
        /\ Len(offsets') = Len(offsets) + 1
    <3>1. offsets \in Seq(Nat) /\ i = Len(offsets) + 1 /\ offsets' \in Seq(Nat)
      BY DEF IInv, TypeOK, LoopCounts
    <3>2. i' = Len(offsets') + 1 /\ i' = i + 1
      BY <1>6 DEF IInv, LoopCounts, PutText
    <3>3. QED
      BY <3>1, <3>2
  <2>3. i \notin DOMAIN offsets /\ DOMAIN offsets' = DOMAIN offsets \cup {i}
    BY <2>2
  <2>4. /\ Table[i] = <<>> /\ Meaning[i] = TextBytes(i)
        /\ i \in DOMAIN Meaning
    BY <2>1, <2>3, Zenon DEF Table, Meaning
  <2>5. Table' = [k \in DOMAIN call.lens |->
                    IF k \in DOMAIN offsets' THEN TextBytes(k) ELSE <<>>]
    BY <1>2, <1>3, Zenon DEF Table
  <2>6. [Table EXCEPT ![i] = Meaning[i]]
          = [k \in DOMAIN call.lens |-> IF k = i THEN TextBytes(i) ELSE Table[k]]
    BY <2>4 DEF Table
  <2>7. \A k \in DOMAIN call.lens :
          (IF k \in DOMAIN offsets' THEN TextBytes(k) ELSE <<>>)
            = (IF k = i THEN TextBytes(i) ELSE Table[k])
    BY <2>3, Zenon DEF Table
  <2>8. Table' = [Table EXCEPT ![i] = Meaning[i]]
    BY <2>5, <2>6, <2>7, Zenon
  <2>9. QED
    BY <1>1, <1>4, <2>4, <2>8, Zenon
<1>7. QED
  <2>1. PutText \/ UNCHANGED offsets
    BY Zenon DEF Next, vars, Refuse, OpenFirst, NextFile, NextPage, Close,
           CannotOpen, WriteFails, Returned
  <2>2. QED
    BY <1>5, <1>6, <2>1

(* What the emitter promises: every text becomes readable at its offset,   *)
(* whole, in one file, one after another, and stays readable, until a      *)
(* fault ends the call (each of its steps is a step of Placement or none). *)
THEOREM TextsArePlaced == TextsFitPages /\ Spec => ImplementsPlacement
<1>1. Init => TextTable!Init
  <2> SUFFICES ASSUME Init PROVE TextTable!Init
    OBVIOUS
  <2>1. DOMAIN offsets = {}
    BY DEF Init
  <2>2. QED
    BY <2>1 DEF TextTable!Init
<1>2. ASSUME IInv, TextsFitPages, IInv', TextsFitPages', [Next]_vars
      PROVE  [TextTable!Next]_TextTable!vars
  <2>1. \/ UNCHANGED <<Meaning, TableFound>>
        \/ \E x \in DOMAIN Meaning :
             /\ TableFound[x] = <<>>
             /\ TableFound' = [TableFound EXCEPT ![x] = Meaning[x]]
             /\ UNCHANGED Meaning
    BY <1>2, StepPlaces
  <2>2. QED
    BY <2>1, Zenon DEF TextTable!Next, TextTable!Place, TextTable!vars, Meaning,
                       TableFound
<1>3. QED
  BY <1>1, <1>2, Invariance, FittingStays, PTL DEF Spec, ImplementsPlacement
=============================================================================
