------------------------------ MODULE Escapes -------------------------------
(***************************************************************************)
(* What becomes of a text between the source and the text tables: it is    *)
(* converted for the JSON document (src/src/front/jsonexport.c), read from *)
(* it as a JSON string (src/src/json.c), and converted again               *)
(* (src/src/model.c).  Each conversion replaces one sequence after another *)
(* in the whole text, so what one pass writes the next may read.           *)
(*                                                                         *)
(* A text is a sequence of bytes.  In the document an escape \u00hh is one *)
(* mark, U(code): no pass looks for a sequence that reaches into one.      *)
(***************************************************************************)
EXTENDS Integers, Sequences, SequencesExt

Sharp == 35
Quote == 34
Backslash == 92
CR == 13
GraphOn == 14     \* the second character set from here on ...
GraphOff == 15    \* ... and up to here
U(code) == 1000 + code

(* Where two neighbours stand that f is defined for, what f gives; the     *)
(* pairs of one f do not overlap.                                          *)
Substitute(s, f) ==
  LET Hit(i) == i \in 1..Len(s) - 1 /\ <<s[i], s[i + 1]>> \in DOMAIN f
  IN  FlattenSeq([i \in DOMAIN s |-> IF Hit(i) THEN f[<<s[i], s[i + 1]>>]
                                     ELSE IF Hit(i - 1) THEN <<>> ELSE <<s[i]>>])

(* ---------------------- the letters of the machine --------------------- *)
Place(bytes, b) == SelectInSeq(bytes, LAMBDA x : x = b) - 1

(* Bytes of Latin-1 with a code of their own, from 16 on, and the sharp s; *)
Direct == <<170, 161, 191, 171, 187, 225, 233, 237, 243, 250, 241, 209, 231, 199, 252, 220>>
DirectCode ==
  [b \in ToSet(Direct) |-> 16 + Place(Direct, b)] @@ (223 :> 127)

(* those with a code of the second character set, in runs from a code on;  *)
Wrapped == <<
  [from |-> 123, bytes |-> <<193, 201, 205, 211, 218>>],
  [from |-> 16, bytes |-> <<224, 227, 228, 226, 232, 235, 234, 236, 239, 238,
                            242, 245, 246, 244, 249, 251>>],
  [from |-> 32, bytes |-> <<192, 195, 196, 194, 200, 203, 202, 204, 207, 206,
                            210, 213, 214, 212, 217, 219>>],
  [from |-> 58, bytes |-> <<253, 221, 254, 222, 229, 197>>],
  [from |-> 91, bytes |-> <<240, 208, 248, 216>>]>>
WrappedCode ==
  [b \in UNION {ToSet(r.bytes) : r \in ToSet(Wrapped)} |->
     LET run == CHOOSE r \in ToSet(Wrapped) : b \in ToSet(r.bytes)
     IN  run.from + Place(run.bytes, b)]

(* and all of them in plain ASCII.                                         *)
Spellings == {
  <<{170, 225, 224, 227, 228, 226, 229}, <<97>>>>, <<{193, 192, 195, 196, 194, 197}, <<65>>>>,
  <<{233, 232, 235, 234}, <<101>>>>, <<{201, 200, 203, 202}, <<69>>>>,
  <<{237, 236, 239, 238}, <<105>>>>, <<{205, 204, 207, 206}, <<73>>>>,
  <<{243, 242, 245, 246, 244, 248}, <<111>>>>, <<{211, 210, 213, 214, 212, 216}, <<79>>>>,
  <<{250, 249, 251, 252}, <<117>>>>, <<{218, 217, 219, 220}, <<85>>>>,
  <<{161, 191}, <<Sharp>>>>, <<{171}, <<60, 60>>>>, <<{187}, <<62, 62>>>>,
  <<{241}, <<110, 121>>>>, <<{209}, <<78, 89>>>>, <<{231}, <<99>>>>, <<{199}, <<67>>>>,
  <<{223}, <<115, 115>>>>, <<{253}, <<121>>>>, <<{221}, <<89>>>>,
  <<{254}, <<116, 104>>>>, <<{222}, <<84, 104>>>>, <<{240}, <<100>>>>, <<{208}, <<68>>>>}
Ascii7 == [b \in UNION {s[1] : s \in Spellings} |-> (CHOOSE s \in Spellings : b \in s[1])[2]]

(* ------------------------------ the escapes ---------------------------- *)
(* The letter behind a sharp and the code it stands for: g t b s f, and    *)
(* k n r A to P.                                                           *)
Plain == (103 :> GraphOn) @@ (116 :> GraphOff) @@ (98 :> 11) @@ (115 :> 32) @@ (102 :> 127)
Late == (107 :> 12) @@ (110 :> CR) @@ (114 :> CR) @@ [letter \in 65..80 |-> letter - 49]
Codes == Plain @@ Late
Euro == 101
Euros == <<Sharp, 103, U(96), Sharp, 116>>

(* -------------------------- jsonexport.c: source ----------------------- *)
Escaped(s) == FlattenSeq([i \in DOMAIN s |-> IF s[i] = Quote THEN <<Backslash, Quote>>
                                             ELSE <<s[i]>>])

(* A double quote that has a backslash gets another.                       *)
MutantFixDoubleQuotes(s) == Escaped(s)

(* A double quote gets a backslash, unless it has one.                     *)
FixDoubleQuotes(s) ==
  LET q == Escaped(s)
      Twice(i) == i \in 1..Len(q) - 2 /\ SubSeq(q, i, i + 2) = <<Backslash, Backslash, Quote>>
  IN  FlattenSeq([i \in DOMAIN q |-> IF Twice(i) THEN <<>> ELSE <<q[i]>>])

CaseMap(s, ascii7) ==
  LET Letter(b) == CASE ascii7 /\ b \in DOMAIN Ascii7 -> Ascii7[b]
                     [] ~ascii7 /\ b \in DOMAIN DirectCode -> <<U(DirectCode[b])>>
                     [] ~ascii7 /\ b \in DOMAIN WrappedCode ->
                          <<Sharp, 103, U(WrappedCode[b]), Sharp, 116>>
                     [] OTHER -> <<b>>
  IN  FlattenSeq([i \in DOMAIN s |-> Letter(s[i])])

(* The replacements in their order, as far as one can read another's       *)
(* result: the euro first, then g t b s f, then the rest.                  *)
EscapePass(s, ascii7) ==
  LET euro == [p \in {<<Sharp, Euro>>} |-> IF ascii7 THEN <<Euro>> ELSE Euros]
      plain == [p \in {Sharp} \X DOMAIN Plain |->
                  CASE p[2] = 102 /\ ascii7 -> <<>>
                    [] p[2] = 115 -> <<32>>
                    [] OTHER -> <<U(Plain[p[2]])>>]
      late == [p \in ({Sharp} \X DOMAIN Late) \cup ({Backslash} \X {110, 114}) |->
                 <<U(IF p[1] = Sharp THEN Late[p[2]] ELSE CR)>>]
  IN  Substitute(Substitute(Substitute(s, euro), plain), late)

Exported(s, ascii7) == EscapePass(CaseMap(FixDoubleQuotes(s), ascii7), ascii7)

(* ----------------------------- json.c: string -------------------------- *)
(* A backslash and " \ / b f n r t.                                        *)
JsonEscapes == (Quote :> Quote) @@ (Backslash :> Backslash) @@ (47 :> 47) @@ (98 :> 8)
                 @@ (102 :> 12) @@ (110 :> 10) @@ (114 :> CR) @@ (116 :> 9)

(* A byte over 127 becomes the two of UTF-8.                               *)
HighByte(b) == IF b <= 191 THEN <<194, b>> ELSE <<195, b - 64>>
Utf8(b) == IF b > 127 THEN HighByte(b) ELSE <<b>>

(* A digit of four behind \u; and a mark as the document spells it, with   *)
(* the codes from 10 to 15 in small letters.                               *)
HexValue == [b \in (48..57) \cup (65..70) \cup (97..102) |->
               b - IF b < 58 THEN 48 ELSE IF b < 71 THEN 55 ELSE 87]
HexDigit(d, code) == d + IF d < 10 THEN 48 ELSE IF code < 16 THEN 87 ELSE 55
Spelling(code) ==
  <<Backslash, 117, 48, 48, HexDigit(code \div 16, code), HexDigit(code % 16, code)>>

(* Behind a backslash, which takes a mark's own backslash for its letter;  *)
EscapeRead(r, c) ==
  IF c \in DOMAIN JsonEscapes
  THEN [r EXCEPT !.text = Append(@, JsonEscapes[c]), !.escape = FALSE]
  ELSE IF c = 117 THEN [r EXCEPT !.escape = FALSE, !.left = 4, !.code = 0]
  ELSE IF c >= U(0)
  THEN [r EXCEPT !.text = @ \o Spelling(c - U(0)), !.escape = FALSE]
  ELSE [r EXCEPT !.bad = TRUE]

(* with digits left to read;                                               *)
DigitRead(r, c) ==
  LET code == 16 * r.code + HexValue[c]
  IN  IF c \notin DOMAIN HexValue \/ code > 255 THEN [r EXCEPT !.bad = TRUE]
      ELSE IF r.left > 1 THEN [r EXCEPT !.code = code, !.left = @ - 1]
      ELSE [r EXCEPT !.text = @ \o Utf8(code), !.left = 0]

(* and anywhere.                                                           *)
CharRead(r, c) ==
  IF r.left > 0 THEN DigitRead(r, c)
  ELSE IF r.escape THEN EscapeRead(r, c)
  ELSE IF c = Backslash THEN [r EXCEPT !.escape = TRUE]
  ELSE IF c = Quote THEN [r EXCEPT !.bad = TRUE]
  ELSE [r EXCEPT !.text = @ \o IF c >= U(0) THEN <<c - U(0)>> ELSE Utf8(c)]

NothingRead == [text |-> <<>>, escape |-> FALSE, left |-> 0, code |-> 0, bad |-> FALSE]

Decoded(s) ==
  LET read[i \in 1 .. Len(s) + 1] ==
        IF i = 1 THEN NothingRead ELSE CharRead(read[i - 1], s[i - 1])
      end == read[Len(s) + 1]
  IN  [text |-> end.text, bad |-> end.bad \/ end.escape \/ end.left > 0]

(* ------------------------------- model.c ------------------------------- *)
(* The conversion of UTF-8 pairs that comes first finds none: the bytes it *)
(* knows have been converted for the document.  A doubled sharp is one,    *)
(* counted from the left of a row of them.                                 *)
SharpsBefore(s, i) ==
  i - 1 - Max({0} \cup {j \in 1..i - 1 : s[j] # Sharp})

ReplaceChars(s) ==
  LET escaped == Substitute(s, [p \in {Sharp} \X DOMAIN Codes |-> <<Codes[p[2]]>>])
      lines == [i \in DOMAIN escaped |-> IF escaped[i] = 10 THEN CR ELSE escaped[i]]
  IN  FlattenSeq([i \in DOMAIN lines |->
        IF lines[i] = Sharp /\ SharpsBefore(lines, i) % 2 = 1 THEN <<>> ELSE <<lines[i]>>])

Readable(s) == \A i \in DOMAIN s : s[i] \in 0..127

Loaded(s, ascii7) == ReplaceChars(Decoded(Exported(s, ascii7)).text)
Accepted(s, ascii7) == ~Decoded(Exported(s, ascii7)).bad /\ Readable(Loaded(s, ascii7))

(* ------------------------- what a text stands for ---------------------- *)
(* Read from left to right: an escape, or a letter.                        *)
Pairs(ascii7) ==
  (IF ascii7 THEN <<Sharp, Euro>> :> <<Euro>> @@ <<Sharp, 102>> :> <<>>
   ELSE <<Sharp, Euro>> :> <<GraphOn, 96, GraphOff>>)
    @@ [p \in {Sharp} \X DOMAIN Codes |-> <<Codes[p[2]]>>]
    @@ (<<Sharp, Sharp>> :> <<Sharp>>)
    @@ (<<Backslash, Quote>> :> <<Quote>>)
    @@ [p \in {Backslash} \X {110, 114} |-> <<CR>>]

Letter(b, ascii7) ==
  CASE ascii7 /\ b \in DOMAIN Ascii7 -> Ascii7[b]
    [] ~ascii7 /\ b \in DOMAIN DirectCode -> <<DirectCode[b]>>
    [] ~ascii7 /\ b \in DOMAIN WrappedCode -> <<GraphOn, WrappedCode[b], GraphOff>>
    [] OTHER -> <<b>>

Meaning(s, ascii7) ==
  LET pairs == Pairs(ascii7)
      From[i \in 1..Len(s) + 2] ==
        IF i > Len(s) THEN <<>>
        ELSE IF i < Len(s) /\ <<s[i], s[i + 1]>> \in DOMAIN pairs
        THEN pairs[<<s[i], s[i + 1]>>] \o From[i + 2]
        ELSE Letter(s[i], ascii7) \o From[i + 1]
  IN  From[1]

(* A text in which no two readings compete: each sharp and each backslash  *)
(* starts a pair or ends "##", a "##" stands before no letter of an escape *)
(* and, with -7, what becomes a sharp stands before neither.               *)
Plainly(s, ascii7) ==
  LET pairs == Pairs(ascii7)
      Starts[i \in 1..Len(s) + 2] ==
        IF i > Len(s) THEN {}
        ELSE {i} \cup Starts[IF i < Len(s) /\ <<s[i], s[i + 1]>> \in DOMAIN pairs
                             THEN i + 2 ELSE i + 1]
      letters == DOMAIN Codes \cup {Euro}
      inverted == {161, 191}
      Next(i) == IF i < Len(s) THEN s[i + 1] ELSE 0
  IN  \A i \in Starts[1] :
        /\ s[i] \in {Sharp, Backslash} => <<s[i], Next(i)>> \in DOMAIN pairs
        /\ s[i] = Sharp /\ Next(i) = Sharp /\ i + 1 < Len(s) => s[i + 2] \notin letters
        /\ ascii7 /\ s[i] \in inverted => Next(i) \notin letters \cup inverted \cup {Sharp}
=============================================================================
