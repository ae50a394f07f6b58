------------------------------ MODULE Database ------------------------------
(***************************************************************************)
(* From the source's data to the database file: the sections are parsed    *)
(* (DataSections), their texts pass through the JSON document (Escapes),   *)
(* and the driver src/src/backend.c writes header, externs, text tables,   *)
(* object tables, vocabulary, tokens, connections and processes, noting    *)
(* where each begins, and patches the header last.                         *)
(*                                                                         *)
(* The file is what was written; the address is counted beside it, by each *)
(* emitter for itself, and every offset comes from the address.  Texts are *)
(* written as if no token occurred in them, format 2 streams as the text   *)
(* and an end mark: Tokens and Text2 have the coding, MsgTable sharing and *)
(* the split between memory and XMB, ProcDump what processes hold.         *)
(***************************************************************************)
EXTENDS DataSections, Escapes

(* What the options, the target and the externs can be.                    *)
ASSUME OptionsAssumption ==
  \A j \in Jobs :
    /\ {j.ascii7, j.v3, j.big, j.padding, j.noPadding, j.text2, j.hasTokens, j.plus3} \subseteq BOOLEAN
    /\ j.machine \in 0..15 /\ j.lang \in 0..1 /\ j.submachine \in 0..255
    /\ {j.base, j.tokens, j.code, j.processes, j.xmessageSize} \subseteq Nat
    /\ j.externs \in Seq([type : 0..2, bytes : Seq(0..255)])

VARIABLES
  loaded,    \* the text tables as the model holds them
  db,        \* what was written, the address after it, format 2's region
  offsets,   \* the header's words, by number
  extvec     \* and its first three vectors: EXTERN, SFX, INT

source == <<job, rest, section, symbols, voc, texts, location, connections, objects>>
vars == <<source, status, loaded, db, offsets, extvec>>

(* ------------------------------- writing ------------------------------- *)
Byte(value) == value % 256
Word(value) ==
  LET w == value % 65536
  IN  IF job.big THEN <<w \div 256, w % 256>> ELSE <<w % 256, w \div 256>>
Fill(n) == [i \in 1..n |-> 0]
TokenBytes == [i \in 1..job.tokens |-> 301]      \* what Tokens and Text2 model
CondactBytes == [i \in 1..job.code |-> 302]      \* what ProcDump models

(* An emitter appends bytes and counts the address up by n.                *)
Push(d, bytes, n) == [out |-> d.out \o bytes, addr |-> d.addr + n, region |-> d.region]
Pad(d) == IF job.padding /\ d.addr % 2 = 1 THEN Push(d, <<0>>, 1) ELSE d
Words(d, values) == Push(d, FlattenSeq([i \in DOMAIN values |-> Word(values[i])]),
                         2 * Len(values))

(* An item, behind those that begin at the places at: in the file, or in   *)
(* format 2's region, whose places count from its start.                   *)
InFile(d, at, item) == [db |-> Push(d, item, Len(item)), at |-> Append(at, d.addr)]
InRegion(d, at, item) ==
  [db |-> [out |-> d.out, addr |-> d.addr, region |-> d.region \o item],
   at |-> Append(at, Len(d.region))]

(* The place of an item is noted before the padding in front of it.        *)
MutantLay(s, item, how) ==
  CASE how = "plain" -> InFile(s.db, s.at, item)
    [] how = "padded" -> [db |-> InFile(Pad(s.db), s.at, item).db,
                          at |-> Append(s.at, s.db.addr)]
    [] how = "region" -> InRegion(s.db, s.at, item)

Lay(s, item, how) ==
  CASE how = "plain" -> InFile(s.db, s.at, item)
    [] how = "padded" -> InFile(Pad(s.db), s.at, item)
    [] how = "region" -> InRegion(s.db, s.at, item)

(* Items one after the other, and where each begins.                       *)
Laid(d, items, how) ==
  LET laid[i \in 1 .. Len(items) + 1] ==
        IF i = 1 THEN [db |-> d, at |-> <<>>] ELSE Lay(laid[i - 1], items[i - 1], how)
  IN  laid[Len(items) + 1]

(* ------------------------------- emitters ------------------------------ *)
Invert(byte) == 255 - byte
EndOfText == 245
EndOfStream == 256

EmitHeader(d) ==
  LET counts == <<Len(objects), Len(loaded.LTX), Len(loaded.MTX), Len(loaded.STX),
                  job.processes>>
  IN  Push(d, <<IF job.v3 THEN 3 ELSE 2, 16 * job.machine + job.lang, job.submachine>>
                \o [i \in DOMAIN counts |-> Byte(counts[i])] \o Fill(26) \o Fill(26), 60)

(* One text after the other with a mark behind it, then where they are; in *)
(* format 2 the texts go to the region instead.                            *)
Items(table) ==
  [i \in DOMAIN loaded[table] |->
     LET text == loaded[table][i]
     IN  IF job.text2 THEN Append(text, EndOfStream)
         ELSE Append([k \in DOMAIN text |-> Invert(text[k])], EndOfText)]

EmitMessages(d, table) ==
  LET end == Laid(d, Items(table), IF job.text2 THEN "region" ELSE "padded")
  IN  Words(Pad(end.db), end.at)

ObjectWords ==
  FlattenSeq([i \in DOMAIN objects |-> <<Byte(objects[i].noun), Byte(objects[i].adjective)>>])
EmitObjectNames(d) == Push(d, ObjectWords, 2 * Len(objects))

ObjectWeights ==
  LET Attributes(o) == (o.weight % 64) + (IF o.container THEN 64 ELSE 0)
                         + (IF o.wearable THEN 128 ELSE 0)
  IN  [i \in DOMAIN objects |-> Attributes(objects[i])]
EmitWeights(d) == Push(d, ObjectWeights, Len(objects))

EmitExtra(d) == Words(d, [i \in DOMAIN objects |-> objects[i].flags])

ObjectPlaces == Append([i \in DOMAIN objects |-> Byte(objects[i].initially)], 255)
EmitInitially(d) == Push(d, ObjectPlaces, Len(objects) + 1)

(* A word comes from the document in UTF-8: the letters behind 195 that    *)
(* have a code get it, the others are lost.                                *)
VocCodes ==
  (161 :> 21) @@ (169 :> 22) @@ (173 :> 23) @@ (179 :> 24) @@ (186 :> 25)
    @@ (129 :> 21) @@ (137 :> 22) @@ (141 :> 23) @@ (147 :> 24) @@ (154 :> 25)
    @@ (145 :> 27) @@ (177 :> 27) @@ (156 :> 31) @@ (188 :> 31) @@ (135 :> 29) @@ (167 :> 29)

Spelled(word) ==
  LET utf8 == FlattenSeq([i \in DOMAIN word |-> IF word[i] > 127 THEN HighByte(word[i])
                                                ELSE <<word[i]>>])
      Step(s, byte) ==
        IF s.lead THEN [lead |-> FALSE, word |-> s.word \o IF byte \in DOMAIN VocCodes
                                                           THEN <<VocCodes[byte]>> ELSE <<>>]
        ELSE IF byte = 195 THEN [s EXCEPT !.lead = TRUE]
        ELSE IF byte = 128 THEN s
        ELSE [s EXCEPT !.word = Append(@, byte)]
      letters == FoldLeft(Step, [lead |-> FALSE, word |-> <<>>], utf8).word \o <<32, 32, 32, 32, 32>>
  IN  [i \in 1..5 |-> IF letters[i] \in 97..122 THEN letters[i] - 32 ELSE letters[i]]

WordRecords ==
  LET Record(w) == [i \in 1..5 |-> Invert(Spelled(w.word)[i])] \o <<Byte(w.value), w.type>>
  IN  Append(FlattenSeq([i \in DOMAIN voc |-> Record(voc[i])]), 0)
EmitVocabulary(d) == Push(d, WordRecords, 7 * Len(voc) + 1)

(* The pairs of each location, in the order they came, and 255.            *)
Exits ==
  LET PairsOf(l) == FlattenSeq([i \in DOMAIN connections |->
                                  IF connections[i].from = l
                                  THEN <<Byte(connections[i].direction), Byte(connections[i].to)>>
                                  ELSE <<>>])
  IN  [i \in DOMAIN loaded.LTX |-> Append(PairsOf(i - 1), 255)]

(* The lookup is noted before the padding in front of it.                  *)
MutantEmitConnections(d) ==
  LET end == Laid(d, Exits, "padded")
      lookup == Pad(end.db)
  IN  [db |-> Pad(Words(lookup, end.at)), lookup |-> end.db.addr]

(* The lookup is padded on both sides.                                     *)
EmitConnections(d) ==
  LET end == Laid(d, Exits, "padded")
      lookup == Pad(end.db)
  IN  [db |-> Pad(Words(lookup, end.at)), lookup |-> lookup.addr]

(* Condacts as so many bytes, then processes without entries.              *)
EmitProcesses(d) ==
  LET end == Laid(Push(d, CondactBytes, job.code), [i \in 1..job.processes |-> <<0>>], "padded")
  IN  Words(Pad(end.db), end.at)

(* --------------------------------- driver ------------------------------ *)
(* A step of the driver writes something and notes header words.           *)
Emit(stage, next, d, words) ==
  /\ status = stage
  /\ status' = next
  /\ db' = d
  /\ offsets' = [k \in DOMAIN words \cup DOMAIN offsets |->
                  IF k \in DOMAIN words THEN words[k] ELSE offsets[k]]
  /\ UNCHANGED <<source, loaded, extvec>>

(* The document is written and read; a text that is no string, or holds a  *)
(* byte no target can show, ends the run.                                  *)
AllAccepted == \A t \in Tables : \A text \in ToSet(texts[t]) : Accepted(text, job.ascii7)

LoadModel ==
  /\ status = "parsed" /\ AllAccepted
  /\ status' = "loaded"
  /\ loaded' = [t \in Tables |-> [i \in DOMAIN texts[t] |-> Loaded(texts[t][i], job.ascii7)]]
  /\ UNCHANGED <<source, db, offsets, extvec>>

RefuseText ==
  /\ status = "parsed" /\ ~AllAccepted
  /\ status' = "unreadable"
  /\ UNCHANGED <<source, loaded, db, offsets, extvec>>

WriteHeader == Emit("loaded", "header", EmitHeader(db), <<>>)

(* The files in their order, each noted as its type's vector; one that     *)
(* does not exist stands here without bytes.                               *)
Missing == \E i \in DOMAIN job.externs : job.externs[i].bytes = <<>>

WriteExterns ==
  /\ status = "header" /\ ~Missing
  /\ LET end == Laid(db, [i \in DOMAIN job.externs |-> job.externs[i].bytes], "plain")
         Of(k) == {i \in DOMAIN job.externs : job.externs[i].type = k}
     IN  /\ db' = end.db
         /\ extvec' = [k \in 0..2 |-> IF Of(k) = {} THEN extvec[k] ELSE end.at[Max(Of(k))]]
  /\ status' = "externs"
  /\ UNCHANGED <<source, loaded, offsets>>

MissingExtern ==
  /\ status = "header" /\ Missing
  /\ status' = "missing"
  /\ UNCHANGED <<source, loaded, db, offsets, extvec>>

(* With -np the first padding writes what there is and ends the program.   *)
Truncate ==
  /\ status = "externs" /\ job.noPadding
  /\ status' = "truncated"
  /\ UNCHANGED <<source, loaded, db, offsets, extvec>>

WriteObjectTexts ==
  /\ ~job.noPadding
  /\ \E d \in {EmitMessages(Pad(db), "OTX")} :
       Emit("externs", "OTX", Pad(d), [k \in {2} |-> d.addr - 2 * Len(objects)])

WriteObjects ==
  \E names \in {EmitObjectNames(db)} : \E weights \in {Pad(EmitWeights(names))} :
    \E extra \in {EmitExtra(weights)} :
      Emit("OTX", "objects", Pad(EmitInitially(extra)),
           [k \in 8..11 |-> CASE k = 9 -> db.addr [] k = 10 -> names.addr
                              [] k = 11 -> weights.addr [] k = 8 -> extra.addr])

WriteVocabulary ==
  \E d \in {Pad(db)} : Emit("objects", "vocabulary", Pad(EmitVocabulary(d)), [k \in {7} |-> d.addr])

WriteTokens ==
  Emit("vocabulary", "tokens",
       Pad(IF job.text2 THEN db ELSE Push(db, TokenBytes, job.tokens)),
       [k \in {0} |-> IF job.hasTokens /\ ~job.text2 THEN db.addr ELSE 0])

WriteTexts(stage, table, word) ==
  \E d \in {EmitMessages(db, table)} :
    Emit(stage, table, Pad(d), [k \in {word} |-> d.addr - 2 * Len(loaded[table])])
WriteSTX == WriteTexts("tokens", "STX", 5)
WriteMTX == WriteTexts("STX", "MTX", 4)
WriteLTX == WriteTexts("MTX", "LTX", 3)

WriteConnections ==
  \E c \in {EmitConnections(db)} : Emit("LTX", "connections", c.db, [k \in {6} |-> c.lookup])

WriteProcesses ==
  \E d \in {EmitProcesses(db)} :
    Emit("connections", "processes", d, [k \in {1} |-> d.addr - 2 * job.processes])

(* The words go where the zeros stand; a file that ends beyond 64K is not  *)
(* written, nor one whose region does.                                     *)
FileSize == IF job.xmessageSize # 0 /\ job.plus3 THEN job.xmessageSize
            ELSE IF job.text2 THEN db.addr - job.base ELSE db.addr
HeaderWords ==
  [k \in 1..16 |-> IF k <= 12 THEN offsets[k - 1]
                   ELSE IF k = 13 THEN FileSize ELSE extvec[k - 14]]

PatchHeader ==
  /\ status = "processes"
  /\ LET bytes == FlattenSeq([k \in 1..16 |-> Word(HeaderWords[k])])
         version == db.out[1] + (IF job.text2 THEN 128 ELSE 0)
         Patched(i) == IF i = 1 THEN version
                       ELSE IF i \in 9..40 THEN bytes[i - 8] ELSE db.out[i]
     IN  db' = [out |-> [i \in DOMAIN db.out |-> Patched(i)],
                addr |-> db.addr, region |-> db.region]
  /\ status' = IF db.addr > 65535 \/ (job.text2 /\ Len(db.region) > 65535)
               THEN "overflow" ELSE "done"
  /\ UNCHANGED <<source, loaded, offsets, extvec>>

Init ==
  /\ FrontInit
  /\ loaded = [t \in Tables |-> <<>>]
  /\ db = [out |-> <<>>, addr |-> job.base,
           region |-> IF job.text2 THEN TokenBytes ELSE <<>>]
  /\ offsets = <<>> /\ extvec = [k \in 0..2 |-> 0]

Next ==
  \/ ParseNext /\ UNCHANGED <<loaded, db, offsets, extvec>>
  \/ LoadModel \/ RefuseText \/ WriteHeader \/ WriteExterns \/ MissingExtern \/ Truncate
  \/ WriteObjectTexts \/ WriteObjects \/ WriteVocabulary \/ WriteTokens
  \/ WriteSTX \/ WriteMTX \/ WriteLTX \/ WriteConnections \/ WriteProcesses \/ PatchHeader

Spec == Init /\ [][Next]_vars

(* ------------------- the file, as an interpreter reads it -------------- *)
At(address) ==
  LET i == address - job.base + 1 IN IF i \in DOMAIN db.out THEN db.out[i] ELSE -1
WordAt(address) ==
  IF job.big THEN 256 * At(address) + At(address + 1) ELSE 256 * At(address + 1) + At(address)
HeaderWord(k) == WordAt(job.base + 8 + 2 * k)

(* What stands before the first byte that is stop.                         *)
UpTo(bytes, stop) == SubSeq(bytes, 1, SelectInSeq(bytes, LAMBDA b : b = stop) - 1)
From(address) ==
  IF address < job.base THEN <<>> ELSE SubSeq(db.out, address - job.base + 1, Len(db.out))

TextAt(word) ==
  IF job.text2 THEN UpTo(SubSeq(db.region, word + 1, Len(db.region)), EndOfStream)
  ELSE LET stored == UpTo(From(word), EndOfText) IN [i \in DOMAIN stored |-> Invert(stored[i])]

PairsAt(address) ==
  LET bytes == From(address)
      end == Min({k \in 0..Len(bytes) \div 2 : 2 * k >= Len(bytes) - 1 \/ bytes[2 * k + 1] = 255})
  IN  [k \in 1..end |-> <<bytes[2 * k - 1], bytes[2 * k]>>]

(* ------------------------ the source, as it is meant ------------------- *)
Mark(name) == SelectInSeq(job.source, LAMBDA t : t.kind = name)
Written(name) == SubSeq(job.source, Mark(name) + 1, Mark(After(name)) - 1)
ByteOf(token) == Byte(Value(token))

WordLetters(word) ==
  LET codes == (225 :> 21) @@ (233 :> 22) @@ (237 :> 23) @@ (243 :> 24) @@ (250 :> 25)
                 @@ (241 :> 27) @@ (231 :> 29) @@ (252 :> 31)
      folded == Canonical(word)
  IN  [i \in 1..5 |-> IF i > Len(folded) THEN 32
                      ELSE IF folded[i] \in DOMAIN codes THEN codes[folded[i]] ELSE folded[i]]
WrittenWord(word) == IF word.kind = "blank" THEN 255
                     ELSE Byte(Get(symbols, Upper(VocSymbol(Canonical(word.text)))))
WrittenWords ==
  LET t == Written("VOC")
  IN  {<<WordLetters(t[3 * i - 2].text), ByteOf(t[3 * i - 1]), Types[Upper(t[3 * i].text)]>> :
         i \in 1..Len(t) \div 3}

(* The pairs between a location's entry and the next.                      *)
WrittenPairs(l) ==
  LET t == Written("CON") \o <<Entry(0)>>
      entries == {i \in DOMAIN t : t[i].kind = "entry"}
      Nth(n) == CHOOSE i \in entries : Cardinality({j \in entries : j < i}) = n
  IN  [k \in 1..(Nth(l + 1) - Nth(l)) \div 2 |->
         <<WrittenWord(t[Nth(l) + 2 * k - 1]), ByteOf(t[Nth(l) + 2 * k])>>]

(* ------------------------------ properties ----------------------------- *)
CountsRead ==
  /\ At(job.base) % 128 = (IF job.v3 THEN 3 ELSE 2)
  /\ At(job.base) >= 128 <=> job.text2
  /\ At(job.base + 1) \div 16 = job.machine /\ At(job.base + 1) % 16 = job.lang
  /\ [k \in 1..5 |-> At(job.base + 2 + k)] =
       <<Len(loaded.OTX), Len(loaded.LTX), Len(loaded.MTX), Len(loaded.STX),
         Byte(job.processes)>>

TextsRead ==
  LET Reads(table, word) ==
        [i \in DOMAIN loaded[table] |-> TextAt(WordAt(HeaderWord(word) + 2 * (i - 1)))]
          = loaded[table]
  IN  Reads("OTX", 2) /\ Reads("LTX", 3) /\ Reads("MTX", 4) /\ Reads("STX", 5)

ObjectsRead ==
  \A i \in DOMAIN loaded.OTX :
    LET t == SubSeq(Written("OBJ"), ObjectTokens * (i - 1) + 1, ObjectTokens * i)
        attributes == At(HeaderWord(10) + i - 1)
        flags == WordAt(HeaderWord(11) + 2 * (i - 1))
    IN  /\ At(HeaderWord(8) + i - 1) = Byte(StartsAt(t[2]))
        /\ attributes % 64 = Value(t[3]) % 64
        /\ (attributes \div 64) % 2 = 1 <=> Yes(t[4])
        /\ attributes \div 128 = 1 <=> Yes(t[5])
        /\ \A k \in 0..15 : (flags \div 2 ^ (15 - k)) % 2 = 1 <=> Yes(t[6 + k])
        /\ At(HeaderWord(9) + 2 * (i - 1)) = WrittenWord(t[22])
        /\ At(HeaderWord(9) + 2 * (i - 1) + 1) = WrittenWord(t[23])

VocabularyRead ==
  LET Record(i) == LET a == HeaderWord(7) + 7 * (i - 1)
                   IN  <<[k \in 1..5 |-> Invert(At(a + k - 1))], At(a + 5), At(a + 6)>>
      n == Len(Written("VOC")) \div 3
  IN  /\ {Record(i) : i \in 1..n} = WrittenWords
      /\ At(HeaderWord(7) + 7 * n) = 0

(* A direction of 255 would end the pairs.                                 *)
ConnectionsRead ==
  (\A c \in ToSet(connections) : Byte(c.direction) # 255) =>
    \A l \in 0..Len(loaded.LTX) - 1 :
      PairsAt(WordAt(HeaderWord(6) + 2 * l)) =
        IF l < location THEN WrittenPairs(l) ELSE <<>>

(* The tables behind the header, and the lists they hold.                  *)
Found(address, bytes) == \A k \in DOMAIN bytes : At(address + k - 1) = bytes[k]
TablesRead ==
  /\ Found(HeaderWord(8), ObjectPlaces) /\ Found(HeaderWord(9), ObjectWords)
  /\ Found(HeaderWord(10), ObjectWeights) /\ Found(HeaderWord(7), WordRecords)
  /\ \A i \in DOMAIN objects : Found(HeaderWord(11) + 2 * (i - 1), Word(objects[i].flags))
  /\ \A i \in DOMAIN Exits : Found(WordAt(HeaderWord(6) + 2 * (i - 1)), Exits[i])

(* The last file of a type is the one its vector leads to.                 *)
LastOfType(i) == \A j \in DOMAIN job.externs : j > i => job.externs[j].type # job.externs[i].type
ExternsRead ==
  LET Vector(k) == WordAt(job.base + 34 + 2 * k)
  IN  /\ \A i \in DOMAIN job.externs :
           LastOfType(i) => Found(Vector(job.externs[i].type), job.externs[i].bytes)
      /\ \A k \in 0..2 : (\A e \in ToSet(job.externs) : e.type # k) => Vector(k) = 0

(* The processes are found in their order.                                 *)
ProcessesRead ==
  LET processes == [i \in 1..job.processes |-> WordAt(HeaderWord(1) + 2 * (i - 1))]
  IN  /\ \A i \in DOMAIN processes : At(processes[i]) = 0
      /\ \A i \in DOMAIN processes : i > 1 => processes[i] > processes[i - 1]

TokensRead ==
  IF job.hasTokens /\ ~job.text2
  THEN Found(HeaderWord(0), TokenBytes) ELSE HeaderWord(0) = 0

SizeRead ==
  HeaderWord(12) = IF job.plus3 /\ job.xmessageSize # 0 THEN job.xmessageSize % 65536
                   ELSE (IF job.text2 THEN 0 ELSE job.base) + Len(db.out)

(* A padding target finds words at even addresses.                         *)
Aligned == job.padding => \A k \in 0..11 : HeaderWord(k) % 2 = 0

(* Whatever the driver wrote stands where a finished file's header says:   *)
(* no offset is taken before the padding it stands behind, no emitter      *)
(* counts another number of bytes than it wrote, nothing is written over,  *)
(* and each text, table, extern and list of addresses is found from the    *)
(* header alone (backend_run).                                             *)
FileReadsBack ==
  status = "done" =>
    /\ CountsRead /\ TextsRead /\ TablesRead /\ ProcessesRead
    /\ TokensRead /\ ExternsRead /\ SizeRead /\ Aligned

(* What an interpreter finds there is what the source says: no definition  *)
(* is lost, in another's place, or read with another's value.              *)
SourceReadsBack == status = "done" => ObjectsRead /\ VocabularyRead /\ ConnectionsRead

(* A text in which no two escapes compete stands in the model as the       *)
(* source means it, whatever passes replaced in it; and a game is refused  *)
(* at its texts only for one that is not so plain, or holds a letter no    *)
(* target has.                                                             *)
TextsMeanSource ==
  /\ status = "loaded" =>
       \A t \in Tables : \A i \in DOMAIN texts[t] :
         Plainly(texts[t][i], job.ascii7) => loaded[t][i] = Meaning(texts[t][i], job.ascii7)
  /\ status = "unreadable" =>
       \E t \in Tables : \E text \in ToSet(texts[t]) :
         ~Plainly(text, job.ascii7) \/ ~Readable(Meaning(text, job.ascii7))

(* -------------- what the proof of FileReadsBack rests on --------------- *)
IsSequence(s) == s \in Seq(ToSet(s))
Shown == 0..127 \ {10}

(* The lists the sections filled.                                          *)
ListsInv ==
  /\ job \in Jobs /\ rest \in Seq(Token) /\ section \in ToSet(Sections)
  /\ texts \in [Tables -> Seq(Keys)] /\ \A t \in Tables : Len(texts[t]) <= MaxTexts
  /\ IsSequence(objects) /\ IsSequence(voc) /\ IsSequence(connections)
  /\ Len(objects) <= Len(texts.OTX)
  /\ section = "PRO" => Len(objects) = Len(texts.OTX)
  /\ status \notin {"parsing", "refused"} => section = "PRO"

(* A loaded text has no byte that looks like its end.                      *)
LoadedInv ==
  /\ loaded \in [Tables -> Seq(Seq(Shown))]
  /\ \A t \in Tables : Len(loaded[t]) = Len(texts[t])

(* The address is where the next byte goes.                                *)
IsImage(d) ==
  /\ d = [out |-> d.out, addr |-> d.addr, region |-> d.region]
  /\ IsSequence(d.out) /\ IsSequence(d.region) /\ d.addr = job.base + Len(d.out)

(* Bytes behind the header; a word that leads to bytes.                    *)
Stands(d, address, bytes) ==
  LET from == address - job.base
  IN  /\ IsSequence(bytes) /\ from \in 60 .. Len(d.out) - Len(bytes)
      /\ \A k \in 1..Len(bytes) : d.out[from + k] = bytes[k]
InStream(d, at, item) ==
  /\ IsSequence(item) /\ at \in 0 .. Len(d.region) - Len(item)
  /\ \A k \in 1..Len(item) : d.region[at + k] = item[k]
Leads(d, address, bytes) ==
  \E to \in job.base..d.addr : Stands(d, address, Word(to)) /\ Stands(d, to, bytes)
LeadsInStream(d, address, item) ==
  \E at \in 0..Len(d.region) : Stands(d, address, Word(at)) /\ InStream(d, at, item)

TextsStand(d, table, address) ==
  \A i \in DOMAIN loaded[table] :
    IF job.text2 THEN LeadsInStream(d, address + 2 * (i - 1), Items(table)[i])
    ELSE Leads(d, address + 2 * (i - 1), Items(table)[i])

ProcessesStand(d, address) ==
  /\ \A i \in 1..job.processes : Leads(d, address + 2 * (i - 1), <<0>>)
  /\ \A i \in 2..job.processes :
       \E to \in job.base..d.addr : \E before \in job.base .. to - 1 :
         /\ Stands(d, address + 2 * (i - 2), Word(before))
         /\ Stands(d, address + 2 * (i - 1), Word(to))

(* What header word k leads to, at that address.                           *)
TableStands(d, k, address) ==
  CASE k = 0 -> IF job.hasTokens /\ ~job.text2 THEN Stands(d, address, TokenBytes)
                ELSE address = 0
    [] k = 1 -> ProcessesStand(d, address)
    [] k = 2 -> TextsStand(d, "OTX", address)
    [] k = 3 -> TextsStand(d, "LTX", address)
    [] k = 4 -> TextsStand(d, "MTX", address)
    [] k = 5 -> TextsStand(d, "STX", address)
    [] k = 6 -> \A i \in DOMAIN Exits : Leads(d, address + 2 * (i - 1), Exits[i])
    [] k = 7 -> Stands(d, address, WordRecords)
    [] k = 8 -> Stands(d, address, ObjectPlaces)
    [] k = 9 -> Stands(d, address, ObjectWords)
    [] k = 10 -> Stands(d, address, ObjectWeights)
    [] k = 11 -> \A i \in DOMAIN objects :
                   Stands(d, address + 2 * (i - 1), Word(objects[i].flags))

VectorStands(d, k, address) ==
  /\ address \in 0..d.addr
  /\ (\A i \in DOMAIN job.externs : job.externs[i].type # k) => address = 0
  /\ \A i \in DOMAIN job.externs :
       job.externs[i].type = k /\ LastOfType(i) => Stands(d, address, job.externs[i].bytes)

(* The header words noted when the driver has come to a status.            *)
KnownWords ==
  [header |-> {}, externs |-> {}, OTX |-> {2}, objects |-> {2} \cup 8..11,
   vocabulary |-> {2} \cup 7..11, tokens |-> {0, 2} \cup 7..11,
   STX |-> {0, 2, 5} \cup 7..11, MTX |-> {0, 2, 4, 5} \cup 7..11,
   LTX |-> {0} \cup 2..5 \cup 7..11, connections |-> {0} \cup 2..11,
   processes |-> 0..11, done |-> 0..11]
WordsKnown(d, words, known) ==
  /\ DOMAIN words = known
  /\ \A k \in known : /\ words[k] \in 0..d.addr /\ TableStands(d, k, words[k])
                      /\ job.padding => words[k] % 2 = 0

Counts ==
  <<Len(objects), Len(loaded.LTX), Len(loaded.MTX), Len(loaded.STX), job.processes>>
Version == IF job.v3 THEN 3 ELSE 2
HeaderStands(d, version) ==
  /\ Len(d.out) >= 60
  /\ d.out[1] = version /\ d.out[2] = 16 * job.machine + job.lang
  /\ \A k \in 1..5 : d.out[3 + k] = Byte(Counts[k])
WithinLimits(d) == d.addr <= 65535 /\ (job.text2 => Len(d.region) <= 65535)
PatchStands(d) ==
  /\ HeaderStands(d, Version + (IF job.text2 THEN 128 ELSE 0))
  /\ \A k \in 1..16 : <<d.out[7 + 2 * k], d.out[8 + 2 * k]>> = Word(HeaderWords[k])
  /\ WithinLimits(d)

NoVector == [k \in 0..2 |-> 0]
FileInv ==
  /\ ListsInv
  /\ status \in {"parsing", "parsed", "loaded"} =>
       IsImage(db) /\ db.out = <<>> /\ offsets = <<>> /\ extvec = NoVector
  /\ status \in {"loaded"} \cup DOMAIN KnownWords => LoadedInv
  /\ status = "header" => extvec = NoVector
  /\ status \in DOMAIN KnownWords =>
       /\ IsImage(db) /\ WordsKnown(db, offsets, KnownWords[status])
       /\ status # "header" => \A k \in 0..2 : VectorStands(db, k, extvec[k])
       /\ IF status = "done" THEN PatchStands(db) ELSE HeaderStands(db, Version)
  /\ status \in {"OTX", "objects", "vocabulary", "tokens", "STX", "MTX", "LTX", "connections"} =>
       (job.padding => db.addr % 2 = 0)
=============================================================================
