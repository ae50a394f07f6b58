---------------------------- MODULE DataSections ----------------------------
(***************************************************************************)
(* The sections of a source before the processes: /CTL, /VOC, the four     *)
(* text tables, /CON and /OBJ (src/src/front/sintactic.c), with the lists  *)
(* they fill (symbols.c, voctree.c, connections.c, objects.c).             *)
(*                                                                         *)
(* The source is the sequence of its tokens, read one definition at a      *)
(* time; a definition that breaks a rule ends the run with a message, and  *)
(* which rule it was makes no difference here.  A name is a sequence of    *)
(* bytes; the names the parser itself knows are single marks below 32.     *)
(***************************************************************************)
EXTENDS HashMap

CONSTANTS
  Jobs,        \* the runs: a source, symbols defined before it, and options
  MaxTexts     \* MAX_MESSAGES_PER_TABLE, 255 in the code

ASSUME TextsAssumption == MaxTexts \in 0..255

Tables == {"STX", "MTX", "OTX", "LTX"}

(* What the lexer makes of a word or a number.                             *)
Token == [kind : STRING, text : Keys, value : Int]

ASSUME JobsAssumption ==
  \A j \in Jobs :
    /\ j.source \in Seq(Token)
    /\ j.symbols \in Seq([name : Keys, value : Int])
    /\ j.inlines \in [Tables -> Seq(Keys)] /\ j.inlines.OTX = <<>>

VARIABLES
  job,
  rest,          \* the tokens not yet read
  section,       \* whose definitions come now
  status,        \* parsing, parsed, then what became of the run
  symbols,       \* name to value
  voc,           \* words with value and type, in the order of their bytes
  texts,         \* the four tables
  location,      \* entries read in /CON
  connections,
  objects

frontVars == <<job, rest, section, status, symbols, voc, texts, location, connections, objects>>

(* -------------------------------- tokens ------------------------------- *)
NoValue == 2147483647   \* MAXLONGINT

Name(text) == [kind |-> "name", text |-> text, value |-> NoValue]
Number(text, value) == [kind |-> "number", text |-> text, value |-> value]
Entry(value) == [kind |-> "entry", text |-> <<>>, value |-> value]
NamedEntry(text) == [kind |-> "entry", text |-> text, value |-> NoValue]
Text(text) == [kind |-> "text", text |-> text, value |-> NoValue]
Blank == [kind |-> "blank", text |-> <<>>, value |-> NoValue]
Section(name) == [kind |-> name, text |-> <<>>, value |-> NoValue]

Sections == <<"start", "CTL", "VOC", "STX", "MTX", "OTX", "LTX", "CON", "OBJ", "PRO">>
After(s) == Sections[SelectInSeq(Sections, LAMBDA t : t = s) + 1]

(* The next tokens are of these kinds.                                     *)
Ahead(kinds) ==
  Len(rest) >= Len(kinds) /\ \A i \in DOMAIN kinds : rest[i].kind \in kinds[i]
Read(n) == rest' = SubSeq(rest, n + 1, Len(rest))

(* ------------------------- names and their values ---------------------- *)
Upper(text) ==
  [i \in DOMAIN text |->
     IF text[i] \in 97..122 \/ text[i] \in 224..254 \ {247} THEN text[i] - 32
     ELSE IF text[i] = 255 THEN 159 ELSE text[i]]

Declare(m, name, value) ==
  IF Has(m, Upper(name)) THEN m ELSE Put(m, Upper(name), value)

Value(token) ==
  IF token.value # NoValue THEN token.value
  ELSE IF Has(symbols, Upper(token.text)) THEN Get(symbols, Upper(token.text))
  ELSE NoValue

LAST_OBJECT == <<1>>
NUM_OBJECTS == <<2>>
LAST_LOCATION == <<3>>
NUM_LOCATIONS == <<4>>
NUM_CARRIED == <<5>>
NUM_WORN == <<6>>
VocSymbol(word) == <<7>> \o word      \* _VOC_

(* ------------------------------ vocabulary ----------------------------- *)
VERB == 0
NOUN == 2
ADJECT == 3
TypeNames == <<"VERB", "ADVERB", "NOUN", "ADJECTIVE", "PREPOSITION", "CONJUGATION", "PRONOUN">>
TypeName(type) == <<8 + type>>
Types == [name \in {TypeName(t) : t \in 0..6} |-> name[1] - 8]

(* Five bytes, in upper case but for eight accented letters.               *)
Canonical(word) ==
  LET upper == Upper(SubSeq(word, 1, Min({5, Len(word)})))
      Lowered == {193, 201, 205, 211, 218, 220, 209, 199}
  IN  [i \in DOMAIN upper |-> IF upper[i] \in Lowered THEN upper[i] + 32 ELSE upper[i]]

Precedes(a, b) ==
  \E n \in 0..Len(b) - 1 :
     /\ n <= Len(a) /\ SubSeq(a, 1, n) = SubSeq(b, 1, n)
     /\ n = Len(a) \/ a[n + 1] < b[n + 1]

Defined(word, types) == \E i \in DOMAIN voc : voc[i].word = word /\ voc[i].type \in types
Meant(word) == (CHOOSE w \in ToSet(voc) : w.word = word).value

NewWordFits ==
  /\ section = "VOC"
  /\ Ahead(<<{"name", "number"}, {"name", "number"}, {"name"}>>)
  /\ Value(rest[2]) # NoValue
  /\ Upper(rest[3].text) \in DOMAIN Types
  /\ ~Defined(Canonical(rest[1].text), 0..6)
  /\ ~Has(symbols, Upper(VocSymbol(Canonical(rest[1].text))))

ParseNewWord ==
  /\ status = "parsing" /\ NewWordFits
  /\ LET word == Canonical(rest[1].text)
         new == [word |-> word, value |-> Value(rest[2]), type |-> Types[Upper(rest[3].text)]]
         place == Cardinality({i \in DOMAIN voc : Precedes(voc[i].word, word)}) + 1
     IN  /\ voc' = InsertAt(voc, place, new)
         /\ symbols' = Declare(symbols, VocSymbol(word), new.value)
  /\ Read(3)
  /\ UNCHANGED <<job, section, status, texts, location, connections, objects>>

(* ----------------------------- text tables ----------------------------- *)
MessageFits ==
  /\ section \in Tables
  /\ Ahead(<<{"entry"}, {"text"}>>)
  /\ Value(rest[1]) = Len(texts[section])
  /\ Value(rest[1]) < MaxTexts

ParseMessage ==
  /\ status = "parsing" /\ MessageFits
  /\ texts' = [texts EXCEPT ![section] = Append(@, rest[2].text)]
  /\ Read(2)
  /\ UNCHANGED <<job, section, status, symbols, voc, location, connections, objects>>

(* ----------------------------- connections ----------------------------- *)
LocationFits ==
  /\ section = "CON" /\ Ahead(<<{"entry"}>>)
  /\ Value(rest[1]) = location /\ location < Len(texts.LTX)

ParseLocation ==
  /\ status = "parsing" /\ LocationFits
  /\ location' = location + 1
  /\ Read(1)
  /\ UNCHANGED <<job, section, status, symbols, voc, texts, connections, objects>>

(* Where it leads is not compared with the locations.                      *)
Connection ==
  [from |-> location - 1, to |-> Value(rest[2]), direction |-> Meant(Canonical(rest[1].text))]

ConnectionFits ==
  /\ section = "CON" /\ location > 0
  /\ Ahead(<<{"name"}, {"name", "number"}>>)
  /\ Defined(Canonical(rest[1].text), {VERB, NOUN})
  /\ Value(rest[2]) # NoValue
  /\ Connection \notin ToSet(connections)

ParseConnection ==
  /\ status = "parsing" /\ ConnectionFits
  /\ connections' = Append(connections, Connection)
  /\ Read(2)
  /\ UNCHANGED <<job, section, status, symbols, voc, texts, location, objects>>

(* ------------------------------- objects ------------------------------- *)
LOC_NOT_CREATED == 252
LOC_WORN == 253
LOC_CARRIED == 254
NO_WORD == 255
MAX_WEIGHT == 63

(* An entry: where it starts, its weight, container, wearable, sixteen     *)
(* flags, noun and adjective.                                              *)
ObjectTokens == 23
YesNo(token) == token.kind = "blank" \/ Upper(token.text) \in {<<78>>, <<89>>}
Yes(token) == token.kind = "name" /\ Upper(token.text) = <<89>>
WordFits(token, type) == token.kind = "blank" \/ Defined(Canonical(token.text), {type})
WordValue(token) == IF token.kind = "blank" THEN NO_WORD ELSE Meant(Canonical(token.text))
StartsAt(token) == IF token.kind = "blank" THEN LOC_NOT_CREATED ELSE Value(token)

ObjectFits ==
  /\ section = "OBJ"
  /\ Ahead(<<{"entry"}, {"name", "number", "blank"}, {"name", "number"}>>
             \o [i \in 1..18 |-> {"name", "blank"}]
             \o [i \in 1..2 |-> {"name", "number", "blank"}])
  /\ Value(rest[1]) = Len(objects) /\ Value(rest[1]) < Len(texts.OTX)
  /\ \/ StartsAt(rest[2]) < Len(texts.LTX)
     \/ StartsAt(rest[2]) \in {LOC_NOT_CREATED, LOC_WORN, LOC_CARRIED}
  /\ Value(rest[3]) <= MAX_WEIGHT
  /\ \A i \in 4..21 : YesNo(rest[i])
  /\ WordFits(rest[22], NOUN) /\ WordFits(rest[23], ADJECT)

(* The first flag of the sixteen is bit 15.                                *)
Flags(tokens) ==
  FoldLeft(LAMBDA flags, token : 2 * flags + (IF Yes(token) THEN 1 ELSE 0), 0, tokens)

ParseObject ==
  /\ status = "parsing" /\ ObjectFits
  /\ objects' = Append(objects,
       [initially |-> StartsAt(rest[2]), weight |-> Value(rest[3]),
        container |-> Yes(rest[4]), wearable |-> Yes(rest[5]),
        flags |-> Flags(SubSeq(rest, 6, 21)),
        noun |-> WordValue(rest[22]), adjective |-> WordValue(rest[23])])
  /\ Read(ObjectTokens)
  /\ UNCHANGED <<job, section, status, symbols, voc, texts, location, connections>>

(* ---------------------------- between sections ------------------------- *)
(* What must have been defined, and the symbols that count it.             *)
Complete ==
  /\ section = "CON" => location > 0 /\ location >= Len(texts.LTX)
  /\ section = "OBJ" => Len(objects) >= Len(texts.OTX)

Started(place) == Cardinality({i \in DOMAIN objects : objects[i].initially = place})
Counted ==
  CASE section = "OTX" -> Declare(Declare(symbols, LAST_OBJECT, Len(texts.OTX) - 1),
                                  NUM_OBJECTS, Len(texts.OTX))
    [] section = "LTX" -> Declare(Declare(symbols, LAST_LOCATION, Len(texts.LTX) - 1),
                                  NUM_LOCATIONS, Len(texts.LTX))
    [] section = "OBJ" -> Declare(Declare(symbols, NUM_CARRIED, Started(LOC_CARRIED)),
                                  NUM_WORN, Started(LOC_WORN))
    [] OTHER -> symbols

SectionEnds == section # "PRO" /\ Ahead(<<{After(section)}>>) /\ Complete

EndSection ==
  /\ status = "parsing" /\ SectionEnds
  /\ section' = After(section)
  /\ symbols' = Counted
  /\ Read(1)
  /\ UNCHANGED <<job, status, voc, texts, location, connections, objects>>

(* /CTL holds nothing but underscores.                                     *)
ParseCtl ==
  /\ status = "parsing" /\ section = "CTL" /\ Ahead(<<{"blank"}>>)
  /\ Read(1)
  /\ UNCHANGED <<job, section, status, symbols, voc, texts, location, connections, objects>>

(* The processes add the texts written in them, each once.                 *)
InsertOrDedup(table, text) ==
  IF text \in ToSet(table) \/ Len(table) = MaxTexts THEN table ELSE Append(table, text)
WithInlines(table, inlines) ==
  LET with[i \in 1 .. Len(inlines) + 1] ==
        IF i = 1 THEN table ELSE InsertOrDedup(with[i - 1], inlines[i - 1])
  IN  with[Len(inlines) + 1]

ParsePro ==
  /\ status = "parsing" /\ section = "PRO"
  /\ texts' = [t \in Tables |-> WithInlines(texts[t], job.inlines[t])]
  /\ status' = "parsed"
  /\ UNCHANGED <<job, rest, section, symbols, voc, location, connections, objects>>

Refuse ==
  /\ status = "parsing" /\ section # "PRO"
  /\ ~(\/ NewWordFits \/ MessageFits \/ LocationFits \/ ConnectionFits \/ ObjectFits
       \/ SectionEnds \/ (section = "CTL" /\ Ahead(<<{"blank"}>>)))
  /\ status' = "refused"
  /\ UNCHANGED <<job, rest, section, symbols, voc, texts, location, connections, objects>>

(* The symbols defined before the source is read: before each is declared, *)
(* and after the last.                                                     *)
SymbolsBefore(list) ==
  LET before[i \in 1 .. Len(list) + 1] ==
        IF i = 1 THEN NewMap
        ELSE Declare(before[i - 1], list[i - 1].name, list[i - 1].value)
  IN  before

FrontInit ==
  /\ job \in Jobs
  /\ rest = job.source /\ section = "start" /\ status = "parsing"
  /\ symbols = SymbolsBefore(job.symbols)[Len(job.symbols) + 1]
  /\ voc = <<>> /\ texts = [t \in Tables |-> <<>>]
  /\ location = 0 /\ connections = <<>> /\ objects = <<>>

ParseNext ==
  \/ ParseCtl \/ ParseNewWord \/ ParseMessage \/ ParseLocation \/ ParseConnection
  \/ ParseObject \/ EndSection \/ ParsePro \/ Refuse

(* Every symbol is found where a search ends, however often the table has  *)
(* grown, and each word of the vocabulary is a symbol with its value.      *)
SymbolsFound ==
  /\ \A i \in DOMAIN symbols.entries :
        symbols.buckets[Slot(symbols, symbols.entries[i].key)] = i
  /\ \A i \in DOMAIN voc :
        LET symbol == Upper(VocSymbol(voc[i].word))
        IN  Has(symbols, symbol) /\ Get(symbols, symbol) = voc[i].value

(* The strengthening the proof needs (Database_proofs): each word has its  *)
(* entry among the symbols.                                                *)
Named(word) ==
  \E j \in 1..Len(symbols.entries) :
    /\ symbols.entries[j].key = Upper(VocSymbol(word.word))
    /\ symbols.entries[j].val = word.value

SymbolsInv ==
  /\ rest \in Seq(Token)
  /\ IsMap(symbols)
  /\ voc \in Seq(ToSet(voc)) /\ \A word \in ToSet(voc) : Named(word)
=============================================================================
