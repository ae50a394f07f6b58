---------------------------- MODULE MC_Database -----------------------------
(***************************************************************************)
(* Games of two locations, up to three objects and a few words and texts,  *)
(* with the ways a definition can break a rule and the options that move   *)
(* the tables.                                                             *)
(***************************************************************************)
EXTENDS Database

(* A poor hash on few buckets: keys collide, the table grows twice.        *)
MCHash(key) == FoldLeft(+, 0, key)

N(token) == Number(<<48 + token>>, token)
Weighs(n) == Number(<<49>>, n)
Go == <<110, 111>>                    \* no, NO
Lamp == <<108, 225, 109, 112, 97, 115>>    \* lámpas, of which five letters count
Old == <<241, 101>>                   \* ñe
Var == <<86>>                         \* V, a symbol

Flags16(bits) == [i \in 1..16 |-> IF i \in bits THEN Name(<<121>>) ELSE
                                  IF i = 3 THEN Name(<<78>>) ELSE Blank]

Vocabulary == <<Name(Lamp), N(5), Name(TypeName(NOUN)), Name(Go), N(7), Name(TypeName(VERB)),
                Name(Old), Name(Var), Name(TypeName(ADJECT))>>
MoreWords == Vocabulary \o <<Name(<<122>>), Number(<<51>>, 300), Name(TypeName(NOUN)),
                             N(3), N(2), Name(TypeName(6))>>

Object(n, place, weight, noun, adjective, bits) ==
  <<Entry(n), place, weight, Name(<<89>>), Blank>> \o Flags16(bits) \o <<noun, adjective>>
Objects == <<Object(0, N(1), Weighs(63), Name(Lamp), Blank, {1, 16}),
             Object(1, Blank, Weighs(-2), Blank, Name(Old), {}),
             Object(2, Number(<<50>>, 254), Name(Var), Name(Lamp), Name(Old), {2, 9})>>

Table(sequence) == FlattenSeq([i \in DOMAIN sequence |-> <<Entry(i - 1), Text(sequence[i])>>])

Connections == <<Entry(0), Name(Go), N(1), Name(Lamp), Name(LAST_LOCATION),
                 NamedEntry(NUM_OBJECTS)>>

(* Escapes and what is none: #g e A n, a doubled sharp, \" and a bare      *)
(* quote, \n, letters with and without codes.                              *)
Plains == << <<120, 35, 103, 65>>, <<225, 35, 101, 35, 35>>, <<92, 34, 34, 92, 110>>, <<193, 35, 65>> >>
Odd == << <<35, 35, 110>>, <<35, 103, 101>>, <<161, 110>>, <<120, 35>>, <<92, 120>>,
          <<169>>, <<92, 225>>, <<92, 117, 48, 48, 65, 55>>, <<92, 117, 48, 48, 55, 97>>,
          <<92, 117, 48, 49, 48, 48>>, <<92, 117, 48>>, <<35, 35, 35, 120>>,
          <<35, 161, 35>>, <<92, 92, 34>>, <<35, 102>> >>

Source(words, stx, otx, con, objs) ==
  <<Section("CTL"), Blank, Section("VOC")>> \o words
    \o <<Section("STX")>> \o Table(stx)
    \o <<Section("MTX")>> \o Table(<<Plains[2]>>)
    \o <<Section("OTX")>> \o Table(otx)
    \o <<Section("LTX")>> \o Table(<<Plains[4], <<120>> >>)
    \o <<Section("CON")>> \o con
    \o <<Section("OBJ")>> \o FlattenSeq(objs) \o <<Section("PRO")>>

Names(n) == SubSeq(<<Plains[1], <<120>>, Plains[3]>>, 1, n)
Small == Source(Vocabulary, <<Plains[3]>>, Names(1),
                <<Entry(0), Name(Go), N(1), Entry(1)>>, SubSeq(Objects, 1, 1))
Large == Source(MoreWords, <<Plains[1], Plains[2]>>, Names(3),
                <<Entry(0), Name(Go), N(1), Name(Lamp), Name(LAST_LOCATION), Entry(1),
                  Name(<<90>>), N(0), Name(Go), Name(LAST_OBJECT)>>, Objects)

NoInlines == [t \in Tables |-> <<>>]
Plainest == [
  source |-> Small,
  symbols |-> <<[name |-> Var, value |-> 9]>>,
  inlines |-> NoInlines, ascii7 |-> FALSE, v3 |-> FALSE,
  machine |-> 1, lang |-> 0, submachine |-> 0, base |-> 33024, big |-> FALSE,
  padding |-> FALSE, noPadding |-> FALSE, text2 |-> FALSE, hasTokens |-> TRUE, tokens |-> 3,
  code |-> 5, processes |-> 2, externs |-> <<>>, plus3 |-> FALSE, xmessageSize |-> 0]

(* Where the tables lie, in which order words are written, and what moves  *)
(* them; bases around the end of 64K.                                      *)
Placed ==
  {[Plainest EXCEPT !.source = src, !.base = base, !.big = big, !.padding = padding,
                    !.text2 = text2] :
     src \in {Small, Large}, base \in {33024, 33025}, big \in BOOLEAN,
     padding \in BOOLEAN, text2 \in BOOLEAN}
High == {[Plainest EXCEPT !.base = base] : base \in 65392..65395}

Externs == {<<>>, <<[type |-> 0, bytes |-> <<201>>]>>,
            <<[type |-> 1, bytes |-> <<201, 202>>], [type |-> 1, bytes |-> <<203>>],
              [type |-> 2, bytes |-> <<204>>]>>,
            <<[type |-> 0, bytes |-> <<201>>], [type |-> 2, bytes |-> <<>>]>>}
Options ==
  {[Plainest EXCEPT !.externs = externs, !.padding = padding, !.noPadding = noPadding] :
     externs \in Externs, padding \in BOOLEAN, noPadding \in BOOLEAN}
    \cup {[Plainest EXCEPT !.v3 = TRUE, !.plus3 = plus3, !.xmessageSize = 700, !.lang = 1,
                           !.hasTokens = FALSE, !.tokens = 1] : plus3 \in BOOLEAN}
    \cup {[Plainest EXCEPT !.inlines = [NoInlines EXCEPT !.STX = stx, !.LTX = <<Plains[1]>>],
                           !.padding = TRUE] :
            stx \in {<<Plains[3]>>, <<Plains[1], <<120, 121>>, Plains[1]>>}}

(* Symbols defined before: one of the parser's own, a word's, and many.    *)
Symbols == {<<[name |-> Var, value |-> 9]>> \o s :
              s \in {<<[name |-> LAST_LOCATION, value |-> 0]>>,
                    <<[name |-> VocSymbol(<<78, 79>>), value |-> 1]>>,
                    [i \in 1..5 |-> [name |-> <<86, 100 + i>>, value |-> i]]}}
Presets == {[Plainest EXCEPT !.source = Large, !.symbols = known] : known \in Symbols}

(* Every source a token short, or with a number in a token's place.        *)
Broken == {[Plainest EXCEPT !.source = src] :
             src \in {RemoveAt(Large, i) : i \in DOMAIN Large}
                   \cup {ReplaceAt(Large, i, N(1)) : i \in DOMAIN Large}}

Converted == {[Plainest EXCEPT !.source = Source(Vocabulary, <<text>>, Names(1),
                                 <<Entry(0), Entry(1)>>, SubSeq(Objects, 1, 1)),
                               !.ascii7 = ascii7] :
                text \in ToSet(Plains) \cup ToSet(Odd), ascii7 \in BOOLEAN}

(* An object whose place is 255, which is refused, or becomes that in a    *)
(* byte.                                                                   *)
HereJobs == {[Plainest EXCEPT !.source =
                Source(Vocabulary, <<Plains[3]>>, Names(1), <<Entry(0), Entry(1)>>,
                       <<Object(0, place, Weighs(1), Name(Lamp), Blank, {})>>)] :
               place \in {Number(<<50, 53, 53>>, 255), Number(<<45, 49>>, -1)}}

MCJobs == Placed \cup High \cup Options \cup Presets \cup Broken \cup Converted \cup HereJobs
=============================================================================
