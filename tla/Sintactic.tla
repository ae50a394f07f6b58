----------------------------- MODULE Sintactic ------------------------------
(***************************************************************************)
(* The process section of the parser (src/src/front/sintactic.c) with the  *)
(* containers it fills (labels.c, messagelist.c, process.c, symbols.c):    *)
(* scan delivers one token at a time and carries out the conditional       *)
(* directives itself, anywhere between two tokens; the rest is the grammar *)
(* of entries, condacts, inline texts and labels, and the walk that fixes  *)
(* the forward labels at the end.                                          *)
(*                                                                         *)
(* Processes and entries are numbered from 0 as in the code; sequences are *)
(* numbered from 1 as in TLA+.  A text is a sequence of marks, of which    *)
(* "\n" and "#n" stand for a line break.                                   *)
(***************************************************************************)
EXTENDS Integers, Sequences, SequencesExt

CONSTANTS
  Jobs,                    \* the sources and options a run explores
  Reach,                   \* 128 in the code: how far a SKIP goes back
  MAX_PROCESSES,
  MAX_LABELS,
  MAX_MESSAGES_PER_TABLE

(* A displacement is a byte with a sign.                                   *)
MAX_PARAMETER_RANGE == 2 * Reach - 1

ASSUME LimitsAssumption ==
  /\ Reach \in Nat \ {0} /\ MAX_PROCESSES \in Nat
  /\ MAX_LABELS \in Nat \ {0} /\ MAX_MESSAGES_PER_TABLE \in Nat \ {0}

DESC == 19
MESSAGE == 38
SYSMESS == 54
MES == 77
SKIP == 116
XMES == 128
XMESSAGE == 129
XPLAY == 134
PENDINGSKIP == 141
XDATA == 142
FAKE_USERPTR == 256

(* A token is a record; directives and operands that take no part in the   *)
(* control below travel as one token with what they belong to.             *)
(*   [t |-> "if", name, negated]    #ifdef "name", #ifndef "name"          *)
(*   [t |-> "if"]                   ... with anything else behind it       *)
(*   [t |-> "else"], [t |-> "endif"], [t |-> "classic"]                    *)
(*   [t |-> "define", name]         #define name with a number             *)
(*   [t |-> ">"], [t |-> "_"], [t |-> "@"], [t |-> "PRO"], [t |-> "END"]   *)
(*   [t |-> "word", verb, noun]     what the vocabulary would take it for  *)
(*   [t |-> "number", value], [t |-> "label", name], [t |-> "text", text]  *)
(*   [t |-> "condact", op, params]  params is 0 or 1                       *)
(*   [t |-> "bytes", bytes]         #db, #dw, #hex or #incbin              *)
(*   [t |-> "userptr", value]       #userptr                               *)
(* A job is a record:                                                      *)
(*   prefix    the tokens the section starts with                          *)
(*   alphabet  the tokens that may follow, in any order                    *)
(*   free      how many of them follow at most                             *)
(*   symbols   what -D, the target and the sections before have defined    *)
(*   msgs      the texts of the sections before                            *)
(*   normal, extended   -force-normal-messages, -force-x-messages          *)
(*   check     no -no-semantic; -semantic-warnings is not modelled         *)
(* The breaks are named for the provers, which know no string's type.      *)
MARKS == STRING \cup {"\n", "#n"}
TEXTS == Seq(MARKS)
TABLES == [{"mtx", "stx", "ltx", "xtx", "other"} -> Seq(TEXTS)]

(* What the lexer guarantees of the operands.                              *)
IsToken(tok) ==
  /\ tok.t \in {"number", "userptr"} => tok.value \in Int
  /\ tok.t = "label" => tok.name \in STRING
  /\ tok.t = "text" => tok.text \in TEXTS
  /\ tok.t = "condact" => tok.op \in Nat
  /\ tok.t = "bytes" => tok.bytes \in Seq(0..255)

IsJob(j) ==
  /\ Len(j.prefix) \in Nat /\ \A i \in 1..Len(j.prefix) : IsToken(j.prefix[i])
  /\ \A tok \in j.alphabet : IsToken(tok)
  /\ j.msgs \in TABLES

ASSUME JobsAssumption == \A j \in Jobs : IsJob(j)

VARIABLES
  job,       \* the job; never changes
  read,      \* tokens read
  ended,     \* /END is among them
  nested,    \* global_nested_ifdef_count
  depth,     \* skip_block's nested_ifdef_count; 0 when nothing is skipped
  symbols,   \* the names defined
  classic,   \* classic_mode
  expect,    \* what the grammar waits for
  at,        \* the entry being parsed, see Start
  lists,     \* the condact lists
  entries,   \* process -> the lists of its entries; synonyms share a list
  labels,    \* the label table
  msgs,      \* the text tables
  warned,    \* "already defined, concatenating entries" was said
  status,    \* "parsing", "fixing", "done" or "failed"
  fix,       \* <<process, entry>> fix_forward_labels looks at
  places     \* where each label really stands: label -> <<process, entry>>

parsed == <<symbols, classic, expect, at, lists, entries, labels, msgs, warned, places>>
vars == <<job, read, ended, nested, depth, parsed, status, fix>>

-----------------------------------------------------------------------------
(* The label table.                                                        *)

Slot(name) == {i \in DOMAIN labels : labels[i].name = name}
Defined(name) == {i \in Slot(name) : ~labels[i].forward}

(* A label may be placed twice.                                            *)
MutantCanAdd(name) == Slot(name) # {} \/ Len(labels) < MAX_LABELS

(* labels_add succeeds: a place for a label not yet placed, or a mention of*)
(* one that is not placed.                                                 *)
CanAdd(name) == Defined(name) = {} /\ (Slot(name) # {} \/ Len(labels) < MAX_LABELS)

WithPlace(name, process, entry) ==
  LET label == [name |-> name, process |-> process, entry |-> entry, forward |-> FALSE]
  IN  IF Slot(name) = {} THEN Append(labels, label)
      ELSE [i \in DOMAIN labels |-> IF i \in Slot(name) THEN label ELSE labels[i]]

WithMention(name) ==
  IF Slot(name) # {} THEN labels
  ELSE Append(labels, [name |-> name, process |-> -1, entry |-> -1, forward |-> TRUE])

(* The slot counted from 0, of a table that holds the label.               *)
LabelId(table, name) == (CHOOSE i \in DOMAIN table : table[i].name = name) - 1

-----------------------------------------------------------------------------
(* The text tables.  NoRoom stands for the code's -1.                      *)

NoRoom == -1

Insert(table, text, unlimited) ==
  IF \E i \in DOMAIN table : table[i] = text
  THEN [table |-> table, id |-> SelectInSeq(table, LAMBDA x : x = text) - 1]
  ELSE IF ~unlimited /\ Len(table) = MAX_MESSAGES_PER_TABLE
  THEN [table |-> table, id |-> NoRoom]
  ELSE [table |-> Append(table, text), id |-> Len(table)]

Into(op, t, text) ==
  LET r == Insert(msgs[t], text, t = "xtx")
  IN  [op |-> op, id |-> r.id, msgs |-> [msgs EXCEPT ![t] = r.table]]

(* A MESSAGE moves without a line break.                                   *)
MutantCascade(op, text) ==
  LET home == Into(op, IF op = SYSMESS THEN "stx" ELSE "mtx", text)
      second == IF op = SYSMESS THEN Into(MES, "mtx", text)
                ELSE Into(SYSMESS, "stx", text)
  IN  IF home.id # NoRoom \/ classic THEN home
      ELSE IF second.id # NoRoom THEN second
      ELSE Into(DESC, "ltx", text)

(* messagelist_insert_cascade: home, the other table, LTX.  A MESSAGE loses*)
(* its own line break when it moves, so its text gets one.                 *)
Cascade(op, text) ==
  LET home == Into(op, IF op = SYSMESS THEN "stx" ELSE "mtx", text)
      moved == IF op = MESSAGE THEN Append(text, "\n") ELSE text
      second == IF op = SYSMESS THEN Into(MES, "mtx", moved)
                ELSE Into(SYSMESS, "stx", moved)
  IN  IF home.id # NoRoom \/ classic THEN home
      ELSE IF second.id # NoRoom THEN second
      ELSE Into(DESC, "ltx", moved)

(* What an inline text makes of its condact.                               *)
Inline(op, text) ==
  LET forced == IF ~job.extended THEN op
                ELSE IF op = MES THEN XMES ELSE IF op = MESSAGE THEN XMESSAGE ELSE op
  IN  CASE forced \in {XMES, XMESSAGE} /\ ~job.normal ->
             Into(XMES, "xtx", IF forced = XMESSAGE THEN Append(text, "#n") ELSE text)
        [] forced \in {XPLAY, XDATA} -> Into(forced, "other", text)
        [] OTHER -> Cascade(IF forced = XMES THEN MES
                            ELSE IF forced = XMESSAGE THEN MESSAGE ELSE forced, text)

TakesText == {MESSAGE, MES, SYSMESS, XMES, XMESSAGE, XPLAY, XDATA}

(* condact_semantic_check, against the sections' own counts.               *)
Exists(op, value) ==
  CASE op \in {MES, MESSAGE} -> value < Len(job.msgs.mtx)
    [] op = SYSMESS -> value < Len(job.msgs.stx)
    [] op = DESC -> value < Len(job.msgs.ltx)
    [] OTHER -> TRUE

-----------------------------------------------------------------------------
(* The entry being parsed: its process and number, how many synonyms share *)
(* it, its list (NULL in the code until it holds a condact), the condact   *)
(* whose parameter is next, whether "@" preceded it, and the value         *)
(* params[0] last had.                                                     *)
Start(process) == [process |-> process, entry |-> 0, copies |-> 0, list |-> 0,
                   op |-> 0, indirect |-> FALSE, param |-> 0]

Init ==
  /\ job \in Jobs
  /\ read = 0 /\ ended = FALSE
  /\ nested = 0 /\ depth = 0
  /\ symbols = job.symbols /\ classic = FALSE
  /\ expect = "process" /\ at = Start(0)
  /\ lists = <<>>
  /\ entries = [p \in 0..MAX_PROCESSES |-> <<>>]
  /\ labels = <<>> /\ msgs = job.msgs
  /\ warned = FALSE
  /\ status = "parsing" /\ fix = <<0, 0>>
  /\ places = <<>>

(* The next token of the source is tok.  A source holds an /END, but not   *)
(* always where the parser sees it.                                        *)
Token(tok) ==
  /\ status = "parsing"
  /\ read' = read + 1
  /\ ended' = (ended \/ tok.t = "END")
  /\ UNCHANGED <<job, fix>>

Source ==
  IF read < Len(job.prefix) THEN {job.prefix[read + 1]}
  ELSE (IF read < Len(job.prefix) + job.free THEN job.alphabet ELSE {})
         \cup (IF ended THEN {} ELSE {[t |-> "END"]})

Fail ==
  /\ status' = "failed"
  /\ UNCHANGED <<nested, depth, parsed>>

-----------------------------------------------------------------------------
(* scan and skip_block.                                                    *)

Skipping == depth > 0

Taken(tok) == (tok.name \in symbols) # tok.negated

(* An #else of an inner block ends the skip.                               *)
MutantSkip(tok) ==
  /\ Skipping
  /\ Token(tok)
  /\ CASE tok.t = "if" -> depth' = depth + 1 /\ UNCHANGED nested
       [] tok.t = "endif" ->
            /\ depth' = depth - 1
            /\ nested' = IF depth = 1 THEN nested - 1 ELSE nested
       [] tok.t = "else" -> depth' = 0 /\ UNCHANGED nested
       [] OTHER -> UNCHANGED <<nested, depth>>
  /\ UNCHANGED <<parsed, status>>

(* A token inside a block that is not taken.  Only the block's own #else   *)
(* and #endif end the skip; the #endif is then scanned like any other.     *)
Skip(tok) ==
  /\ Skipping
  /\ Token(tok)
  /\ CASE tok.t = "if" -> depth' = depth + 1 /\ UNCHANGED nested
       [] tok.t = "endif" ->
            /\ depth' = depth - 1
            /\ nested' = IF depth = 1 THEN nested - 1 ELSE nested
       [] tok.t = "else" /\ depth = 1 -> depth' = 0 /\ UNCHANGED nested
       [] OTHER -> UNCHANGED <<nested, depth>>
  /\ UNCHANGED <<parsed, status>>

If(tok) ==
  /\ ~Skipping /\ tok.t = "if"
  /\ Token(tok)
  /\ IF "name" \notin DOMAIN tok THEN Fail
     ELSE /\ nested' = nested + 1
          /\ depth' = IF Taken(tok) THEN 0 ELSE 1
          /\ UNCHANGED <<parsed, status>>

Else(tok) ==
  /\ ~Skipping /\ tok.t = "else"
  /\ Token(tok)
  /\ IF nested = 0 THEN Fail
     ELSE depth' = 1 /\ UNCHANGED <<nested, parsed, status>>

Endif(tok) ==
  /\ ~Skipping /\ tok.t = "endif"
  /\ Token(tok)
  /\ IF nested = 0 THEN Fail
     ELSE nested' = nested - 1 /\ UNCHANGED <<depth, parsed, status>>

(* AddSymbol refuses a name that is there.                                 *)
Define(tok) ==
  /\ ~Skipping /\ tok.t = "define"
  /\ Token(tok)
  /\ IF tok.name \in symbols THEN Fail
     ELSE /\ symbols' = symbols \cup {tok.name}
          /\ UNCHANGED <<nested, depth, classic, expect, at, lists, entries, labels,
                         msgs, warned, places, status>>

Classic(tok) ==
  /\ ~Skipping /\ tok.t = "classic"
  /\ Token(tok)
  /\ classic' = TRUE
  /\ UNCHANGED <<nested, depth, symbols, expect, at, lists, entries, labels, msgs,
                 warned, places, status>>

(* The stream ends in a block that is skipped, or behind one that hid the  *)
(* /END.                                                                   *)
EndOfStream ==
  /\ status = "parsing" /\ ended
  /\ Fail
  /\ UNCHANGED <<job, read, ended, fix>>

(* A token that scan hands to the grammar.                                 *)
Delivered(tok) ==
  /\ ~Skipping
  /\ tok.t \notin {"if", "else", "endif", "define", "classic"}
  /\ Token(tok)
  /\ UNCHANGED <<nested, depth, symbols, classic>>

Refused ==
  /\ status' = "failed"
  /\ UNCHANGED <<expect, at, lists, entries, labels, msgs, warned, places>>

-----------------------------------------------------------------------------
(* parse_pro and parse_process_entries.                                    *)

(* A process may be opened again; its entries then go behind the others,   *)
(* while current_entry starts at 0 again.                                  *)
ParseProcess(tok) ==
  /\ expect = "process"
  /\ Delivered(tok)
  /\ IF tok.t = "number" /\ tok.value \in 0..MAX_PROCESSES
     THEN /\ warned' = (warned \/ entries[tok.value] # <<>>)
          /\ at' = Start(tok.value)
          /\ expect' = "entry"
          /\ UNCHANGED <<lists, entries, labels, msgs, places, status>>
     ELSE Refused

(* A label stands before the entry whose number is given.  It really stands*)
(* before the entry that comes next in the process.                        *)
PlaceLabel(name, entry, next) ==
  /\ labels' = WithPlace(name, at.process, entry)
  /\ places' = [n \in DOMAIN places \cup {name} |->
                  IF n = name THEN <<at.process, next>> ELSE places[n]]

(* What may stand between two entries.  list and entry of a are those of   *)
(* the entry parsed before.                                                *)
EntryStarts(tok, a) ==
  CASE tok.t = ">" ->
         /\ expect' = "verb"
         /\ lists' = Append(lists, <<>>)
         /\ at' = [a EXCEPT !.copies = 1, !.list = Len(lists) + 1]
         /\ UNCHANGED <<labels, places, status>>
    [] tok.t = "PRO" ->
         expect' = "process" /\ at' = a /\ UNCHANGED <<lists, labels, places, status>>
    [] tok.t = "END" ->
         /\ expect' = "nothing" /\ at' = a
         /\ status' = IF nested = 0 THEN "fixing" ELSE "failed"
         /\ UNCHANGED <<lists, labels, places>>
    [] tok.t = "label" /\ CanAdd(tok.name) ->
         /\ PlaceLabel(tok.name, a.entry, Len(entries'[a.process]))
         /\ expect' = "entry" /\ at' = a
         /\ UNCHANGED <<lists, status>>
    [] OTHER ->
         /\ status' = "failed" /\ at' = a
         /\ UNCHANGED <<expect, lists, labels, places>>

ParseEntry(tok) ==
  /\ expect = "entry"
  /\ Delivered(tok)
  /\ UNCHANGED entries
  /\ EntryStarts(tok, at)
  /\ UNCHANGED <<msgs, warned>>

(* parse_verb_noun.                                                        *)
ParseVerbNoun(tok) ==
  /\ expect \in {"verb", "noun"}
  /\ Delivered(tok)
  /\ IF tok.t = "_" \/ (tok.t = "word" /\ tok[expect])
     THEN /\ expect' = IF expect = "verb" THEN "noun" ELSE "synonym"
          /\ UNCHANGED <<at, lists, entries, labels, msgs, warned, places, status>>
     ELSE Refused

ParseSynonym(tok) ==
  /\ expect = "synonym" /\ tok.t = ">"
  /\ Delivered(tok)
  /\ expect' = "verb"
  /\ at' = [at EXCEPT !.copies = @ + 1]
  /\ UNCHANGED <<lists, entries, labels, msgs, warned, places, status>>

-----------------------------------------------------------------------------
(* parse_process_condacts.                                                 *)

(* "synonym" is the first token behind the header: the list is NULL.       *)
AtCondact(tok) ==
  \/ expect = "condact"
  \/ expect = "synonym" /\ tok.t # ">"

(* A condact: opcode, first parameter, "@", and for the record the label   *)
(* and the text it was written with.                                       *)
Made(op, value, indirect, label, text) ==
  [op |-> op, value |-> value, indirect |-> indirect, label |-> label, text |-> text]

NoText == <<"none">>
NoLabel == ""

(* entry_condacts_add.                                                     *)
Added(cs) == [lists EXCEPT ![at.list] = @ \o cs]

(* Every copy is added with the same list.                                 *)
CloseEntry ==
  entries' = [entries EXCEPT ![at.process] = @ \o [i \in 1..at.copies |-> at.list]]
Closed == [at EXCEPT !.entry = @ + at.copies, !.copies = 0, !.list = 0, !.op = 0,
                     !.indirect = FALSE, !.param = 0]

EndEntry(tok) ==
  /\ AtCondact(tok) /\ tok.t \in {">", "PRO", "END"}
  /\ Delivered(tok)
  /\ CloseEntry
  /\ EntryStarts(tok, Closed)
  /\ UNCHANGED <<msgs, warned>>

(* A label ends the entry, and is numbered as if the entry had one copy.   *)
LabelInEntry(tok) ==
  /\ AtCondact(tok) /\ tok.t = "label"
  /\ Delivered(tok)
  /\ IF CanAdd(tok.name)
     THEN /\ PlaceLabel(tok.name, at.entry + 1, Len(entries[at.process]) + at.copies)
          /\ expect' = "behind label"
          /\ UNCHANGED <<at, lists, entries, msgs, warned, status>>
     ELSE Refused

BehindLabel(tok) ==
  /\ expect = "behind label"
  /\ Delivered(tok)
  /\ CloseEntry
  /\ EntryStarts(tok, Closed)
  /\ UNCHANGED <<msgs, warned>>

(* Raw bytes; params[0] stays what it was.  No byte at all as the first    *)
(* thing of an entry leaves the list NULL, and the operand is taken for the*)
(* next condact.                                                           *)
ParseBytes(tok) ==
  /\ AtCondact(tok) /\ tok.t = "bytes"
  /\ Delivered(tok)
  /\ IF lists[at.list] = <<>> /\ tok.bytes = <<>> THEN Refused
     ELSE /\ lists' = Added([i \in DOMAIN tok.bytes |->
                        Made(tok.bytes[i], at.param, at.indirect, NoLabel, NoText)])
          /\ expect' = "condact"
          /\ UNCHANGED <<at, entries, labels, msgs, warned, places, status>>

ParseCondact(tok) ==
  /\ AtCondact(tok) /\ tok.t = "condact"
  /\ Delivered(tok)
  /\ IF tok.params = 0
     THEN /\ lists' = Added(<<Made(tok.op, at.param, at.indirect, NoLabel, NoText)>>)
          /\ expect' = "condact"
          /\ UNCHANGED at
     ELSE /\ at' = [at EXCEPT !.op = tok.op, !.indirect = FALSE]
          /\ expect' = "param"
          /\ UNCHANGED lists
  /\ UNCHANGED <<entries, labels, msgs, warned, places, status>>

UnknownCondact(tok) ==
  /\ AtCondact(tok)
  /\ tok.t \in {"_", "word", "number", "text", "@"}
  /\ Delivered(tok)
  /\ Refused

-----------------------------------------------------------------------------
(* The parameter of a condact.                                             *)

Finish(op, value, indirect, label, text) ==
  /\ lists' = Added(<<Made(op, value, indirect, label, text)>>)
  /\ at' = [at EXCEPT !.op = op, !.indirect = indirect, !.param = value]
  /\ expect' = "condact"
  /\ UNCHANGED <<entries, warned, places, status>>

Indirection(tok) ==
  /\ expect = "param" /\ tok.t = "@"
  /\ Delivered(tok)
  /\ IF at.indirect THEN Refused
     ELSE /\ at' = [at EXCEPT !.indirect = TRUE]
          /\ UNCHANGED <<expect, lists, entries, labels, msgs, warned, places, status>>

(* The value is checked against the sections, unless it is a flag's.  XMES *)
(* takes any number the check does not see.                                *)
NumberParam(tok) ==
  /\ expect = "param" /\ tok.t \in {"number", "_"}
  /\ Delivered(tok)
  /\ LET given == IF tok.t = "_" THEN MAX_PARAMETER_RANGE ELSE tok.value
         value == IF at.op = SKIP /\ given < 0 THEN 2 * Reach + given ELSE given
         checked == job.check /\ ~at.indirect
     IN  IF \/ value < 0
            \/ value > MAX_PARAMETER_RANGE /\ (checked \/ at.op \notin {XMES, XMESSAGE})
            \/ checked /\ ~Exists(at.op, value)
         THEN Refused
         ELSE Finish(at.op, value, at.indirect, NoLabel, NoText) /\ UNCHANGED <<labels, msgs>>

(* #userptr, a condact of its own for the emitter; its operand is the      *)
(* parameter of raw bytes behind it.                                       *)
UserPtr(tok) ==
  /\ AtCondact(tok) /\ tok.t = "userptr"
  /\ Delivered(tok)
  /\ IF tok.value \in 0..9
     THEN Finish(FAKE_USERPTR, tok.value, FALSE, NoLabel, NoText) /\ UNCHANGED <<labels, msgs>>
     ELSE Refused

(* What the player reads: a line break is one, and a MESSAGE ends with one.*)
Printed(op, text) ==
  [i \in DOMAIN text |-> IF text[i] = "#n" THEN "\n" ELSE text[i]]
    \o (IF op \in {MESSAGE, XMESSAGE} THEN <<"\n">> ELSE <<>>)

TextParam(tok) ==
  /\ expect = "param" /\ tok.t = "text"
  /\ Delivered(tok)
  /\ IF at.op \notin TakesText THEN Refused
     ELSE LET r == Inline(at.op, tok.text)
              wanted == Printed(at.op, tok.text)
          IN  IF \/ r.id = NoRoom
                 \/ (r.id > MAX_PARAMETER_RANGE /\ r.op # XMES)
              THEN Refused
              ELSE /\ msgs' = r.msgs
                   /\ Finish(r.op, r.id, at.indirect, NoLabel, wanted)
                   /\ UNCHANGED labels

(* One entry too far back is let through.                                  *)
MutantBackLabel(tok) ==
  /\ expect = "param" /\ tok.t = "label" /\ at.op = SKIP
  /\ Defined(tok.name) # {}
  /\ Delivered(tok)
  /\ LET label == labels[CHOOSE i \in Defined(tok.name) : TRUE]
         back == label.entry - at.entry - 1
         value == IF back < 0 THEN 2 * Reach + back ELSE back
     IN  IF label.process # at.process \/ back < -Reach - 1
         THEN Refused
         ELSE Finish(SKIP, value, at.indirect, tok.name, NoText) /\ UNCHANGED <<labels, msgs>>

(* A label that is placed is a way back; its displacement is negative and  *)
(* wraps to a byte.                                                        *)
BackLabel(tok) ==
  /\ expect = "param" /\ tok.t = "label" /\ at.op = SKIP
  /\ Defined(tok.name) # {}
  /\ Delivered(tok)
  /\ LET label == labels[CHOOSE i \in Defined(tok.name) : TRUE]
         back == label.entry - at.entry - 1
         value == IF back < 0 THEN 2 * Reach + back ELSE back
     IN  IF \/ label.process # at.process \/ back < -Reach
            \/ value > MAX_PARAMETER_RANGE
         THEN Refused
         ELSE Finish(SKIP, value, at.indirect, tok.name, NoText) /\ UNCHANGED <<labels, msgs>>

(* A label that is not: PENDINGSKIP with the label's slot, which must fit  *)
(* in a parameter.                                                         *)
ForwardLabel(tok) ==
  /\ expect = "param" /\ tok.t = "label" /\ at.op = SKIP
  /\ Defined(tok.name) = {}
  /\ Delivered(tok)
  /\ LET table == WithMention(tok.name)
         id == LabelId(table, tok.name)
     IN  IF ~CanAdd(tok.name) \/ id > MAX_PARAMETER_RANGE THEN Refused
         ELSE /\ labels' = table
              /\ Finish(PENDINGSKIP, id, FALSE, tok.name, NoText)
              /\ UNCHANGED msgs

BadParam(tok) ==
  /\ expect = "param"
  /\ \/ tok.t \in {">", "PRO", "END", "word", "condact", "bytes", "userptr"}
     \/ tok.t = "label" /\ at.op # SKIP
  /\ Delivered(tok)
  /\ Refused

-----------------------------------------------------------------------------
(* fix_forward_labels: the first PENDINGSKIP of each entry, raw bytes of   *)
(* that value included.                                                    *)

Pendings(list) == {i \in DOMAIN list : list[i].op = PENDINGSKIP}

(* A slot beyond the table reads as zeros.                                 *)
LabelAt(id) ==
  IF id + 1 \in DOMAIN labels THEN labels[id + 1]
  ELSE [name |-> "", process |-> 0, entry |-> 0, forward |-> FALSE]

NextEntry ==
  IF fix[2] + 1 < Len(entries[fix[1]]) THEN <<fix[1], fix[2] + 1>> ELSE <<fix[1] + 1, 0>>

FixEntry ==
  /\ status = "fixing" /\ fix[1] <= MAX_PROCESSES
  /\ LET here == entries[fix[1]]
     IN  IF here = <<>> \/ Pendings(lists[here[fix[2] + 1]]) = {}
         THEN fix' = NextEntry /\ UNCHANGED <<lists, status>>
         ELSE LET n == here[fix[2] + 1]
                  pending == Pendings(lists[n])
                  i == CHOOSE x \in pending : \A y \in pending : x <= y
                  label == LabelAt(lists[n][i].value)
                  ahead == label.entry - fix[2] - 1
              IN  IF label.forward \/ label.process # fix[1] \/ ahead + 1 > Reach
                  THEN status' = "failed" /\ UNCHANGED <<lists, fix>>
                  ELSE /\ lists' = [lists EXCEPT ![n][i].op = SKIP, ![n][i].value = ahead]
                       /\ fix' = NextEntry
                       /\ UNCHANGED status
  /\ UNCHANGED <<job, read, ended, nested, depth, symbols, classic, expect, at, entries,
                 labels, msgs, warned, places>>

Fixed ==
  /\ status = "fixing" /\ fix[1] > MAX_PROCESSES
  /\ status' = "done"
  /\ UNCHANGED <<job, read, ended, nested, depth, parsed, fix>>

Stopped == status \in {"done", "failed"} /\ UNCHANGED vars

Parse(tok) ==
  \/ Skip(tok) \/ If(tok) \/ Else(tok) \/ Endif(tok) \/ Define(tok) \/ Classic(tok)
  \/ ParseProcess(tok) \/ ParseEntry(tok) \/ ParseVerbNoun(tok) \/ ParseSynonym(tok)
  \/ EndEntry(tok) \/ LabelInEntry(tok) \/ BehindLabel(tok)
  \/ ParseBytes(tok) \/ UserPtr(tok) \/ ParseCondact(tok) \/ UnknownCondact(tok)
  \/ Indirection(tok) \/ NumberParam(tok) \/ TextParam(tok)
  \/ BackLabel(tok) \/ ForwardLabel(tok) \/ BadParam(tok)

Next ==
  \/ \E tok \in Source : Parse(tok)
  \/ EndOfStream \/ FixEntry \/ Fixed \/ Stopped

Spec == Init /\ [][Next]_vars

-----------------------------------------------------------------------------
(* Properties.                                                             *)

(* Two counters are enough: at every moment the blocks they stand for are  *)
(* those of Conditionals, nothing in a dead block is compiled, and a source*)
(* with an open block is refused.                                          *)
Blocks ==
  INSTANCE Conditionals WITH
    branches <- [i \in 1..nested + (IF Skipping THEN depth - 1 ELSE 0) |->
                   ~Skipping \/ i < nested],
    accepted <- status \in {"fixing", "done"}
ImplementsConditionals == Blocks!Spec

(* An inline text reaches the player as it was written, whichever table had*)
(* room for it and whatever its condact had to become.                     *)
TableOf(op) ==
  CASE op \in {MES, MESSAGE} -> msgs.mtx
    [] op = SYSMESS -> msgs.stx
    [] op = DESC -> msgs.ltx
    [] op = XMES -> msgs.xtx
    [] op \in {XPLAY, XDATA} -> msgs.other

InlineTextsFound ==
  \A l \in DOMAIN lists : \A i \in DOMAIN lists[l] :
    LET c == lists[l][i]
    IN  c.text # NoText =>
          /\ c.value + 1 \in DOMAIN TableOf(c.op)
          /\ Printed(c.op, TableOf(c.op)[c.value + 1]) = c.text

(* Once a label has its place it keeps it, and a label keeps its slot: the *)
(* numbers in the PENDINGSKIPs and the displacements already compiled stay *)
(* right.                                                                  *)
LabelsStick ==
  [][\A i \in DOMAIN labels :
       /\ i \in DOMAIN labels' /\ labels'[i].name = labels[i].name
       /\ ~labels[i].forward => labels'[i] = labels[i]]_vars

Signed(value) == IF value >= Reach THEN value - 2 * Reach ELSE value

(* No entry has a synonym, and no process was opened twice: elsewhere the  *)
(* numbers of the entries and those of the labels part company.            *)
Plain ==
  /\ ~warned
  /\ \A p \in 0..MAX_PROCESSES : \A i, j \in DOMAIN entries[p] :
       i # j => entries[p][i] # entries[p][j]

(* In a plain source every SKIP to a label leads to the entry the label    *)
(* stands before, as far back and ahead as a byte with a sign can lead; one*)
(* that is left unresolved stands behind another in its entry.             *)
SkipsLeadToLabels ==
  status = "done" /\ Plain =>
    \A p \in 0..MAX_PROCESSES : \A i \in DOMAIN entries[p] :
      LET list == lists[entries[p][i]]
      IN  \A k \in DOMAIN list :
            /\ list[k].label # NoLabel /\ list[k].op = SKIP /\ ~list[k].indirect =>
                 places[list[k].label] = <<p, i + Signed(list[k].value)>>
            /\ list[k].op = PENDINGSKIP => \E j \in 1..k - 1 : list[j].op = SKIP
=============================================================================
