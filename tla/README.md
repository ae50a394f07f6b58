# A TLA+ verification of NDRC

NDRC is a compiler for DAAD text adventures: it reads a game source (`.DSF`) and
writes the database (`.DDB`) an interpreter runs on one of some thirty 8- and
16-bit machines, with the files that go with it. This directory holds TLA+
modules for the parts of it where an error would be hard to find by testing, the
TLC runs that check them, and proofs, checked by TLAPS, that most of what the
runs check on small instances holds for every input: for the process emitter
(both passes), the message tables, the XMESSAGE files, whole runs over a
directory, the parser of the process section and the symbol table.

Paths below are relative to the compiler's `src/` directory (in PROJECT.json they carry
the prefix `src/src/`); `docs/` is the repository's documentation.

Contents: 1 the program; 2 what is hard in it; 3 the modules; 4 the runs;
5 what is proved; 6 what is only model-checked, and what is not modelled;
7 disagreements found; 8 the plan; 9 how to run it.

## 1. The program

One process, no threads, no persistent server: a run is a function of its
command line and of the files in the directory, and it leaves files behind.
What makes it interesting is (a) several passes over the same lists, which
splice into them and step back; (b) sharing, where one body of bytes serves
several users whose pointers must stay right; (c) addresses counted by hand
beside the bytes they stand for; (d) files that outlive a run and are read,
appended to or embedded by the next one.

    .DSF --front/--> JSON --model.c--> backend.c backend_run --> .DDB
                                          |  back/emit_*.c       0.XMB, NN.XMB
                                          |  tokens, tokselect   .tok
                                          |  text2, huff         .map, .JDDB

| Component (source) | State it keeps | Operations | It is correct when |
|---|---|---|---|
| Command line (`main.c`) | none | refuse, front only (`--to-json`), back only (`--from-json`), both | the exit code tells whether this run's result is on disk |
| Lexer, includes (`front/lex.c`, `lexlib.c`, `include.c`) | a temporary file with the includes expanded, line map | preparse, next token | every token has the position of its source line |
| Parser (`front/sintactic.c`, `condacts.c`, `process.c`) | the token, symbol table, processes with their entries and condacts | scan with `#ifdef`/`#else`/`#endif`, parse one section after the other, fix labels | a skipped block leaves no trace; a SKIP lands behind its label; an inline text is found where the condact looks |
| Label, symbol and text tables (`front/labels.c`, `symbols.c`, `messagelist.c`) | lists with a limit | add, look up, insert or reuse | numbers given out never change their meaning |
| Vocabulary tree, objects, connections (`front/voctree.c`, `objects.c`, `connections.c`) | filled once, in source order or by the bytes of the words | add, look up | words and numbers as declared |
| JSON export, JSON, model (`front/jsonexport.c`, `json.c`, `model.c`) | one document | write, parse, convert, each by replacing one sequence after another | a text means what its source says |
| Driver of the back end (`backend.c`) | current address, address table, which files are open | the sequence of stages in `backend_run` | tables located where they are; no stale file taken for a result |
| Token compression (`tokens.c`, `tokselect.c`) | candidate heap, per-text cost cache, chosen tokens | select greedily, prune, order, encode, verify | texts decode to themselves; nothing chosen at a loss; object names keep their first word |
| Text format 2 (`text2.c`, `huff.c`) | tokens, code lengths, block, region | build both alphabets, choose, emit, verify | codes are complete and cheapest; every stream reads back as its text |
| Expressions (`front/expr.c`) | cursor, tree, the bytes of a value | scan, parse, check, evaluate | the tree is the one the precedences say; a value is read in the type it holds |
| Message tables (`back/emit_msg.c`) | address, XMB cursor, region, offsets, saving | place each text, write lookup words | each lookup word leads to its text |
| XMESSAGE files (`back/emit_xmb.c`) | open file, cursor, page | roll files, pad pages, refuse | each text can be found from its offset and lies within its page |
| Process emitter, pass zero (`back/emit_proc.c:408-613`, `emit_mml.c`) | entry lists being rewritten | one visit per condact, splice and step back | every spliced condact is visited; notes are as written |
| Process emitter, dump (`emit_proc.c:615-960`) | address, hash map, offsets | register tails, dump or share, row tables, process vector | every entry is found through the tables and means its own condacts |
| Header, externs, objects, vocabulary, connections (`emit_hdr.c`, `emit_ext.c`, `emit_obj.c`, `emit_voc.c`, `emit_con.c`) | address, thirteen header words, three vectors | write tables, pad, patch | each table is found through the header and reads back as the source |
| Post-processing (`back/finish.c`), source map (`back/srcmap.c`) | none, the list of records | prefix, JDDB, `.map` | embeds and names what this run made |
| Targets (`targets.c`), arithmetic (`phpround.c`) | constant rows | look up, round | exact half-up rounding |
| Containers (`arena.c`, `vec.c`, `str.c`, `map.c`), diagnostics (`diag.c`) | usual | usual | a map finds what was put |

How they interact: the front end hands the back end a JSON document (in memory
when both run). Within the back end all emitters share one output
string and one address; the text tables and the XMESSAGE emitter share the file `0.XMB`
(`-X` appends behind what the first wrote); the process emitter takes the
offsets of XMESSAGEs from the XMESSAGE emitter and the positions of user pointers back to
the header; tokens come from a `.tok` beside the source, from the selection of
this run, or from the builtin tables, in that order, so an earlier run decides
how this one compiles.

## 2. What is hard in it

PROJECT.json lists forty hazards, each at its line with the properties that
would catch it. In groups:

- *Sharing.* An entry whose condacts equal a tail already in the dump reuses its
  address (`emit_proc.c:713`); equal texts share one copy per destination
  (`emit_msg.c:58`). The key must stand for the bytes, the offset must be of
  bytes that are written, and padding must not come between.
- *Counted addresses and boundaries.* Pads, end marks, INDIR prefixes, page
  ends, 16-bit words, 64K files.
- *Passes that re-read what they write.* Splicing tunes and XDATA into the list
  being walked; durations scaled on one visit and not on the next.
- *Forward references.* A SKIP to a label not seen yet occupies a label slot and is fixed by a walk
  after the whole source is read; synonyms, reopened processes and inline
  texts happen in between.
- *Nested conditionals.* The scanner counts blocks in two different ways.
- *Untyped values.* An expression's value is eight bytes that hold an integer, a
  Double or a Boolean, and its reader goes by a type derived from the tree.
- *Lazy evaluation.* Token selection keeps upper bounds from earlier rounds in a heap, and costs in a
  cache; a bound that is too low or a cache that is stale loses bytes silently.
- *Conversions in passes.* What one replacement writes the next one reads: quotes,
  sharps and accented letters on their way through the JSON document.
- *Files between runs.* Append mode, the `.tok` freeze, checks that refuse the database after
  other files are written, embedded XMBs, unchecked writes.

There is no concurrency and no retry in this program, so none is modelled.

## 3. The modules

PROJECT.json's `map` gives the source lines of every definition. In each module
the parameters of a call (a job, a table, a call, a command) are drawn from a CONSTANT set, whose
assumption says what the callers guarantee; the state is what the C function
keeps in locals and outputs; one action is one turn of a loop or one branch in
it, in the order of the code; a refusal is an action that ends the run. A map
is a function, a vector a sequence, a text a sequence of a few letters. Every module but Database and Expr has a
stutter at its end, so a deadlock found by TLC is a stuck state; these two stop where the
program does.

A module `X_proofs` extends `X` and holds its theorems, with the inductive
invariant where that is of use to the proof alone. `Basics` has the lemmas several of
them cite: concatenation, parts and splices of sequences, a number in two bytes,
induction over the naturals and over functions that refer to their own values.
In modules with theorems recursion is always such a function, from a list's end
(`TailBytes`, `Lengths`, `SharedFrom`, `TuneFrom`) or from its beginning
(`Displacements`, `ValuesBefore`, `BucketsBefore`, `SymbolsBefore`).

### ProcCode, ProcDump, Placement: the dump of processes

`ProcCode` holds the pure part: the bytes of a condact (`CondactBytes`, with the
INDIR prefix for an indirected second parameter), its entry in an entry's hash
(`HashTokens`), what is dumped of an entry (`Dumped`: to the first terminator
and without the fakes) and an entry's meaning (`EntryBytes`).

`ProcDump` is `emit_processes` from pass one on. `RegisterTails` is the pass
that gives every tail hash of every entry a slot without offset.
In the dump, `ShareBody` is the entry whose hash has an offset, `OpenBody` the one
that pads and starts; `SkipCondact`, `EmitCondact` and `CloseBody` walk the
condacts, registering the tail at each (at even addresses only, on padding
targets); `NextProcess`, `StartRows`, `WriteRow`, `EndRows`, `StartVector`, `WriteVector`,
`Finish` write the tables. `out` is the bytes from `job.base` on and `addr` the address counted by hand, kept apart on purpose.

`Placement` is what a table of shared things promises: everything gets a place,
one at a time, once, and what is found there is what was meant. ProcDump and Xmb
implement it (`ImplementsPlacement`), each with its own `meaning` and with what
an interpreter would read at the offset for `found`.

Properties: `AddrCountsBytes`; `TablesReadBack` (following the process vector,
the row and the entry's pointer, one reads the entry's own bytes);
`BodiesAligned`; `SrcMapNamesOpcodes`; `UserPtrsInBodies` (a slot that is set holds the
address one of its `#userptr`s stands at, and each that the dump has passed is set, unless its entry
hashes like an earlier tail and so may have been given that one's bytes);
`OffsetsStick`. For the proofs the module also states `EntriesReadBack` (what
`ImplementsPlacement` calls found) and two limits, `HashesTell`, with `AritiesFixed` as a condition that is
enough for it, and `AddressesFit` (section 5).

### MsgTable: one table of texts

`emit_messages` whole: `ShareText`, `TextToRegion`, `TextToRam`, `TextToXmb` are
the four fates of a text, `StartWords`/`WriteWord` the lookup table. The words
wrap at 16 bits as `str_push_u16` does. `LookupsReadBack` follows each word to
where it leads (the database, 0.XMB or format 2's region) and reads up to the terminator;
`SavingsExact` compares the reported saving with the bytes a table without
sharing would have taken; `RamTextsAligned` says what a padding target needs of
each text in the database.

### Xmb: the XMESSAGE files

Both emitters, for the five kinds of target: one file, files of a fixed size,
pages in one file, with or without a window at the page's end.
`NextFile`, `NextPage`, `PutText`, `Close`; `Refuse`, `CannotOpen` and
`WriteFails` are the ways out. File bytes are pairs <<text, position>>.
`Gap` = 2, `MaxCoded` = 4 and `DataLimit` = 7 stand for 512, 8192 and 65535.
`TextsWithinPages` is stated of texts that fit a page at all; `SizesAgree`
relates the size returned to the files on disk, and says that a call which succeeds leaves
the last file within its limit (`LastMayHave`) and one that fails with all texts written leaves it beyond; `ImageCoversTexts` says the
padded image holds every text.

### ProcRewrite: pass zero and music

One `Visit...` action per arm of the switch at `emit_proc.c:433-606`. `Splice`
replaces a condact by a chain and steps back so that the chain is visited;
`Tune` is `emit_mml.c` over parsed notes, with the state of a tune (octave, volume, length, tempo) as the fold
`ValuesBefore`. Every condact carries `src`, the index of the condact it comes
from, for the properties: `SourceOrder` (splicing keeps the order),
`PitchesAudible`, `NotesLastAsWritten` (a tune of notes A to G is, in the end,
a `Stretch` of condacts, one for each note, in a row and in order, and each `Lasts`
what the tune says, scaled once), `PassedIsFinal` (what the walk has left behind does not change),
`PassTerminates`.

### Ndrc: whole runs over a directory

The directory (`disk`) and one run at a time, with stages for each effect on a file in the order
of `main.c` and `backend_run`, any of which may fail; the source may be edited
between runs. A file's contents are abstract: what they were made from. Properties: `DatabaseFindsXmb` (a
database on disk after a successful run finds its texts in the 0.XMB beside it),
`SuccessIsThisRun` (after exit 0 every file asked for is of this run and this
source; only a write that nobody checks, contents `Cut`, may be short),
`FailureKeepsDatabase` (a failed run leaves the database that was there, unless only
the map or the JDDB failed), `FrozenTextsSame` (a build with a frozen `.tok` encodes texts as the flagged build did).

### HashMap, Escapes, DataSections, Database: a game from tokens to bytes

`HashMap` is `map.c`: entries in the order they came, buckets with linear
probing (`Probe`, `Slot`), doubled when 70 % full (the entry that makes it grow is placed by the
rehash). `Hash` and `InitialBuckets` are constants. An abort for want of memory is
left out.

`Escapes` is what happens to a text: quotes, letters and escapes replaced pass
after pass for the document (`jsonexport.c`), the JSON string decoded (`json.c`),
escapes replaced again (`model.c`). A text is a sequence of bytes; `\u00hh` in
the document is one mark. `Meaning` reads a text once from left to right, and
`Plainly` says where no two readings of it compete.

`DataSections` parses `/CTL` to `/OBJ` from a sequence of tokens, one definition
an action: `ParseNewWord`, `ParseMessage`, `ParseLocation`, `ParseConnection`,
`ParseObject`, `EndSection`, `Refuse` for the first definition that breaks a
rule. `ParsePro` only adds the inline texts, which Sintactic has in full. Symbols
live in a HashMap, words in the order of their bytes.

`Database` goes on from there: `LoadModel` or `RefuseText`, then one action per
stage of `backend_run` between the header and the patch (`WriteHeader`,
`WriteExterns`, ... `WriteProcesses`, `PatchHeader`), each an emitter that
appends bytes and counts the address for itself (`Push`, and `Laid` for items one
after the other whose places go into a lookup); `MissingExtern`, `Truncate`
(`-np`) and the end beyond 64K, of the file or of format 2's region, are the other ways out. What stands after tokens
and condacts are opaque bytes, since Tokens, Text2 and ProcDump have them.

`FileReadsBack` reads the finished file as an interpreter does, from its header
words alone, and finds each count, text, table, extern, process and list of
addresses the driver had in its lists: it is about offsets and padding, and is proved.
`SourceReadsBack` compares the objects, words and connections found there with the
*tokens of the source*, so parser, emitters and driver are all under it. `TextsMeanSource` compares a loaded text with its
`Meaning`. `SymbolsFound` says a search ends at the bucket of every symbol and a
word's symbol has the word's value.

### Conditionals, Sintactic: the parser of the process section

`Sintactic` reads any source over an alphabet of tokens: `job` holds an alphabet
and a length, and the next token is chosen when it is read, so a run covers
every source of that length at once. Scanner: `Skip` (inside a block not
taken), `If`, `Else`, `Endif`, `Define`, `Classic`, `EndOfStream`. Parser:
`ParseProcess`, `ParseEntry`, `ParseVerbNoun`, `ParseSynonym`, then condacts
with at most one parameter: `NumberParam`, `UserPtr`, `TextParam`, `BackLabel`,
`ForwardLabel`, `LabelInEntry` ... and after the last token `FixEntry`, the walk that replaces
PENDINGSKIP by a displacement. `Conditionals` is the specification of `#ifdef`:
a stack of branches, and only tokens under branches all taken are obeyed;
`ImplementsConditionals` is the refinement. `SkipsLeadToLabels` reads a SKIP's
displacement with the sign the interpreter gives it and finds its label there. `Plain`
excludes the two situations the repository documents as defects kept from the
original compiler (a label behind a group of synonyms, a second forward label in an entry: its notes 19.24, 19.42, 19.43)
and the reopened process (section 7). `InlineTextsFound` is the cascade of full text tables;
`LabelsStick` says a label defined keeps its place and a mention its slot.

### Tokens: token compression

`tokselect.c` and the sequential encoder of `tokens.c`. Selection: `Extract`
builds the heap; `PopTaken`, `EvalTop`, `TakeTop`, `TakeBest`, `StopSelect` are
the lazy greedy round (take the top when its bound is of this round, evaluate
it otherwise, give up after BUDGET evaluations and take the best seen). `TryDrop`, `NextSweep` are both
prunes, `SortChosen` the order. `Load`, `TooMany`, `Order`, `Encode`, `Verify`
are `tokselect_compress`. `NoTokens`, `StartSequential`, `FirstPass`,
`Survivors`, `SecondPass`, `EndSequential` the other encoder, which replaces token after token
in a text and renumbers by what was used. The optimal parse is a fold from a
text's end (`Costs`). `TextsDecode` expands the encoded text through the table
as emitted, bit 7 marking each token's last letter, as an interpreter does;
`StepsPay` is an action property: each token taken or dropped makes texts and
table together strictly cheaper, recomputed from nothing, although the code goes by cached costs and old bounds; `ObjectsKeepWords`
is the promise of `docs/cli.md:169-173` about object names.

### ExprScan, Expr, ExprGrammar: expressions in quotes

`ExprScan` is the scanner: white space, delimiters, strings, numbers in four
bases with their limits (an integer too wide and a decimal beyond the largest Double end the
parse), and words; a token that the code would stop at comes out as `"bad"` and the
parser stops when it reaches it. `Expr` is the rest: `Level` is the ladder of
precedences (one operator for the mutually recursive functions from `level_1` down
to the operands, as the code's functions call one another), with the conversion of
integers and the chains of powers done while parsing; then the
check of the root's type; then the evaluator, with functions, `if` and `case`; last the parser
of the source, which stores the result as a parameter.

A value is what the code has: eight bytes and a kind. Reading a Double's bytes
as an integer, or the other way round, is left open (`SlotInt`, `SlotFloat`)
and marks the value `raw`. A Double is an exact fraction. `IntBits` = 10,
`ShortString` = 24, `MaxLongInt` = 127 and `FloatLimit` = 4096 stand for
64, 255, 2147483647 and the largest Double.

`ExprGrammar` says what an expression means without a cursor: the words of an
expression are split at the operator that binds least, and so on. `ParsesAsGrammar` compares that tree,
with its types, with what the recursive descent made of the characters;
`TypedReads` says an expression whose operations all fit their operands is accepted, with their type,
and no value of it is read in a type it was not stored in (finding 2 is about one that does not fit);
`StoresValue` compares the parameter with the value of the grammar's tree.

### Huffman, Text2: text format 2

`Huffman` holds the merge of the two lightest nodes with its tie rule, the
lengths cut at `MAXLEN` and repaired, canonical codes and the bit-wise decoder.
`Text2` runs `text2_build`: for each of two alphabets `RoundOne` (with unit
costs), `RoundTwo` (with the costs of the first round's code), `Nest` (tokens written with
shorter tokens, pinned and ordered), `Code`; then `Choose` by the sizes, `FormatOne` when format 2 does not
pay, `SelfCheck`, `Emit` and `Verify`, which reads the block and the region back from the bytes.
The tokens a round selects are given by the job: the selection itself is in Tokens.

`CodesBest`: each code is complete, within the limit, never gives the
more frequent symbol the longer code, and costs no more than any tree of that depth, by enumeration of
trees; `AcceptsOwnOutput`: neither the self check nor the verifier refuses what
was just made; `ChoiceBySize`: the sizes that decide are the sizes emitted.

## 4. The runs

State counts are of distinct states. Every run finishes, in seconds up to a
minute or two; deadlock is checked in all of them but `database`, `expr` and `expr_pointer`, where a
run ends in a result or a refusal.

| Run | Instance | States | Shows |
|---|---|---|---|
| `proc_dump` | 2 processes, 2 entries over 16 bodies and a third over 4 of them, 4 targets | 94,830 | all properties of ProcDump (the type invariant is proved, section 5), and that it implements Placement |
| `proc_dump_alike` | a v2 XMES and an EXTERN whose hashes coincide | violation | finding 1 |
| `msg_table` | up to 4 texts of 3, 6 flag sets, sharing on and off, even and odd base | 25,456 | all properties of MsgTable |
| `xmb` | up to 4 texts with lengths around every boundary, 5 targets, format 2, each open and each write failing | 67,931 | all properties of Xmb, its steps are steps of Placement |
| `rewrite` | 15 entries that mix every arm, 3 target rows, both DAAD versions | 966 | all properties of ProcRewrite, termination |
| `expr` | every expression of a few words over ten families of words, spaced and glued | 25,608 | all properties of Expr |
| `expr_pointer` | an `if` with a string in one branch | violation | finding 2 |
| `text2` | games of five texts, every dictionary out of six tokens, five limits; skewed counts | 17,452 | all properties of Text2 |
| `database` | two games under every option that moves a table, one of them with each token missing or replaced, texts where escapes touch, symbols that collide; 298 jobs | 8,554 | all properties of Database |
| `ndrc` | 2 runs out of 16 commands, 3 games, edits between, any failure | 515,400 | all properties of Ndrc |
| `parser` | up to 14 free tokens behind a fixed beginning, 14 jobs (one for each of 6 alphabets, and 8 option and table settings for one of inline texts) | about 1.4 million | all properties of Sintactic, implements Conditionals |
| `tokens` | 6 families of texts and tables | 32,249 | all properties of Tokens |

Why these bounds are enough to be of interest:

- *ProcDump.* Two entries can share whole bodies, a third (in another process) a tail of
  either; the sixteen bodies are tails of one another, differ only in an
  indirection, hold fakes, dead condacts after a terminator, user pointers, a v2 XMES, an EXTERN, or nothing.
  Targets cover padding, forced padding, byte order, debug and classic mode.
  A base of 1 puts bodies at odd addresses.
- *MsgTable.* Four texts over three values give every pattern of equal and
  different, adjacent and apart, on both sides of `LastDefaultSysmess` (1 stands for 61).
- *Xmb.* Lengths one below, at and one above each of: what is left of a page, the
  page, the gap, the coded limit. Four texts fill three pages.
- *ProcRewrite.* Each entry puts two or three arms next to each other;
  a second entry behind shows the walk goes on. Notes at the limits of octave, pitch and
  duration.
- *Expr.* Four or five words are enough to put any operator beside any other, on
  either side and inside brackets; numbers sit at the limits of 10 bits, words at
  the limit of `ShortString`, and literals on both sides of `FloatLimit`.
- *Text2.* `LITS` = 12 and `REFMAX` = 4 for 128, `LARGE` = 7 for 383: a dictionary
  of six tokens is more than the small alphabet can name, and fits the
  large one. `MAXLEN` = 4 for 15: six symbols with counts like 1, 2, 3, 5, 8
  need the repair.
- *Database.* Two locations, up to three objects, five words: each table has more
  than one record, an odd length, and a neighbour to be confused with. Bases are
  even and odd, and four of them put the end of the small game on both sides of 64K.
  `Hash` is the sum of the bytes and `InitialBuckets` = 4 (for 64), so keys
  collide and the table grows twice; `MaxTexts` = 4 for 255.
- *Ndrc.* Two runs are enough for one to leave what the other reads; three games
  that differ in having XMESSAGEs and in being worth compressing. `MaxRuns` = 2.
- *Sintactic.* `Reach` = 2 stands for 128 (a SKIP leads 2 entries back, 1
  ahead), so that sources of a dozen tokens reach past it on either side;
  `MAX_LABELS` = 5 against a `MAX_PARAMETER_RANGE` of 3 keeps the code's
  situation that there are more labels than a parameter can name; `MAX_MESSAGES_PER_TABLE` = 2 so
  that the cascade runs through full tables; `MAX_PROCESSES` = 1.
- *Tokens.* `MAXTOK` = 4 for 128 and `BUDGET` = 3 for 500, tokens of up to 4 letters for 12. The
  families: overlapping words, tokens that nest (so a token chosen early loses its use), object
  texts with spaces and stops, marked `.tok` tables longer than needed or than
  allowed, costs in bits as format 2 gives them, and sequential replacement.

Fairness. ProcDump and ProcRewrite have weak fairness of Next: each
is one C function that runs to its return, waits for nothing and is not interrupted,
so it takes its next step while it has one. That is what `PassTerminates` and the
liveness half of `ImplementsPlacement` rest on. The other modules claim safety
only: in Xmb and Ndrc a call may fail at any point, and in
Sintactic the source may be of any length.

For each property PROJECT.json names a mutant, a plausible slip in one definition
(a guard dropped, an offset taken before a pad, a prune that forgets a token),
defined above the definition it replaces and called `Mutant...`; under it TLC
finds the property violated.

## 5. What is proved

Each theorem holds for every value of the constants that satisfies the
assumptions stated beside the constants; these only say of what kind a job, a
call or a table is (`IsJob`, `IsCall`, `IsTable`: what the callers hand over),
never how large. What a theorem needs beyond that is part of its statement, and
listed under the tables. `P` below stands for `Spec => []P`.

**ProcDump_proofs** (the dump of processes)

| Theorem | Property | Statement |
|---|---|---|
| `TypeCorrect` | `TypeOK` | every variable in its range, no table read before it is set |
| `AddrCorrect` | `AddrCountsBytes` | the address counted by hand is the base plus the bytes pushed |
| `Aligned` | `BodiesAligned` | on a padding target bodies, shared ones included, rows and vector are at even addresses |
| `OffsetsNeverMove` | `OffsetsStick` | an offset once given, to a hash or to an entry, never changes |
| `AritiesTell` | | `AritiesFixed` is enough for `HashesTell` |
| `SameHashSameBytes` | | tails of equal hashes are dumped as equal bytes (what `emit_proc.c:378` rests on) |
| `EntriesFound` | `EntriesReadBack` | an entry's offset leads to the entry's own bytes, at every step |
| `EntriesArePlaced` | `PlacesEntries` | the safety part of `ImplementsPlacement` |
| `TablesFound` | `TablesReadBack` | following vector, rows and pointers reads every process and entry |
| `UserPtrsPlaced` | `UserPtrsInBodies` | a slot holds the address of a `#userptr` of its number, and is set once one is passed whose entry hashes like no earlier tail |
| `MapNamesOpcodes` | `SrcMapNamesOpcodes` | each record of `-srcmap` names its own condact |

None of these is inductive alone. `IndInv` carries the first four: `TypeOK` and `AddrCountsBytes`;
`BodiesAligned`, which needs that the offset an entry shares is even, hence
`TailOffsetsAligned`; `TailsRegistered` (pass one has met every tail hash that
the dump asks for) and `OffsetsFollowDump` (exactly the entries up to the
current one have an offset). What is read back needs `CodeInv` on top:
`HashesLead` says a hash with an offset is that of some tail whose bytes stand
there *or will, when the entry being dumped is finished*, for an entry may
share what is still being written only in part; `OffsetsLead` says the same of entries.
The step that shares is then `SameHashSameBytes`, which goes by induction from the tails' ends.
`RowsInv` and `VectorInv` add the tables, `BodyInPlace` (the address is the
body's offset plus what the cursor has passed), `CursorReaches` (the cursor stands before no condact the
dump would not reach) and `OffsetsReached` (a hash with an offset is that of a tail
the dump has reached) the user pointers, `RecordsNamed` the map.

Two limits appear in the statements. `HashesTell`, a hypothesis of the five theorems from `SameHashSameBytes` on
except `UserPtrsPlaced`: tails of one
hash never begin with condacts of unequally many parameters. Without it two tails with the same
hash can mean different bytes, which is what finding 1 shows; what the theorems say is
that nothing else can go wrong. A job satisfies it when an opcode determines how many
parameters follow (`AritiesFixed`, theorem `AritiesTell`), which is every job with no `#db` byte and,
on DAAD v2, no XMES beside an EXTERN, XUNDONE or XSPLITSCR: pass zero makes EXTERNs of all four, of three parameters
for the first and of two for the others (`emit_proc.c:454-459`, `492-493`, `618-619`). A job that has
such a pair still satisfies `HashesTell` unless two of its hashes coincide, and `proc_dump` has
jobs of both kinds. `AddressesFit`: the file ends within 64K; a larger one is refused
by the driver (`overflow` in Database).

**MsgTable_proofs** (a table of texts)

| Theorem | Property | Statement |
|---|---|---|
| `TextsFound` | `TextsReadBack` | each text met so far is found whole at its offset, in its destination |
| `TextsAligned` | `RamTextsAligned` | on a padding target no text and no lookup table is at an odd address |
| `WordsCutOffsets` | `WordsAreOffsets` | each lookup word is its text's offset modulo 64K, always |
| `LookupsFound` | `LookupsReadBack` | while `OffsetsFit`, each lookup word leads to its text |
| `SavingsCounted` | `SavingsExact` | the saving reported is what sharing saved |

The invariant says that the three cursors count what was written, that only
texts met have offsets, that they read back, and which words are written
(`WordsWritten`); `Savings` adds up lengths over a recursive function.
`OffsetsFit` cannot be dropped: nothing limits the append cursor of `-X`
(section 7), and `WordsCutOffsets` is what happens without it.

**Xmb_proofs** (the XMESSAGE files)

| Theorem | Property | Statement |
|---|---|---|
| `TextsUncut` | `TextsWithinPages` | no text crosses the end of a page or the window before it |
| `ImageComplete` | `ImageCoversTexts` | the padded image holds every text, and every file its header |
| `SizesKnown` | `SizesAgree` | the size returned is that of the files on disk; refused is exactly what is beyond the limit |
| `TextsArePlaced` | `ImplementsPlacement` | each text gets one place, once, and is found there |

The last two assume `TextsFitPages`: on a target that pages one file no text is
longer than a page (of those the emitter makes no claim). The invariant relates cursor, page and the length of
the files (`CursorInside`, `LayoutKnown`; `EndKnown`, once the files are closed), and has every text in its place.

**ProcRewrite_proofs** (pass zero and music)

| Theorem | Property | Statement |
|---|---|---|
| `OrderKept` | `SourceOrder` | splicing loses no condact and keeps their order |
| `BeepsSound` | `PitchesAudible` | no BEEP of a finished pass is outside the player's range |
| `PassedStays` | `PassedIsFinal` | what the walk has passed does not change |
| `NotesKeepTime` | `NotesLastAsWritten` | a tune of notes ends as its notes, in a row, each as long as written |

`IndInv` has the cursor inside the lists (a splice steps back, so it is a
place in the list *before* the splice), the order of the `src` marks, and which BEEPs are checked: those
passed. `Tunes` says of every tune of notes that it either still `Waits`, unchanged and ahead of
the walk, or `Plays`: its notes stand in a row, those passed last what is
written, those ahead do and are marked as adjusted already. That it survives every other splice, before and
behind it, is most of the proof.

**Ndrc_proofs** (whole runs over a directory)

| Theorem | Property | Statement |
|---|---|---|
| `TypeCorrect` | `TypeOK` | every file holds contents of its own kind |
| `XmbFound` | `DatabaseFindsXmb` | after a success the 0.XMB beside a database serves it |
| `SuccessMeansThisRun` | `SuccessIsThisRun` | exit 0: every file asked for is of this run and source |
| `FailureIsSafe` | `FailureKeepsDatabase` | a failed run leaves the database, unless only map or JDDB failed |
| `FreezeWorks` | `FrozenTextsSame` | a build with a frozen `.tok` codes texts as the frozen one did |

For any number of runs and commands, any games, any failures. `AbsentAssumption` says the
mark for a missing file is none of the contents. Each part of the invariant
says, stage by stage, what one file holds relative to what the run has in memory (`TokenInv`, `AddressInv`, `XmbInv`,
`FilesInv`, `DatabaseInv`, `FrozenInv`).

**Sintactic_proofs** (the parser of the process section)

| Theorem | Property | Statement |
|---|---|---|
| `BlocksNest` | `ImplementsConditionals` | two counters obey exactly the tokens whose blocks are all live |
| `LabelsNeverMove` | `LabelsStick` | a label defined keeps its place, a mention its slot |
| `InlineTextsReadBack` | `InlineTextsFound` | an inline text is found through its condact, whatever table the cascade put it in |
| `SkipsArrive` | `SkipsLeadToLabels` | in a `Plain` source every SKIP resolved leads to its label |

`BlocksNest` needs only that the inner counter is zero when the outer one is
(`Counted`), and the row of blocks as a refinement mapping. The others share one invariant: `Tables` and
`Going` (ranges), `Grammar` (which list belongs to which entry, where labels
and pending SKIPs stand, what the walk has fixed), `TextsFound` (what the
properties say of the condacts parsed so far). The jobs' assumption gives each token the
operands the lexer gives it.

**Database_proofs** (the symbols, and the file)

| Theorem | Property | Statement |
|---|---|---|
| `SymbolsAreFound` | `SymbolsFound` | a search for any symbol declared ends at its entry; each word is a symbol with its value |
| `FilesReadBack` | `FileReadsBack` | whatever the driver wrote is found from the header of a finished file |

`SymbolsAreFound` is for every hash function that maps sequences of bytes to numbers
(`HashesAreNumbers`, the one hypothesis) and every initial number of buckets above two.
`IsMap` is the invariant of the table: keys differ, at most seventy percent of the buckets would be full with one
more entry, and `Holds`: no two buckets name one entry, and from its key's own bucket on each entry is met
before a free bucket. That a search ends at all is a pigeonhole argument
(`OneIsFree`, `MeetsAll`). `Seated` keeps `Holds` (`SeatedHolds`), so a rehash builds
it from nothing (`RehashHolds`, by induction over the entries) and `Put` keeps
`IsMap` whether the table grows or not (`PutNew`). `SymbolsInv` adds that each word has its entry.

`FilesReadBack` is for every source, every game's lists, every extern and every option
(`OptionsAssumption`, `JobsAssumption`; `TextsAssumption`, a table has at most 255 texts, as in the
code, since a count is one byte), with an invariant that TLC checked before it was proved.
`FileInv` says for each status which header words are noted (`KnownWords`) and what each leads
to (`TableStands`): the bytes themselves (`Stands`), or words that lead to them in the file
(`Leads`) or in the region (`LeadsInStream`). A property of the finished file
alone is not inductive: nothing in it says that the bytes stay where they were put.
Here they do because a file only grows (`StandsKept`, `WordsOn`), the address is where
the next byte goes (`IsImage`), and the patch writes
below the sixtieth byte while `Stands` is about those above (`PatchKeeps`). `Laid` is
treated once, by induction over the items, for every emitter that lays items one after
the other. That a text is read to its end and no further
needs `LoadedInv`: a loaded text has no byte that looks like its mark, which follows
from the conversion of texts and the check behind it (`LoadModelKeeps`). That a word is read as it
was meant needs the limits the driver checks last (`WithinLimits`).

The proofs rest on the library's theorems on sequences and finite sets and on
nothing else.

## 6. What is only model-checked, and what is not modelled

Only model-checked:

- liveness (`PassTerminates`, the fair half of ProcDump's `ImplementsPlacement`), which is beyond the prover;
- Tokens (`TextsDecode`, `StepsPay`, `ObjectsKeepWords`): sums and expansions by folds
  over costs, which would first need a function of their own each, and lemmas about it;
- Expr, ExprGrammar, Text2 and Huffman: trees are walked by `RECURSIVE` operators,
  which the prover cannot treat, and no theorem is stated in a module that reaches one;
- `SourceReadsBack` and `TextsMeanSource` of Database: the first needs the lists
  related to the tokens they came from, over every section of the parser; the second
  relates three passes of replacement to one reading from left to right.

The library's induction theorems take an operator as a parameter and cannot be
instantiated with the provers installed. Induction over the naturals is
therefore stated in Basics with a set (`Induction`, from `LeastNatural`) and the
existence of a function that refers to its own values with
`BackwardRecursion` and `ForwardRecursion`, each step given as a function.

Abstractions, by module:

- ProcDump: hashes are the lists they print, not their text; verbose notes are left out.
- MsgTable, Xmb: texts are short sequences; file names are numbers.
- ProcRewrite: a tune comes parsed; tempo 0 and negative lengths are left out (the
  conversion they lead to, infinity to `long`, is undefined). A note keeps its
  full duration; that the dump writes its low byte only is ProcCode's.
- Database: the document between front and back end is not text: what is
  modelled of it is what happens to a text, and the other lists pass unchanged.
  The two digits of a mark are in the case the document gives them but for
  the 7F of `#f`, which only a backslash right before it makes visible. The containers' warnings, the
  summary and the address table printed with `-v` are left out.
- Ndrc: options are those that change which files are read or written; a
  file is what it was made from.
- Sintactic: `#extern`, `#echo`, `#int`,
  `#sfx`, `#debug`, expressions, condacts with more than one parameter, `-semantic-warnings`, the
  511-character limit of an XMES text.
- Tokens: the check of the whole database on disk (`tokselect.c:847-890`), and `.tok` files of more than 129 entries.
- Expr: rounding of Doubles, the functions of the C library (`Real` gives them a
  value each), the wording of errors, `as_string`.
- Text2: which tokens a round selects, the `.tok` it writes.

Not modelled: the lexer's generated tables, the line map of includes, the
syntax of the JSON document, option parsing, the post-processing's layouts.
PROJECT.json's `components` has a line for each.

## 7. Disagreements found

Each is a run that TLC refutes, with the line it quotes in PROJECT.json.

1. `proc_dump_alike`: `emit_proc.c:378` says equal hashes mean equal bytes. They need not, once an opcode has
   no fixed number of parameters: on DAAD v2 pass zero makes XMES an EXTERN with three parameters
   (`emit_proc.c:454-459`), and an EXTERN in the source has two. An XMES at offset 0x160A and
   `EXTERN 10 3` with a DONE behind print the same hash, `61 10 3 22`; the first is written with
   an end mark, the second without, and one is given the other's bytes. Raw `#db` bytes do the
   same: `#db 10 #db 22` and `CHANCE 22` print one hash (`RawJobs` in MC_ProcDump, to be put in the
   place of `XmesJobs` in the cfg).
2. `expr_pointer`: `expr.h:14-15` says the engine never exits and answers every
   text. The type of an `if` is its second argument's; with a string in the
   other branch the evaluator reads a string through a pointer that is not set
   (the sum at `expr.c:1719-1721`, the comparison at 1662).

Seen while modelling, not made into runs:

- a rest is raised to 1 against `PAUSE 0` (`emit_mml.c:169`), then scaled again by
  the visit after the splice (`emit_proc.c:472`): on CP4 the shortest rest
  becomes `PAUSE 0`;
- with `-7` an inverted mark becomes `#` (`jsonexport.c`, `A7_DIRECT`), which the next pass
  takes for an escape's: an inverted exclamation mark before an `n` becomes a new line;
- `##n` becomes a sharp and a new line, although `model.c` says `##` is replaced
  last "so a literal '#' survives";
- an initial location of -1 is accepted and written as 255, which `sintactic.c:787`
  says is not accepted (`SourceReadsBack` compares places modulo 256);
- a direction whose value is 255 modulo 256 ends the connections of its location
  (`SourceReadsBack` says nothing of connections then), and a target is never
  compared with the locations (the source's own note 19.35);
- a letter without a code, such as a grave accent's, disappears from a word of the
  vocabulary in the database (`emit_voc.c`), so two words can become one;
- a game without locations is always refused at `/CON`;
- a lookup word has 16 bits, the append cursor of `-X` has no limit, and past 64K
  the word leads to another text (`emit_msg.c:118`);
- `docs/cli.md:156` promises a byte-identical frozen build, but with `-X` the second
  build appends behind the first one's texts in 0.XMB and its database differs
  (`FrozenTextsSame` is what does hold);
- a comment says a label that is found is always behind (`sintactic.c:1137`), but a
  process opened twice numbers its entries from 0 again, and a SKIP to a label of
  the first part can be compiled as a jump ahead;
- the `fwrite` and `fclose` of the database are not checked (`backend.c:1220`), while
  `docs/cli.md:327` gives an exit code for failed output, hence `Cut` in Ndrc's
  properties;
- `docs/cli.md:180` says tokens are emitted most-referenced first, but the order is
  fixed before the texts are encoded again with the reordered table, and a tie
  between equally cheap parses may then fall another way.

## 8. The plan

Written, in this order: ProcCode, Placement, ProcDump with its proofs, MsgTable,
Xmb, ProcRewrite, Ndrc, Conditionals and Sintactic, Tokens, ExprScan, Expr and
ExprGrammar, Huffman and Text2, HashMap, Escapes, DataSections and Database.

Proved, in this order: ProcDump's invariants, `SameHashSameBytes` and what rests on
it, MsgTable, Xmb, Ndrc, ProcRewrite, Sintactic, the symbols, the file.

Next, modules:

1. Sintactic: condacts with two parameters, `#extern` and `#define` with an expression.
2. Include: preparse and its line map.
3. Finish: the prefixes and the JDDB.

Next, theorems:

1. `TextsDecode` of Tokens, with the encoders as recursive functions.
2. `SourceReadsBack` of Database, from `FileReadsBack` and an invariant of the parser: what
   the lists hold is what the tokens read so far say.
3. The value of a canonical code's lengths in Huffman, once its trees are functions.

## 9. How to run it

    tlc -workers 2 -config ProcDump.cfg MC_ProcDump.tla     # any run of section 4
    for m in Basics ProcDump_proofs MsgTable_proofs Xmb_proofs ProcRewrite_proofs \
             Ndrc_proofs Sintactic_proofs Database_proofs; do tlapm $m.tla; done   # the proofs

A module `MC_X` defines the instance of `X`, `X.cfg` runs it, and a cfg with a
longer name runs a variant.
