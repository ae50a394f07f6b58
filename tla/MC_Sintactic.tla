---------------------------- MODULE MC_Sintactic ----------------------------
(* Four families of sources: labels and SKIPs, processes opened twice,     *)
(* inline texts in nearly full tables, and conditional blocks.             *)
EXTENDS Sintactic

T(t) == [t |-> t]
Number(n) == [t |-> "number", value |-> n]
Word(verb, noun) == [t |-> "word", verb |-> verb, noun |-> noun]
Label(l) == [t |-> "label", name |-> l]
Text(text) == [t |-> "text", text |-> text]
Condact(op) == [t |-> "condact", op |-> op, params |-> 1]
Done == [t |-> "condact", op |-> 22, params |-> 0]
Bytes(b) == [t |-> "bytes", bytes |-> b]
UserPointer(n) == [t |-> "userptr", value |-> n]
Blk(name, negated) == [t |-> "if", name |-> name, negated |-> negated]
Defines(name) == [t |-> "define", name |-> name]

None == [mtx |-> <<>>, stx |-> <<>>, ltx |-> <<>>, xtx |-> <<>>, other |-> <<>>]
Job(prefix, alphabet, free, texts) ==
  [prefix |-> prefix, alphabet |-> alphabet, free |-> free, symbols |-> {"A"},
   msgs |-> texts, normal |-> FALSE, extended |-> FALSE, check |-> TRUE]

Header == <<T(">"), T("_"), T("_")>>

Labels ==
  Job(<<Number(0)>> \o Header,
      {T(">"), T("_"), Condact(SKIP), Label("x"), Label("y"), Done}, 12, None)

(* One entry nearer and one farther than a SKIP can lead, either way.      *)
Far ==
  Job(<<Number(0), Label("x")>> \o Header \o <<Condact(SKIP), Label("y")>>
        \o Header \o <<Done>>,
      {T(">"), T("_"), Condact(SKIP), Label("x"), Label("y"), Done}, 10, None)

(* The last places of the label table; only the first four labels have a   *)
(* number that fits a parameter.                                           *)
Crowded ==
  Job(<<Number(0), Label("a"), Label("b"), Label("c"), Label("d")>>,
      {T(">"), T("_"), Condact(SKIP), Label("x"), Label("y"), Label("d")}, 9, None)

(* Synonyms, raw bytes that look like a PENDINGSKIP, numbers.              *)
Again ==
  Job(<<Number(0)>> \o Header,
      {T(">"), T("_"), T("PRO"), Number(0), Condact(SKIP), Label("x"), Bytes(<<PENDINGSKIP>>)},
      11, None)
Entries ==
  Job(<<>>,
      {T(">"), Word(TRUE, FALSE), Word(FALSE, TRUE), T("PRO"), Number(1), Number(-1),
       Number(4), Condact(SKIP), T("@"), Bytes(<<>>), Done,
       UserPointer(9), UserPointer(10)},
      11, None)

(* The sections before have left one place in each table, or none in that  *)
(* of the messages; a text of the alphabet may be there already.           *)
NearlyFull == [None EXCEPT !.mtx = <<<<"a">>>>, !.stx = <<<<"a", "\n">>>>]
Full == [NearlyFull EXCEPT !.mtx = <<<<"c">>, <<"d">>>>]
Inlines ==
  LET texts == Job(<<Number(0)>> \o Header,
                   {Condact(op) : op \in TakesText \cup {DESC}}
                     \cup {Text(<<"a">>), Text(<<"b">>), Number(1), T("classic")},
                   6, NearlyFull)
  IN  {[texts EXCEPT !.normal = n, !.extended = x, !.check = ~x, !.msgs = m] :
         n, x \in BOOLEAN, m \in {NearlyFull, Full}}

Conditional ==
  Job(<<Number(0)>>,
      {Blk("A", FALSE), Blk("B", FALSE), Blk("B", TRUE), T("if"), T("else"), T("endif"),
       Defines("B"), T("_"), T(">")}, 14, None)

MCJobs == {Labels, Far, Crowded, Again, Entries, Conditional} \cup Inlines
=============================================================================
