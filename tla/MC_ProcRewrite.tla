--------------------------- MODULE MC_ProcRewrite ---------------------------
(* A few target rows, and entries that mix every arm of the pass.          *)
EXTENDS ProcRewrite

C(op, params, src) ==
  [Opcode |-> op, Params |-> params, Indirection1 |-> FALSE,
   DurationAdjusted |-> FALSE, src |-> src]
Entry(list) == [i \in DOMAIN list |-> C(list[i][1], list[i][2], i)]
Indirect(entry) == [i \in DOMAIN entry |-> [entry[i] EXCEPT !.Indirection1 = TRUE]]

Note(cmd, num) == [cmd |-> cmd, num |-> num, len |-> 0, given |-> FALSE, dots |-> 0]
Timed(cmd, num, len, dots) ==
  [cmd |-> cmd, num |-> num, len |-> len, given |-> TRUE, dots |-> dots]
String_(notes, elements) == [notes |-> notes, elements |-> elements]

Strings ==
  << String_(<<Note("note", 0), Timed("note", -1, 1, 0), Timed("note", 9, 2, 1)>>, <<>>),
     String_(<<Note("T", 60), Note("L", 8), Note("<", 0), Note("R", 0), Note("N", 96),
               Note("O", 8), Note(">", 0), Note("note", 11), Note("V", 9)>>, <<>>),
     String_(<<Timed("R", 0, 64, 0), Timed("R", 0, 2, 2)>>, <<>>),
     String_(<<Note("O", 3), Note("&", 0)>>, <<>>),
     String_(<<Note("note", 3), Timed("note", 5, 0, 0)>>, <<>>),
     String_(<<>>, <<100, 1, 2, 3>>),
     String_(<<>>, <<254, 7, 8>>),
     String_(<<>>, <<254, 7, 8, 9>>),
     String_(<<>>, <<100>>),
     String_(<<>>, <<100, -1>>) >>

Entries ==
  { Entry(<<<<XPLAY, <<0>>>>, <<PAUSE, <<50>>>>, <<BEEP, <<255, 60>>>>>>),
    Entry(<<<<BEEP, <<50, 47>>>>, <<BEEP, <<3, 48>>>>, <<XPLAY, <<1>>>>, <<22, <<>>>>>>),
    Entry(<<<<GETKEY, <<>>>>, <<BEEP, <<9, 70>>>>, <<XPLAY, <<0>>>>>>),
    Entry(<<<<XPLAY, <<3>>>>, <<XDATA, <<5>>>>, <<XPLAY, <<99>>>>>>),
    Entry(<<<<XDATA, <<6>>>>, <<XMES, <<0>>>>, <<XMES, <<1>>>>, <<XMES, <<9>>>>>>),
    Entry(<<<<PAUSE, <<1>>>>, <<XPLAY, <<4>>>>>>),
    Entry(<<<<XDATA, <<7>>>>>>), Entry(<<<<XDATA, <<8>>>>>>), Entry(<<<<XDATA, <<9>>>>>>),
    Entry(<<<<XSPLITSCR, <<1>>>>, <<XUNDONE, <<>>>>>>),
    Indirect(Entry(<<<<PROCESS, <<200>>>>, <<PAUSE, <<100>>>>>>)),
    Entry(<<<<PROCESS, <<1>>>>, <<22, <<>>>>>>), Entry(<<<<PROCESS, <<2>>>>>>),
    Entry(<<<<XMES, <<2>>>>>>), Entry(<<<<XSPEED, <<1>>>>>>) }

Row(base, pitch, swap, splits, msx2) ==
  [base |-> base, pitch |-> pitch, swap |-> swap, splits |-> splits, msx2 |-> msx2]
Rows == { Row(100, -24, TRUE, FALSE, FALSE),    \* ZX +3
          Row(120, -12, FALSE, TRUE, FALSE),    \* C64
          Row(230, 0, FALSE, FALSE, TRUE) }     \* MSX2
CP4 == Row(80, 0, FALSE, FALSE, FALSE)

Job(list, v3, row) ==
  [entries |-> list, processes |-> 2, strings |-> Strings,
   offsets |-> <<0, 4660, 65536>>, v3 |-> v3, target |-> row]

MCJobs == {Job(<<x, y>>, v3, row) :
             x \in Entries, y \in {Entry(<<>>), Entry(<<<<BEEP, <<4, 90>>>>>>)},
             v3 \in BOOLEAN, row \in Rows}

(* The shortest rests on the target with the shortest clock tick.          *)
RestJobs == {Job(<<Entry(<<<<XPLAY, <<s>>>>, <<22, <<>>>>>>), x>>, v3, CP4) :
               s \in 0..3, x \in Entries, v3 \in BOOLEAN}
=============================================================================
