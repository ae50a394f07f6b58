----------------------------- MODULE MC_ProcDump -----------------------------
(* Small jobs for ProcDump: two processes, three entries.                  *)
EXTENDS ProcDump, TLC

Plain(op, ps) == [Opcode |-> op, Params |-> ps, Indirection1 |-> FALSE,
                  Indirection2 |-> FALSE, IsDB |-> FALSE, src |-> 0]
Via1(k) == [k EXCEPT !.Indirection1 = TRUE]
Via2(k) == [k EXCEPT !.Indirection2 = TRUE]
Raw(byte) == [Plain(byte, <<>>) EXCEPT !.IsDB = TRUE]

OkCond == Plain(23, <<>>)
Mes == Plain(77, <<1>>)
Let == Plain(51, <<2, 5>>)
Skip == Plain(116, <<1>>)
Debug == Plain(FakeDebug, <<>>)
UserPtr == Plain(FakeUserPtr, <<3>>)

(* Two condacts of DAAD v2 with one opcode: EXTERN, and what pass zero     *)
(* makes of an XMES at an offset of 256 * high + low.                      *)
Extern == Plain(61, <<10, 3>>)
Xmes(low, high) == Plain(61, <<low, 3, high>>)

Settings(debug, classic, padding, forced, big, base) ==
  [debug |-> debug, classic |-> classic, padding |-> padding,
   forced |-> forced, bigEndian |-> big, base |-> base]

JobOf(b1, b2, b3, s) ==
  LET Row(v, b) == [Verb |-> v, Noun |-> 255, condacts |-> b]
  IN  s @@ [procs |-> <<<<Row(1, b1), Row(2, b2)>>, <<Row(3, b3)>>>>]

(* Tails of one another, bodies apart only in indirection, fakes, dead     *)
(* condacts after a terminator, nothing at all.                            *)
Bodies ==
  { <<>>, <<OkCond>>, <<Mes>>, <<Mes, OkCond>>, <<Let, OkCond>>,
    <<Via2(Let), OkCond>>, <<Via1(Let), OkCond>>, <<Mes, Let, OkCond>>,
    <<Mes, OkCond, Mes>>, <<UserPtr, Mes, OkCond>>, <<Debug, OkCond>>,
    <<UserPtr>>, <<Via2(Let), Skip>>, <<Mes, Skip, UserPtr>>,
    <<Xmes(10, 5)>>, <<Extern, OkCond>> }

Targets ==
  { Settings(FALSE, FALSE, FALSE, FALSE, FALSE, 1),   \* ZX
    Settings(FALSE, FALSE, TRUE, FALSE, TRUE, 1),     \* ST
    Settings(TRUE, FALSE, FALSE, TRUE, FALSE, 2),     \* NEXTDAAD, debug, -p
    Settings(FALSE, TRUE, TRUE, FALSE, FALSE, 1) }    \* PC, classic

LastBodies == { <<>>, <<Mes, OkCond>>, <<UserPtr, Mes, OkCond>>,
                <<Xmes(10, 5)>> }

MCJobs == {JobOf(x[1], x[2], x[3], x[4]) :
             x \in Bodies \X Bodies \X LastBodies \X Targets}

(* The XMES at 0x160A beside EXTERN 10 3 and DONE.                         *)
XmesJobs == {JobOf(<<Extern, Plain(22, <<>>)>>, <<Xmes(10, 22)>>, <<>>, s) :
               s \in Targets}

(* Raw bytes: `#db 10 #db 22` and CHANCE 22.                               *)
RawJobs == {JobOf(<<Raw(10), Raw(22)>>, <<Plain(10, <<22>>)>>, <<>>, s) :
              s \in Targets}
==============================================================================
