-------------------------------- MODULE Ndrc --------------------------------
(***************************************************************************)
(* Runs of the compiler over the files of one directory: the command line  *)
(* (src/src/main.c), the front half up to the JSON, and the back end's     *)
(* driver (backend_run, src/src/backend.c), with the source edited between *)
(* runs and any file operation failing.  Contents are abstract: a file     *)
(* holds what decided its bytes.  0.XMB and its numbered successors are    *)
(* one sequence of segments.                                               *)
(***************************************************************************)
EXTENDS Integers, Sequences

CONSTANTS
  Games,      \* versions of the source: [name, xmessages, repeats]
  Commands,   \* command lines: [mode, target, flags]
  MaxRuns,    \* bound on the runs explored
  Absent,     \* no such file
  Cut         \* a file a failed write left unfinished

Flags == {"-X", "-auto-tokens", "--tok", "-no-object-tokens", "-nxtext",
          "-srcmap", "-np", "--json"}

ASSUME CommandsAssumption ==
  Commands \subseteq [mode : {"join", "to-json", "from-json"},
                      target : {"NEXTDAAD", "HTML", "other"},
                      flags : SUBSET Flags]
ASSUME GamesAssumption ==
  \A g \in Games : {g.xmessages, g.repeats} \subseteq BOOLEAN
ASSUME MaxRunsAssumption == MaxRuns \in Nat

VARIABLES
  source,   \* the .DSF as the author left it
  disk,     \* file -> contents
  run,      \* the compiler's own state
  frozen,   \* history: what the latest --tok run wrote to the DDB, and how
  runs      \* how many runs were started

vars == <<source, disk, run, frozen, runs>>

Files == {"temp", "json", "tok", "xmb", "ddb", "map", "jddb"}
Stages == {"front", "preparsed", "compiled", "back", "tokens", "xmessages",
           "append", "externs", "encode", "texts", "tee", "processes", "sizes",
           "write", "map", "jddb", "exited"}

On(flag) == flag \in run.cmd.flags
(* --tok and -nxtext imply -auto-tokens.                                   *)
AutoTokens == \E f \in {"-auto-tokens", "--tok", "-nxtext"} : On(f)

(* A token set: where the table came from, "encoder": "optimal", and       *)
(* "objects": false.                                                       *)
Builtin == [table |-> <<"builtin">>, optimal |-> FALSE, objectsOff |-> FALSE]
Selected(game, objects) ==
  [table |-> <<"selected", game, objects>>, optimal |-> TRUE,
   objectsOff |-> ~objects]

(* Segments of 0.XMB.                                                      *)
Xmessages(game, coded) ==
  [of |-> game, part |-> "xmessages", coded |-> coded, ts |-> Builtin]
Texts(game, ts) == [of |-> game, part |-> "texts", coded |-> FALSE, ts |-> ts]

(* What a token set and a segment can be; a missing file is none of the    *)
(* contents a file can have.                                               *)
TokenSets ==
  [table : {<<"builtin">>} \cup {<<"selected", g, o>> : g \in Games, o \in BOOLEAN},
   optimal : BOOLEAN, objectsOff : BOOLEAN]
Segments ==
  {Xmessages(g, c) : g \in Games, c \in BOOLEAN}
    \cup {Texts(g, ts) : g \in Games, ts \in TokenSets} \cup {Cut}

ASSUME AbsentAssumption ==
  /\ Absent # Cut
  /\ Absent \notin TokenSets
  /\ Absent \notin Seq(Segments)

(* What decides the bytes of the database.  xmessages is the segment its   *)
(* XMESSAGE offsets address (Absent: it has none), dumpAt the segment its  *)
(* lookup words address.                                                   *)
Database ==
  [game |-> run.game, ts |-> run.ts, format2 |-> run.format2,
   xmessages |-> run.xmessages, dumpAt |-> run.dumpAt]

Idle == run.stage = "exited"
Size(file) == IF file = Absent THEN 0 ELSE Len(file)
Put(file, contents) == disk' = [disk EXCEPT ![file] = contents]
Goto(stage) == run' = [run EXCEPT !.stage = stage]
Exit(code) == run' = [run EXCEPT !.stage = "exited", !.exit = code]

Init ==
  /\ source \in Games
  /\ disk = [f \in Files |-> Absent]
  /\ run = [stage |-> "exited", exit |-> 0, cmd |-> Absent, game |-> Absent,
            ts |-> Builtin, format2 |-> FALSE, xmessages |-> Absent,
            dumpAt |-> 0, before |-> Absent]
  /\ frozen = Absent
  /\ runs = 0

EditSource ==
  /\ Idle
  /\ \E g \in Games \ {source} : source' = g
  /\ UNCHANGED <<disk, run, frozen, runs>>

Start ==
  /\ Idle
  /\ runs < MaxRuns
  /\ runs' = runs + 1
  /\ \E cmd \in Commands :
       run' = [stage |-> IF cmd.mode = "from-json" THEN "back" ELSE "front",
               exit |-> 0, cmd |-> cmd, game |-> Absent, ts |-> Builtin,
               format2 |-> FALSE, xmessages |-> Absent, dumpAt |-> 0,
               before |-> disk["ddb"]]
  /\ UNCHANGED <<source, disk, frozen>>

-----------------------------------------------------------------------------
(* The front half: main.c's front_compile.                                 *)

(* A bad command line, a missing input, no /END: nothing was written.      *)
RefuseFront ==
  /\ run.stage = "front"
  /\ Exit(2)
  /\ UNCHANGED <<source, disk, frozen, runs>>

(* preparse: the includes folded into <input>.___; a missing or nested     *)
(* include leaves the part written so far.  Its writes are not looked at.  *)
Preparse ==
  /\ run.stage = "front"
  /\ \/ (Put("temp", source) \/ Put("temp", Cut)) /\ Goto("preparsed")
     \/ Put("temp", Cut) /\ Exit(2)
     \/ UNCHANGED disk /\ Exit(2)
  /\ UNCHANGED <<source, frozen, runs>>

(* Lexer, parser, forward labels, JSON rendering; an error exits with its  *)
(* class and leaves the temp file.  A source cut short has no /END.        *)
Compile ==
  /\ run.stage = "preparsed"
  /\ \/ /\ disk["temp"] # Cut
        /\ run' = [run EXCEPT !.stage = "compiled", !.game = disk["temp"]]
     \/ Exit(1)
     \/ Exit(2)
  /\ UNCHANGED <<source, disk, frozen, runs>>

(* The JSON file (asked for or the tee), then the temp file is deleted.    *)
(* Of the write only its fclose is looked at: it may be short.             *)
FinishFront ==
  /\ run.stage = "compiled"
  /\ LET written == run.cmd.mode = "to-json" \/ On("--json")
     IN  \/ /\ \E json \in IF written THEN {run.game, Cut} ELSE {disk["json"]} :
                 disk' = [disk EXCEPT !["temp"] = Absent, !["json"] = json]
            /\ IF run.cmd.mode = "to-json" THEN Exit(0) ELSE Goto("back")
         \/ /\ written
            /\ disk' \in {disk, [disk EXCEPT !["json"] = Cut]}
            /\ Exit(2)
  /\ UNCHANGED <<source, frozen, runs>>

-----------------------------------------------------------------------------
(* The back half: backend_run.                                             *)

FromDisk == run.cmd.mode = "from-json"

(* -nxtext let through with -X.                                            *)
MutantRefused ==
  \/ FromDisk /\ (On("-srcmap") \/ disk["json"] \in {Absent, Cut})
  \/ On("-nxtext") /\ (run.cmd.target # "NEXTDAAD" \/ On("--tok"))

(* The refusals a command line of Commands can meet.                       *)
Refused ==
  \/ FromDisk /\ (On("-srcmap") \/ disk["json"] \in {Absent, Cut})
  \/ On("-nxtext") /\ (run.cmd.target # "NEXTDAAD" \/ On("-X") \/ On("--tok"))

(* Target, language, JSON, options, model: any of them may refuse.         *)
RefuseBack ==
  /\ run.stage = "back"
  /\ Exit(2)
  /\ UNCHANGED <<source, disk, frozen, runs>>

AcceptBack ==
  /\ run.stage = "back"
  /\ ~Refused
  /\ run' = [run EXCEPT !.stage = "tokens",
                        !.game = IF FromDisk THEN disk["json"] ELSE @]
  /\ UNCHANGED <<source, disk, frozen, runs>>

(* -auto-tokens wins over a table beside the source.                       *)
Tokens ==
  IF AutoTokens THEN Selected(run.game, ~On("-no-object-tokens"))
  ELSE IF disk["tok"] # Absent THEN disk["tok"]
  ELSE Builtin

LoadTokens ==
  /\ run.stage = "tokens"
  /\ IF \/ Tokens = Cut
        \/ On("-no-object-tokens") /\ ~Tokens.optimal
     THEN Exit(2)
     ELSE run' = [run EXCEPT !.stage = "xmessages",
                    !.ts = [Tokens EXCEPT
                              !.objectsOff = @ \/ On("-no-object-tokens")]]
  /\ UNCHANGED <<source, disk, frozen, runs>>

(* The XMB of XMESSAGEs from its start: emit_xmessages, which looks at no  *)
(* write, or emit_xmessages2, which looks at every one.                    *)
WriteXmb(coded, next, r) ==
  \/ /\ \E xmb \in {Xmessages(run.game, coded)} \cup IF coded THEN {} ELSE {Cut} :
           Put("xmb", <<xmb>>)
     /\ run' = [r EXCEPT !.stage = next,
                         !.xmessages = Xmessages(run.game, coded)]
  \/ disk' \in {disk, [disk EXCEPT !["xmb"] = <<Cut>>]} /\ Exit(2)

WriteXmessages ==
  /\ run.stage = "xmessages"
  /\ IF run.game.xmessages /\ ~On("-nxtext")
     THEN WriteXmb(FALSE, "append", run)
     ELSE Goto("append") /\ UNCHANGED disk
  /\ UNCHANGED <<source, frozen, runs>>

(* 0.XMB emptied instead of appended to.                                   *)
MutantOpenAppend ==
  /\ run.stage = "append"
  /\ IF On("-X")
     THEN \/ /\ run' = [run EXCEPT !.stage = "externs", !.dumpAt = 1]
             /\ Put("xmb", <<>>)
          \/ Exit(2) /\ UNCHANGED disk
     ELSE Goto("externs") /\ UNCHANGED disk
  /\ UNCHANGED <<source, frozen, runs>>

(* -X appends to whatever 0.XMB holds, from its size on.                   *)
OpenAppend ==
  /\ run.stage = "append"
  /\ IF On("-X")
     THEN \/ /\ run' = [run EXCEPT !.stage = "externs",
                                   !.dumpAt = Size(disk["xmb"]) + 1]
             /\ Put("xmb", IF disk["xmb"] = Absent THEN <<>> ELSE disk["xmb"])
          \/ Exit(2) /\ UNCHANGED disk
     ELSE Goto("externs") /\ UNCHANGED disk
  /\ UNCHANGED <<source, frozen, runs>>

(* The externs, then the first layout_pad: under -np that is the end, with *)
(* what was emitted so far as the database and success as the status.      *)
LoadExterns ==
  /\ run.stage = "externs"
  /\ \/ Exit(2) /\ UNCHANGED disk
     \/ ~On("-np") /\ Goto("encode") /\ UNCHANGED disk
     \/ /\ On("-np")
        /\ disk' \in {disk, [disk EXCEPT !["ddb"] = Cut]}
        /\ Exit(0)
  /\ UNCHANGED <<source, frozen, runs>>

(* Optimal encoding with its self-check, and the choice of format 2, which *)
(* writes the XMB either way.                                              *)
EncodeTexts ==
  /\ run.stage = "encode"
  /\ LET chosen == [run EXCEPT !.format2 = On("-nxtext") /\ run.game.repeats]
     IN  \/ Exit(2) /\ UNCHANGED disk
         \/ IF On("-nxtext") /\ run.game.xmessages
            THEN WriteXmb(chosen.format2, "texts", chosen)
            ELSE run' = [chosen EXCEPT !.stage = "texts"] /\ UNCHANGED disk
  /\ UNCHANGED <<source, frozen, runs>>

(* Every table up to the locations; the self-check of the emitted texts    *)
(* may still refuse, what -X appended stays.  No write to 0.XMB is checked.*)
EmitTexts ==
  /\ run.stage = "texts"
  /\ IF On("-X")
     THEN \E xmb \in {Texts(run.game, run.ts), Cut} :
            disk' = [disk EXCEPT !["xmb"] = Append(@, xmb)]
     ELSE UNCHANGED disk
  /\ \/ Goto("tee")
     \/ run.ts.optimal /\ Exit(2)
  /\ UNCHANGED <<source, frozen, runs>>

(* A marker left out of the table's file.                                  *)
MutantTeeTokens ==
  /\ run.stage = "tee"
  /\ IF run.ts.optimal /\ On("--tok")
     THEN \/ Put("tok", [run.ts EXCEPT !.objectsOff = FALSE]) /\ Goto("processes")
          \/ disk' \in {disk, [disk EXCEPT !["tok"] = Cut]} /\ Exit(2)
     ELSE Goto("processes") /\ UNCHANGED disk
  /\ UNCHANGED <<source, frozen, runs>>

(* tokens_write_tok looks at its fclose only.                              *)
TeeTokens ==
  /\ run.stage = "tee"
  /\ IF run.ts.optimal /\ On("--tok")
     THEN \/ (Put("tok", run.ts) \/ Put("tok", Cut)) /\ Goto("processes")
          \/ disk' \in {disk, [disk EXCEPT !["tok"] = Cut]} /\ Exit(2)
     ELSE Goto("processes") /\ UNCHANGED disk
  /\ UNCHANGED <<source, frozen, runs>>

(* Connections, processes and the header; a process error stops the run.   *)
EmitProcesses ==
  /\ run.stage = "processes"
  /\ Goto("sizes") \/ Exit(2)
  /\ UNCHANGED <<source, disk, frozen, runs>>

(* The database written before its checks.                                 *)
MutantCheckSizes ==
  /\ run.stage = "sizes"
  /\ Put("ddb", Cut)
  /\ Goto("write") \/ Exit(2)
  /\ UNCHANGED <<source, frozen, runs>>

(* Format 2's region and XMB checks and the 64K boundary.                  *)
CheckSizes ==
  /\ run.stage = "sizes"
  /\ Goto("write") \/ Exit(2)
  /\ UNCHANGED <<source, disk, frozen, runs>>

(* The one write of the database.  Its result is not looked at: Cut with   *)
(* the run going on is a short write.                                      *)
WriteDatabase ==
  /\ run.stage = "write"
  /\ \/ /\ disk' \in {[disk EXCEPT !["ddb"] = Database],
                      [disk EXCEPT !["ddb"] = Cut]}
        /\ Goto("map")
        /\ frozen' = IF On("--tok") /\ run.ts.optimal
                     THEN [cmd |-> run.cmd, ddb |-> Database, tok |-> disk["tok"]]
                     ELSE frozen
     \/ Exit(2) /\ UNCHANGED <<disk, frozen>>
  /\ UNCHANGED <<source, runs>>

(* A map that could not be written only noted.                             *)
MutantWriteMap ==
  /\ run.stage = "map"
  /\ IF On("-srcmap")
     THEN disk' \in {disk, [disk EXCEPT !["map"] = Database]}
     ELSE UNCHANGED disk
  /\ Goto("jddb")
  /\ UNCHANGED <<source, frozen, runs>>

(* srcmap_write removes what it could not finish.                          *)
WriteMap ==
  /\ run.stage = "map"
  /\ IF On("-srcmap")
     THEN \/ Put("map", Database) /\ Goto("jddb")
          \/ disk' \in {disk, [disk EXCEPT !["map"] = Absent]} /\ Exit(2)
     ELSE Goto("jddb") /\ UNCHANGED disk
  /\ UNCHANGED <<source, frozen, runs>>

(* HTML: the bytes in memory, and 0.XMB where there is one; of its write   *)
(* only the opening is looked at.                                          *)
WriteJddb ==
  /\ run.stage = "jddb"
  /\ IF run.cmd.target = "HTML"
     THEN \/ /\ Put("jddb", [ddb |-> Database, xmb |-> disk["xmb"]]) \/ Put("jddb", Cut)
             /\ Exit(0)
          \/ Exit(2) /\ UNCHANGED disk
     ELSE Exit(0) /\ UNCHANGED disk
  /\ UNCHANGED <<source, frozen, runs>>

Stopped == Idle /\ runs = MaxRuns /\ UNCHANGED vars

Next ==
  \/ EditSource \/ Start
  \/ RefuseFront \/ Preparse \/ Compile \/ FinishFront
  \/ RefuseBack \/ AcceptBack \/ LoadTokens \/ WriteXmessages \/ OpenAppend
  \/ LoadExterns \/ EncodeTexts \/ EmitTexts \/ TeeTokens \/ EmitProcesses
  \/ CheckSizes \/ WriteDatabase \/ WriteMap \/ WriteJddb
  \/ Stopped

Spec == Init /\ [][Next]_vars

-----------------------------------------------------------------------------
(* Properties.                                                             *)

(* Whole runs of the back end, and their status.                           *)
Compiled == Idle /\ run.exit = 0 /\ run.cmd # Absent
              /\ run.cmd.mode # "to-json" /\ ~On("-np")

(* Where a database's XMB parts are sought, they are, or the write nobody  *)
(* looked at was short: never another run's.                               *)
Finds(db, xmb) ==
  /\ db.xmessages # Absent => Size(xmb) >= 1 /\ xmb[1] \in {db.xmessages, Cut}
  /\ db.dumpAt # 0 =>
       /\ Size(xmb) >= db.dumpAt
       /\ xmb[db.dumpAt] \in {Texts(db.game, db.ts), Cut}

(* After success the XMB on disk serves the new database, whatever earlier *)
(* runs, complete or failed, left in it; so does the copy in the JDDB.     *)
DatabaseFindsXmb ==
  Compiled =>
    /\ Finds(Database, disk["xmb"])
    /\ run.cmd.target = "HTML" /\ disk["jddb"] # Cut =>
         Finds(disk["jddb"].ddb, disk["jddb"].xmb)

(* Success means that every file the command asks for is of this run and   *)
(* of this source; only the writes nobody checks may be short.  A leftover *)
(* of an earlier run is never passed off as the result.                    *)
SuccessIsThisRun ==
  Compiled =>
    /\ disk["ddb"] \in {Database, Cut}
    /\ run.cmd.mode = "join" => disk["temp"] = Absent
    /\ On("-srcmap") => disk["map"] = Database
    /\ On("--tok") => disk["tok"] \in {run.ts, Cut}
    /\ On("--json") /\ run.cmd.mode = "join" => disk["json"] \in {run.game, Cut}
    /\ run.cmd.target = "HTML" =>
         disk["jddb"] = Cut \/ disk["jddb"].ddb = Database

(* A run that fails leaves the database as it was or, when only the map or *)
(* the JDDB failed, complete: never one that a check refused.              *)
FailureKeepsDatabase ==
  Idle /\ run.exit # 0 =>
    \/ disk["ddb"] = run.before
    \/ disk["ddb"] \in {Database, Cut} /\ (On("-srcmap") \/ run.cmd.target = "HTML")

(* The freeze workflow: after a --tok run, the same command without the    *)
(* flags codes the same texts with the same table.                         *)
FreezeFlags == {"-auto-tokens", "--tok", "-no-object-tokens"}
Frozen ==
  /\ Compiled
  /\ frozen # Absent
  /\ run.game = frozen.ddb.game
  /\ disk["tok"] = frozen.tok
  /\ run.cmd.target = frozen.cmd.target
  /\ run.cmd.flags \cap FreezeFlags = {}
  /\ "-X" \in run.cmd.flags <=> "-X" \in frozen.cmd.flags
  /\ ~On("-nxtext")

FrozenTextsSame ==
  Frozen => /\ Database.ts = frozen.ddb.ts
            /\ Database.format2 = frozen.ddb.format2
            /\ Database.xmessages = frozen.ddb.xmessages
=============================================================================
