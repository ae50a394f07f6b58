---------------------------- MODULE Ndrc_proofs ----------------------------
(***************************************************************************)
(* What a run of the compiler promises about the files it leaves, for any  *)
(* games, command lines, number of runs and failures: the four invariants  *)
(* the runs of Ndrc check.  Each follows from an inductive invariant that  *)
(* says, stage by stage, what the run has put on the disk so far.          *)
(***************************************************************************)
EXTENDS Ndrc, SequenceTheorems, TLAPS

-----------------------------------------------------------------------------
(* Types.                                                                  *)

XmbFiles == Seq(Segments) \cup {Absent}
Headers ==
  {Absent} \cup {Xmessages(g, c) : g \in Games, c \in BOOLEAN}
Databases ==
  [game : Games, ts : TokenSets, format2 : BOOLEAN, xmessages : Headers,
   dumpAt : Nat]
Contents ==
  [temp |-> Games \cup {Absent, Cut},
   json |-> Games \cup {Absent, Cut},
   tok |-> TokenSets \cup {Absent, Cut},
   xmb |-> XmbFiles,
   ddb |-> Databases \cup {Absent, Cut},
   map |-> Databases \cup {Absent},
   jddb |-> [ddb : Databases, xmb : XmbFiles] \cup {Absent, Cut}]
Runs ==
  [stage : Stages, exit : {0, 1, 2}, cmd : Commands \cup {Absent},
   game : Games \cup {Absent}, ts : TokenSets, format2 : BOOLEAN,
   xmessages : Headers, dumpAt : Nat, before : Databases \cup {Absent, Cut}]

DiskOK ==
  /\ disk = [f \in Files |-> disk[f]]
  /\ \A f \in Files : disk[f] \in Contents[f]

(* Every variable is what the source keeps there: a file holds contents of *)
(* its own kind, is missing or was cut short.                              *)
TypeOK ==
  /\ source \in Games
  /\ DiskOK
  /\ run \in Runs
  /\ runs \in Nat

-----------------------------------------------------------------------------
(* The stages behind a point of the run, in the order backend_run takes    *)
(* them, and a run that has passed the point, finished ones included.      *)
PastMap == {"jddb"}
PastWrite == {"map"} \cup PastMap
PastTee == {"processes", "sizes", "write"} \cup PastWrite
PastTexts == {"tee"} \cup PastTee
PastEncode == {"texts"} \cup PastTexts
PastAppend == {"externs", "encode"} \cup PastEncode
PastXmessages == {"append"} \cup PastAppend
PastTokens == {"xmessages"} \cup PastXmessages
PastBack == {"tokens"} \cup PastTokens
PastFront == {"back"} \cup PastBack
Passed(stages) == run.stage \in stages \/ Compiled

(* The command of a run is one of Commands; what the front half and the    *)
(* refusals of backend_run rule out stays ruled out.                       *)
CommandInv ==
  /\ run.stage # "exited" \/ run.exit # 0 => run.cmd \in Commands
  /\ run.stage \in {"front", "preparsed", "compiled"} => ~FromDisk
  /\ Passed(PastFront) => run.cmd.mode # "to-json"
  /\ run.stage \in {"compiled", "back"} /\ ~FromDisk => run.game \in Games
  /\ Passed(PastBack) =>
       /\ run.game \in Games
       /\ On("-nxtext") => ~On("-X") /\ ~On("--tok")
  /\ run.stage = "preparsed" => disk["temp"] \in Games \cup {Cut}

(* The token set of the run: selected where an option asks for it, else    *)
(* the table beside the source as it still is, else the built-in one.      *)
TokenInv ==
  Passed(PastTokens) =>
    /\ On("--tok") => run.ts.optimal
    /\ ~AutoTokens /\ ~On("-no-object-tokens") => Tokens # Cut /\ run.ts = Tokens

(* The segments the database addresses, as far as the run has come: the    *)
(* XMESSAGEs first, the texts of -X where the file ended.                  *)
Header(game, format2) ==
  IF game.xmessages THEN Xmessages(game, format2) ELSE Absent
AddressInv ==
  /\ run.stage \in {"front", "preparsed", "compiled", "back", "tokens", "xmessages"} =>
       run.xmessages = Absent /\ run.format2 = FALSE
  /\ Passed({"append"} \cup PastAppend) /\ ~On("-nxtext") =>
       run.format2 = FALSE /\ run.xmessages = Header(run.game, FALSE)
  /\ run.stage \notin PastAppend \cup {"exited"} => run.dumpAt = 0
  /\ Passed(PastAppend) => (On("-X") <=> run.dumpAt # 0)

(* 0.XMB holds them there, as far as they are written.                     *)
XmbInv ==
  /\ Passed(PastXmessages) /\ run.xmessages # Absent =>
       Size(disk["xmb"]) >= 1 /\ disk["xmb"][1] \in {run.xmessages, Cut}
  /\ run.stage \in {"externs", "encode", "texts"} /\ run.dumpAt # 0 =>
       disk["xmb"] # Absent /\ Len(disk["xmb"]) = run.dumpAt - 1
  /\ Passed(PastTexts) /\ run.dumpAt # 0 =>
       /\ Size(disk["xmb"]) >= run.dumpAt
       /\ disk["xmb"][run.dumpAt] \in {Texts(run.game, run.ts), Cut}

(* Each further file is of this run from the stage on that wrote it.       *)
FilesInv ==
  /\ Passed(PastFront) /\ run.cmd.mode = "join" =>
       /\ disk["temp"] = Absent
       /\ On("--json") => disk["json"] \in {run.game, Cut}
  /\ Passed(PastTee) /\ On("--tok") => disk["tok"] \in {run.ts, Cut}
  /\ Passed(PastMap) /\ On("-srcmap") => disk["map"] = Database
  /\ Compiled /\ run.cmd.target = "HTML" =>
       \/ disk["jddb"] = Cut
       \/ disk["jddb"] = [ddb |-> Database, xmb |-> disk["xmb"]]

(* The database is untouched until its one write, this run's from there.   *)
DatabaseInv ==
  /\ run.stage \notin PastWrite \cup {"exited"} => disk["ddb"] = run.before
  /\ Passed(PastWrite) => disk["ddb"] \in {Database, Cut}
  /\ FailureKeepsDatabase

(* What --tok froze is a --tok run's database and its table file.          *)
FrozenInv ==
  \/ frozen = Absent
  \/ /\ frozen.ddb.ts \in TokenSets
     /\ frozen.tok \in {frozen.ddb.ts, Cut}
     /\ frozen.ddb.format2 = FALSE
     /\ frozen.ddb.xmessages = Header(frozen.ddb.game, FALSE)

IInv ==
  TypeOK /\ CommandInv /\ TokenInv /\ AddressInv /\ XmbInv /\ FilesInv
    /\ DatabaseInv /\ FrozenInv

-----------------------------------------------------------------------------
(* Type correctness.                                                       *)

(* What each file can hold, by name.                                       *)
LEMMA ContentsByName ==
  /\ Contents["temp"] = Games \cup {Absent, Cut}
  /\ Contents["json"] = Games \cup {Absent, Cut}
  /\ Contents["tok"] = TokenSets \cup {Absent, Cut}
  /\ Contents["xmb"] = XmbFiles
  /\ Contents["ddb"] = Databases \cup {Absent, Cut}
  /\ Contents["map"] = Databases \cup {Absent}
  /\ Contents["jddb"] = [ddb : Databases, xmb : XmbFiles] \cup {Absent, Cut}
BY DEF Contents

(* A file is written by name, the others stay as they are.                 *)
LEMMA FileWritten ==
  ASSUME DiskOK, NEW f \in Files, NEW c \in Contents[f],
         disk' = [disk EXCEPT ![f] = c]
  PROVE  /\ DiskOK'
         /\ disk'[f] = c
         /\ \A g \in Files \ {f} : disk'[g] = disk[g]
BY DEF DiskOK

(* The run moves on to a stage; nothing else of it changes.                *)
LEMMA RunMoves ==
  ASSUME run \in Runs, NEW s \in Stages, Goto(s)
  PROVE  /\ run' \in Runs
         /\ run'.stage = s
         /\ run'.exit = run.exit /\ run'.cmd = run.cmd /\ run'.game = run.game
         /\ run'.ts = run.ts /\ run'.format2 = run.format2
         /\ run'.xmessages = run.xmessages /\ run'.dumpAt = run.dumpAt
         /\ run'.before = run.before
BY DEF Goto, Runs

(* The run ends with a status; nothing else of it changes.                 *)
LEMMA RunExits ==
  ASSUME run \in Runs, NEW code \in {0, 1, 2}, Exit(code)
  PROVE  /\ run' \in Runs
         /\ run'.stage = "exited" /\ run'.exit = code
         /\ run'.cmd = run.cmd /\ run'.game = run.game
         /\ run'.ts = run.ts /\ run'.format2 = run.format2
         /\ run'.xmessages = run.xmessages /\ run'.dumpAt = run.dumpAt
         /\ run'.before = run.before
BY DEF Exit, Runs, Stages

(* The initial state has the types.                                        *)
LEMMA InitTypes == Init => TypeOK
BY DEF Init, TypeOK, DiskOK, Contents, Files, Runs, Stages, TokenSets, Builtin, XmbFiles, Headers

-----------------------------------------------------------------------------
(* The inductive invariant.                                                *)

(* It holds of an empty directory with no run started.                     *)
LEMMA InitInv == Init => IInv
<1> SUFFICES ASSUME Init PROVE IInv
  OBVIOUS
<1>1. TypeOK
  BY InitTypes
<1>2. run.stage = "exited" /\ run.exit = 0 /\ ~Compiled /\ frozen = Absent
  BY DEF Init, Compiled, Idle
<1>3. QED
  BY <1>1, <1>2 DEF IInv, CommandInv, TokenInv, AddressInv, XmbInv, FilesInv, DatabaseInv,
    FrozenInv, FailureKeepsDatabase, Passed, Idle, PastFront, PastBack, PastTokens,
    PastXmessages, PastAppend, PastEncode, PastTexts, PastTee, PastWrite, PastMap

(* A run that stops with an error before its database is written, or after *)
(* it over the map or the JDDB, whatever it left of the other files.       *)
LEMMA Fails ==
  ASSUME IInv, NEW code \in {1, 2}, Exit(code), DiskOK',
         UNCHANGED <<source, frozen, runs>>,
         disk'["ddb"] = disk["ddb"],
         run.stage # "exited",
         \/ run.stage \notin PastWrite
         \/ On("-srcmap") \/ run.cmd.target = "HTML"
  PROVE  IInv'
<1>1. run \in Runs
  BY DEF IInv, TypeOK
<1>2. /\ run' \in Runs
      /\ run'.stage = "exited" /\ run'.exit = code
      /\ run'.cmd = run.cmd /\ run'.game = run.game
      /\ run'.ts = run.ts /\ run'.format2 = run.format2
      /\ run'.xmessages = run.xmessages /\ run'.dumpAt = run.dumpAt
      /\ run'.before = run.before
  BY <1>1, RunExits
<1>3. TypeOK'
  BY <1>2 DEF IInv, TypeOK
<1>4. ~Compiled' /\ ~Compiled
  BY <1>2 DEF Compiled, Idle
<1>5. CommandInv'
  BY <1>2, <1>4 DEF IInv, CommandInv, Passed, PastFront, PastBack, PastTokens,
    PastXmessages, PastAppend, PastEncode, PastTexts, PastTee, PastWrite, PastMap
<1>6. TokenInv' /\ AddressInv' /\ XmbInv' /\ FilesInv'
  BY <1>2, <1>4 DEF IInv, TokenInv, AddressInv, XmbInv, FilesInv, Passed, PastFront, PastBack,
    PastTokens, PastXmessages, PastAppend, PastEncode, PastTexts, PastTee, PastWrite,
    PastMap
<1>7. DatabaseInv'
  <2>1. \/ disk["ddb"] = run.before
        \/ /\ disk["ddb"] \in {Database, Cut}
           /\ On("-srcmap") \/ run.cmd.target = "HTML"
    <3>1. CASE run.stage \notin PastWrite
      BY <3>1 DEF IInv, DatabaseInv
    <3>2. CASE run.stage \in PastWrite
      BY <3>2 DEF IInv, DatabaseInv, Passed
    <3>3. QED
      BY <3>1, <3>2
  <2>2. Database' = Database /\ (On("-srcmap")' <=> On("-srcmap"))
    BY <1>2 DEF Database, On
  <2>3. FailureKeepsDatabase'
    BY <1>2, <2>1, <2>2 DEF FailureKeepsDatabase
  <2>4. QED
    BY <1>2, <1>4, <2>3 DEF DatabaseInv, Passed, PastWrite, PastMap
<1>8. FrozenInv'
  BY DEF IInv, FrozenInv, Header, Xmessages
<1>9. QED
  BY <1>3, <1>5, <1>6, <1>7, <1>8 DEF IInv

(* A run that moves on with the disk as it is: what the next stage is      *)
(* owed is there already.                                                  *)
LEMMA Moves ==
  ASSUME IInv, NEW next \in Stages, Goto(next),
         UNCHANGED <<source, disk, frozen, runs>>,
         \/ run.stage = "append" /\ next = "externs" /\ ~On("-X")
         \/ run.stage = "externs" /\ next = "encode"
         \/ run.stage = "texts" /\ next = "tee" /\ ~On("-X")
         \/ run.stage = "tee" /\ next = "processes" /\ ~On("--tok")
         \/ run.stage = "processes" /\ next = "sizes"
         \/ run.stage = "sizes" /\ next = "write"
         \/ run.stage = "map" /\ next = "jddb" /\ ~On("-srcmap")
  PROVE  IInv'
<1> USE DEF Passed, Compiled, Idle, PastFront, PastBack, PastTokens, PastXmessages,
  PastAppend, PastEncode, PastTexts, PastTee, PastWrite, PastMap
<1>1. /\ run' \in Runs /\ run'.stage = next
      /\ run'.exit = run.exit /\ run'.cmd = run.cmd /\ run'.game = run.game
      /\ run'.ts = run.ts /\ run'.format2 = run.format2
      /\ run'.xmessages = run.xmessages /\ run'.dumpAt = run.dumpAt
      /\ run'.before = run.before
  BY RunMoves DEF IInv, TypeOK
<1>2. TypeOK'
  BY <1>1 DEF IInv, TypeOK, DiskOK
<1>3. CommandInv'
  BY <1>1 DEF IInv, CommandInv, On, FromDisk
<1>4. TokenInv'
  BY <1>1 DEF IInv, TokenInv, On, AutoTokens, Tokens
<1>5. AddressInv' /\ XmbInv'
  <2>1. Header(run.game, FALSE)' = Header(run.game, FALSE)
    BY <1>1 DEF Header, Xmessages
  <2>2. Texts(run.game, run.ts)' = Texts(run.game, run.ts)
    BY <1>1 DEF Texts
  <2>3. Size(disk["xmb"])' = Size(disk["xmb"])
    BY DEF Size
  <2>4. run.stage # "exited" /\ next # "exited"
    OBVIOUS
  <2>5. AddressInv'
    BY <1>1, <2>1, <2>4 DEF IInv, AddressInv, On
  <2>6. XmbInv'
    BY <1>1, <2>2, <2>3, <2>4 DEF IInv, AddressInv, XmbInv, On
  <2>7. QED
    BY <2>5, <2>6
<1>6. FilesInv'
  BY <1>1 DEF IInv, FilesInv, On, Database
<1>7. DatabaseInv'
  BY <1>1 DEF IInv, DatabaseInv, FailureKeepsDatabase, On, Database
<1>8. FrozenInv'
  BY DEF IInv, FrozenInv, Header, Xmessages
<1>9. QED
  BY <1>2, <1>3, <1>4, <1>5, <1>6, <1>7, <1>8 DEF IInv

(* The stages that look at nothing on the disk and write nothing to it.    *)
LEMMA QuietStep ==
  IInv /\ (RefuseFront \/ RefuseBack \/ EmitProcesses \/ CheckSizes) => IInv'
<1> SUFFICES ASSUME IInv, RefuseFront \/ RefuseBack \/ EmitProcesses \/ CheckSizes
             PROVE  IInv'
  OBVIOUS
<1>1. DiskOK' /\ disk'["ddb"] = disk["ddb"]
  BY DEF IInv, TypeOK, DiskOK, RefuseFront, RefuseBack, EmitProcesses, CheckSizes
<1>2. CASE Exit(2)
  BY <1>1, <1>2, Fails DEF RefuseFront, RefuseBack, EmitProcesses, CheckSizes,
    PastWrite, PastMap
<1>3. CASE EmitProcesses /\ Goto("sizes")
  BY <1>3, Moves DEF EmitProcesses, Stages
<1>4. CASE CheckSizes /\ Goto("write")
  BY <1>4, Moves DEF CheckSizes, Stages
<1>5. QED
  BY <1>2, <1>3, <1>4 DEF RefuseFront, RefuseBack, EmitProcesses, CheckSizes

(* Nothing of a run or of its files changes: the author edits the source   *)
(* between runs, or nothing happens at all.                                *)
LEMMA RestStep ==
  ASSUME IInv, UNCHANGED <<disk, run, frozen, runs>>, source' \in Games
  PROVE  IInv'
<1>1. TypeOK'
  BY DEF IInv, TypeOK, DiskOK
<1>2. /\ Compiled' <=> Compiled
      /\ Database' = Database
      /\ Tokens' = Tokens
  <2>1. Compiled' <=> Compiled
    BY DEF Compiled, Idle, On
  <2>2. Database' = Database
    BY DEF Database
  <2>3. Tokens' = Tokens
    BY Zenon DEF Tokens, AutoTokens, On, Selected, Builtin
  <2>4. QED
    BY <2>1, <2>2, <2>3
<1>3. CommandInv'
  BY <1>2 DEF IInv, CommandInv, Passed, On, FromDisk
<1>4. TokenInv'
  BY <1>2 DEF IInv, TokenInv, Passed, On, AutoTokens
<1>5. AddressInv'
  BY <1>2 DEF IInv, AddressInv, Passed, On, Header, Xmessages
<1>6. XmbInv'
  BY <1>2 DEF IInv, XmbInv, Passed, Size, Texts
<1>7. FilesInv'
  BY <1>2 DEF IInv, FilesInv, Passed, On
<1>8. DatabaseInv'
  BY <1>2 DEF IInv, DatabaseInv, FailureKeepsDatabase, Passed, Idle, On
<1>9. FrozenInv'
  BY DEF IInv, FrozenInv, Header, Xmessages
<1>10. QED
  BY <1>1, <1>3, <1>4, <1>5, <1>6, <1>7, <1>8, <1>9 DEF IInv

(* A run starts from a fresh state over whatever the disk holds.           *)
LEMMA StartStep == IInv /\ Start => IInv'
<1> SUFFICES ASSUME IInv, Start PROVE IInv'
  OBVIOUS
<1> USE DEF Passed, Compiled, Idle, PastFront, PastBack, PastTokens, PastXmessages,
  PastAppend, PastEncode, PastTexts, PastTee, PastWrite, PastMap
<1>1. PICK cmd \in Commands :
        run' = [stage |-> IF cmd.mode = "from-json" THEN "back" ELSE "front",
                exit |-> 0, cmd |-> cmd, game |-> Absent, ts |-> Builtin,
                format2 |-> FALSE, xmessages |-> Absent, dumpAt |-> 0,
                before |-> disk["ddb"]]
  BY DEF Start
<1>2. /\ run'.stage = IF run'.cmd.mode = "from-json" THEN "back" ELSE "front"
      /\ run'.exit = 0 /\ run'.cmd \in Commands /\ run'.dumpAt = 0
      /\ run'.xmessages = Absent /\ run'.format2 = FALSE
      /\ run'.before = disk["ddb"]
  BY <1>1
<1>3. disk["ddb"] \in Databases \cup {Absent, Cut}
  BY ContentsByName DEF IInv, TypeOK, DiskOK, Files
<1>4. run' \in Runs
  BY <1>1, <1>3 DEF Runs, Stages, TokenSets, Builtin, Headers
<1>5. TypeOK'
  BY <1>4 DEF IInv, TypeOK, DiskOK, Start
<1>6. CommandInv'
  BY <1>2 DEF CommandInv, FromDisk
<1>7. TokenInv' /\ FilesInv'
  BY <1>2 DEF TokenInv, FilesInv
<1>8. AddressInv' /\ XmbInv'
  BY <1>2 DEF AddressInv, XmbInv
<1>9. DatabaseInv'
  BY <1>2 DEF DatabaseInv, FailureKeepsDatabase, Start
<1>10. FrozenInv'
  BY DEF IInv, FrozenInv, Header, Xmessages, Start
<1>11. QED
  BY <1>5, <1>6, <1>7, <1>8, <1>9, <1>10 DEF IInv

(* preparse, where the source is folded into the temporary file.           *)
LEMMA PreparseStep == IInv /\ Preparse => IInv'
<1> SUFFICES ASSUME IInv, Preparse PROVE IInv'
  OBVIOUS
<1> USE DEF Passed, Compiled, Idle, PastFront, PastBack, PastTokens, PastXmessages,
  PastAppend, PastEncode, PastTexts, PastTee, PastWrite, PastMap
<1>1. DiskOK' /\ \A f \in Files \ {"temp"} : disk'[f] = disk[f]
  BY FileWritten, ContentsByName DEF IInv, TypeOK, DiskOK, Preparse, Put, Files
<1>2. CASE Exit(2)
  BY <1>1, <1>2, Fails DEF Preparse, Files
<1>3. CASE (Put("temp", source) \/ Put("temp", Cut)) /\ Goto("preparsed")
  <2>1. /\ run' \in Runs /\ run'.stage = "preparsed"
        /\ run'.exit = run.exit /\ run'.cmd = run.cmd /\ run'.game = run.game
        /\ run'.xmessages = run.xmessages /\ run'.format2 = run.format2
        /\ run'.dumpAt = run.dumpAt /\ run'.before = run.before
    BY <1>3, RunMoves DEF IInv, TypeOK, Stages
  <2>2. disk'["temp"] \in Games \cup {Cut}
    BY <1>3, FileWritten, ContentsByName DEF IInv, TypeOK, DiskOK, Put, Files
  <2>3. run.stage = "front" /\ UNCHANGED <<source, frozen, runs>>
    BY DEF Preparse
  <2>4. TypeOK'
    BY <1>1, <2>1, <2>3 DEF IInv, TypeOK
  <2>5. CommandInv'
    BY <2>1, <2>2, <2>3 DEF IInv, CommandInv, FromDisk
  <2>6. TokenInv' /\ FilesInv' /\ XmbInv'
    BY <2>1 DEF TokenInv, FilesInv, XmbInv
  <2>7. AddressInv'
    BY <2>1, <2>3 DEF IInv, AddressInv
  <2>8. DatabaseInv'
    BY <1>1, <2>1, <2>3 DEF IInv, DatabaseInv, FailureKeepsDatabase, Files
  <2>9. FrozenInv'
    BY <2>3 DEF IInv, FrozenInv, Header, Xmessages
  <2>10. QED
    BY <2>4, <2>5, <2>6, <2>7, <2>8, <2>9 DEF IInv
<1>4. QED
  BY <1>2, <1>3 DEF Preparse

(* The compilation of what preparse wrote.                                 *)
LEMMA CompileStep == IInv /\ Compile => IInv'
<1> SUFFICES ASSUME IInv, Compile PROVE IInv'
  OBVIOUS
<1> USE DEF Passed, Compiled, Idle, PastFront, PastBack, PastTokens, PastXmessages,
  PastAppend, PastEncode, PastTexts, PastTee, PastWrite, PastMap
<1>1. /\ run.stage = "preparsed" /\ UNCHANGED <<source, disk, frozen, runs>>
      /\ DiskOK' /\ run \in Runs
  BY DEF Compile, IInv, TypeOK, DiskOK
<1>2. CASE Exit(1) \/ Exit(2)
  BY <1>1, <1>2, Fails
<1>3. CASE /\ disk["temp"] # Cut
           /\ run' = [run EXCEPT !.stage = "compiled", !.game = disk["temp"]]
  <2>1. /\ run'.stage = "compiled" /\ run'.game = disk["temp"]
        /\ run'.exit = run.exit /\ run'.cmd = run.cmd
        /\ run'.xmessages = run.xmessages /\ run'.format2 = run.format2
        /\ run'.dumpAt = run.dumpAt /\ run'.before = run.before
    BY <1>1, <1>3 DEF Runs
  <2>2. disk["temp"] \in Games
    BY <1>1, <1>3 DEF IInv, CommandInv
  <2>3. run' \in Runs
    BY <1>1, <1>3, <2>2 DEF Runs, Stages
  <2>4. TypeOK'
    BY <1>1, <2>3 DEF IInv, TypeOK
  <2>5. CommandInv'
    BY <1>1, <2>1, <2>2 DEF IInv, CommandInv, FromDisk
  <2>6. TokenInv' /\ FilesInv' /\ XmbInv'
    BY <2>1 DEF TokenInv, FilesInv, XmbInv
  <2>7. AddressInv'
    BY <1>1, <2>1 DEF IInv, AddressInv
  <2>8. DatabaseInv'
    BY <1>1, <2>1 DEF IInv, DatabaseInv, FailureKeepsDatabase
  <2>9. FrozenInv'
    BY <1>1 DEF IInv, FrozenInv, Header, Xmessages
  <2>10. QED
    BY <2>4, <2>5, <2>6, <2>7, <2>8, <2>9 DEF IInv
<1>4. QED
  BY <1>2, <1>3 DEF Compile

(* The JSON file and the end of the front half.                            *)
LEMMA FinishFrontStep == IInv /\ FinishFront => IInv'
<1> SUFFICES ASSUME IInv, FinishFront PROVE IInv'
  OBVIOUS
<1> USE DEF Passed, Compiled, Idle, PastFront, PastBack, PastTokens, PastXmessages,
  PastAppend, PastEncode, PastTexts, PastTee, PastWrite, PastMap
<1>1. /\ run.stage = "compiled" /\ UNCHANGED <<source, frozen, runs>>
      /\ run \in Runs /\ DiskOK /\ run.game \in Games /\ ~FromDisk
  BY DEF FinishFront, IInv, TypeOK, CommandInv
<1>2. CASE /\ disk' \in {disk, [disk EXCEPT !["json"] = Cut]}
           /\ Exit(2)
  <2>1. DiskOK' /\ disk'["ddb"] = disk["ddb"]
    BY <1>1, <1>2, FileWritten, ContentsByName DEF DiskOK, Files
  <2>2. QED
    BY <1>1, <1>2, <2>1, Fails
<1>3. ASSUME NEW json,
             json \in IF run.cmd.mode = "to-json" \/ On("--json") THEN {run.game, Cut}
                      ELSE {disk["json"]},
             disk' = [disk EXCEPT !["temp"] = Absent, !["json"] = json],
             IF run.cmd.mode = "to-json" THEN Exit(0) ELSE Goto("back")
      PROVE  IInv'
  <2>1. /\ disk'["temp"] = Absent /\ disk'["json"] = json
        /\ \A f \in Files \ {"temp", "json"} : disk'[f] = disk[f]
        /\ disk' = [f \in Files |-> disk'[f]]
    BY <1>1, <1>3 DEF DiskOK, Files
  <2>2. json \in Games \cup {Absent, Cut}
    BY <1>1, <1>3, ContentsByName DEF DiskOK, Files
  <2>3. DiskOK'
    BY <1>1, <2>1, <2>2, ContentsByName DEF DiskOK, Files
  <2>4. CASE run.cmd.mode = "to-json"
    <3>1. /\ run' \in Runs /\ run'.stage = "exited" /\ run'.exit = 0
          /\ run'.cmd = run.cmd
      BY <1>1, <1>3, <2>4, RunExits
    <3>2. TypeOK'
      BY <1>1, <2>3, <3>1 DEF IInv, TypeOK
    <3>3. CommandInv' /\ TokenInv' /\ AddressInv' /\ XmbInv' /\ FilesInv' /\ DatabaseInv'
      BY <2>4, <3>1 DEF CommandInv, TokenInv, AddressInv, XmbInv, FilesInv, DatabaseInv,
        FailureKeepsDatabase
    <3>4. FrozenInv'
      BY <1>1 DEF IInv, FrozenInv, Header, Xmessages
    <3>5. QED
      BY <3>2, <3>3, <3>4 DEF IInv
  <2>5. CASE run.cmd.mode # "to-json"
    <3>1. /\ run' \in Runs /\ run'.stage = "back"
          /\ run'.exit = run.exit /\ run'.cmd = run.cmd /\ run'.game = run.game
          /\ run'.xmessages = run.xmessages /\ run'.format2 = run.format2
          /\ run'.dumpAt = run.dumpAt /\ run'.before = run.before
      BY <1>1, <1>3, <2>5, RunMoves DEF Stages
    <3>2. TypeOK'
      BY <1>1, <2>3, <3>1 DEF IInv, TypeOK
    <3>3. CommandInv'
      BY <1>1, <2>5, <3>1 DEF IInv, CommandInv, FromDisk
    <3>4. TokenInv' /\ XmbInv'
      BY <3>1 DEF TokenInv, XmbInv
    <3>5. AddressInv'
      BY <1>1, <3>1 DEF IInv, AddressInv
    <3>6. FilesInv'
      BY <1>3, <2>1, <2>5, <3>1 DEF FilesInv, On
    <3>7. DatabaseInv'
      BY <1>1, <2>1, <3>1 DEF IInv, DatabaseInv, FailureKeepsDatabase, Files
    <3>8. FrozenInv'
      BY <1>1 DEF IInv, FrozenInv, Header, Xmessages
    <3>9. QED
      BY <3>2, <3>3, <3>4, <3>5, <3>6, <3>7, <3>8 DEF IInv
  <2>6. QED
    BY <2>4, <2>5
<1>4. QED
  BY <1>2, <1>3 DEF FinishFront

(* The back half accepts the command line and, from disk, the JSON.        *)
LEMMA AcceptBackStep == IInv /\ AcceptBack => IInv'
<1> SUFFICES ASSUME IInv, AcceptBack PROVE IInv'
  OBVIOUS
<1> USE DEF Passed, Compiled, Idle, PastFront, PastBack, PastTokens, PastXmessages,
  PastAppend, PastEncode, PastTexts, PastTee, PastWrite, PastMap
<1>1. /\ run.stage = "back" /\ UNCHANGED <<source, disk, frozen, runs>>
      /\ run \in Runs /\ DiskOK /\ ~Refused
      /\ run' = [run EXCEPT !.stage = "tokens",
                            !.game = IF FromDisk THEN disk["json"] ELSE @]
  BY DEF AcceptBack, IInv, TypeOK
<1>2. /\ run'.stage = "tokens"
      /\ run'.game = IF FromDisk THEN disk["json"] ELSE run.game
      /\ run'.exit = run.exit /\ run'.cmd = run.cmd
      /\ run'.xmessages = run.xmessages /\ run'.format2 = run.format2
      /\ run'.dumpAt = run.dumpAt /\ run'.before = run.before
  BY <1>1 DEF Runs
<1>3. FromDisk => disk["json"] \in Games
  BY <1>1, ContentsByName DEF Refused, DiskOK, Files
<1>4. run'.game \in Games
  BY <1>1, <1>2, <1>3 DEF IInv, CommandInv
<1>5. run' \in Runs
  BY <1>1, <1>3, <1>4 DEF Runs, Stages
<1>6. TypeOK'
  BY <1>1, <1>5 DEF IInv, TypeOK, DiskOK
<1>7. CommandInv'
  BY <1>1, <1>2, <1>4 DEF IInv, CommandInv, FromDisk, On, Refused
<1>8. TokenInv' /\ XmbInv'
  BY <1>2 DEF TokenInv, XmbInv
<1>9. AddressInv'
  BY <1>1, <1>2 DEF IInv, AddressInv
<1>10. FilesInv'
  BY <1>1, <1>2 DEF IInv, FilesInv, CommandInv, FromDisk, On
<1>11. DatabaseInv'
  BY <1>1, <1>2 DEF IInv, DatabaseInv, FailureKeepsDatabase
<1>12. FrozenInv'
  BY <1>1 DEF IInv, FrozenInv, Header, Xmessages
<1>13. QED
  BY <1>6, <1>7, <1>8, <1>9, <1>10, <1>11, <1>12 DEF IInv

(* The token set of the run is what is selected or stored where it looks.  *)
LEMMA TokensType ==
  ASSUME IInv, run.game \in Games, Tokens # Cut
  PROVE  Tokens \in TokenSets
<1>1. Selected(run.game, ~On("-no-object-tokens")) \in TokenSets
  <2>1. \A o \in BOOLEAN : Selected(run.game, o) \in TokenSets
    BY DEF Selected, TokenSets
  <2>2. (~On("-no-object-tokens")) \in BOOLEAN
    BY Zenon DEF On
  <2>3. QED
    BY <2>1, <2>2, Zenon
<1>2. disk["tok"] \in TokenSets \cup {Absent, Cut}
  BY ContentsByName DEF IInv, TypeOK, DiskOK, Files
<1>3. Builtin \in TokenSets
  BY DEF Builtin, TokenSets
<1>4. QED
  BY <1>1, <1>2, <1>3 DEF Tokens

(* -no-object-tokens only marks the set; a set not marked stays as it was. *)
LEMMA LoadTokensStep == IInv /\ LoadTokens => IInv'
<1> SUFFICES ASSUME IInv, LoadTokens PROVE IInv'
  OBVIOUS
<1> USE DEF Passed, Compiled, Idle, PastFront, PastBack, PastTokens, PastXmessages,
  PastAppend, PastEncode, PastTexts, PastTee, PastWrite, PastMap
<1>1. /\ run.stage = "tokens" /\ UNCHANGED <<source, disk, frozen, runs>>
      /\ run \in Runs /\ DiskOK /\ DiskOK' /\ run.game \in Games
  BY DEF LoadTokens, IInv, TypeOK, CommandInv, DiskOK
<1>2. CASE Exit(2)
  BY <1>1, <1>2, Fails
<1>3. CASE /\ Tokens # Cut
           /\ run' = [run EXCEPT !.stage = "xmessages",
                        !.ts = [Tokens EXCEPT
                                  !.objectsOff = @ \/ On("-no-object-tokens")]]
  <2> DEFINE ts == [Tokens EXCEPT !.objectsOff = @ \/ On("-no-object-tokens")]
  <2>1. Tokens \in TokenSets
    BY <1>1, <1>3, TokensType
  <2>2. On("-no-object-tokens") \in BOOLEAN
    BY DEF On
  <2>3. ts \in TokenSets /\ ts.optimal = Tokens.optimal
    BY <2>1, <2>2 DEF TokenSets
  <2>4. ~On("-no-object-tokens") => ts = Tokens
    BY <2>1 DEF TokenSets
  <2>5. On("--tok") => Tokens.optimal
    BY DEF AutoTokens, Tokens, Selected
  <2> HIDE DEF ts
  <2>6. /\ run'.stage = "xmessages" /\ run'.ts = ts
        /\ run'.exit = run.exit /\ run'.cmd = run.cmd /\ run'.game = run.game
        /\ run'.xmessages = run.xmessages /\ run'.format2 = run.format2
        /\ run'.dumpAt = run.dumpAt /\ run'.before = run.before
    BY <1>1, <1>3 DEF Runs, ts
  <2>7. run' \in Runs
    BY <1>1, <1>3, <2>3 DEF Runs, Stages, ts
  <2>8. Tokens' = Tokens
    BY <1>1, <2>6 DEF Tokens, AutoTokens, On, Selected, Builtin
  <2>9. TypeOK'
    BY <1>1, <2>7 DEF IInv, TypeOK
  <2>10. CommandInv'
    BY <1>1, <2>6 DEF IInv, CommandInv, On
  <2>11. TokenInv'
    BY <1>3, <2>3, <2>4, <2>5, <2>6, <2>8 DEF TokenInv, On, AutoTokens
  <2>12. AddressInv' /\ XmbInv'
    BY <1>1, <2>6 DEF IInv, AddressInv, XmbInv
  <2>13. FilesInv'
    BY <1>1, <2>6 DEF IInv, FilesInv, On
  <2>14. DatabaseInv'
    BY <1>1, <2>6 DEF IInv, DatabaseInv, FailureKeepsDatabase
  <2>15. FrozenInv'
    BY <1>1 DEF IInv, FrozenInv, Header, Xmessages
  <2>16. QED
    BY <2>9, <2>10, <2>11, <2>12, <2>13, <2>14, <2>15 DEF IInv
<1>4. QED
  BY <1>2, <1>3 DEF LoadTokens

(* The segment of the XMESSAGEs is one a database can address.             *)
LEMMA HeadersType ==
  ASSUME NEW g \in Games, NEW coded \in BOOLEAN PROVE Xmessages(g, coded) \in Headers
BY DEF Headers

(* The XMB of XMESSAGEs written from its start, or the run stopped.        *)
LEMMA XmbWritten ==
  ASSUME IInv, run.game \in Games, NEW coded \in BOOLEAN,
         NEW xmb \in {Xmessages(run.game, coded), Cut},
         Put("xmb", <<xmb>>)
  PROVE  /\ DiskOK' /\ disk'["xmb"] = <<xmb>> /\ Size(disk'["xmb"]) = 1
         /\ \A f \in Files \ {"xmb"} : disk'[f] = disk[f]
<1>1. <<xmb>> \in Seq(Segments)
  BY DEF Segments
<1>2. <<xmb>> # Absent
  BY <1>1, AbsentAssumption
<1>3. <<xmb>> \in Contents["xmb"]
  BY <1>1, ContentsByName DEF XmbFiles
<1>4. DiskOK /\ "xmb" \in Files
  BY DEF IInv, TypeOK, Files
<1>5. disk' = [disk EXCEPT !["xmb"] = <<xmb>>]
  BY DEF Put
<1>6. DiskOK' /\ disk'["xmb"] = <<xmb>> /\ \A f \in Files \ {"xmb"} : disk'[f] = disk[f]
  BY <1>3, <1>4, <1>5, FileWritten
<1>7. Size(<<xmb>>) = 1
  BY <1>2 DEF Size
<1>8. QED
  BY <1>6, <1>7

(* A write of the XMESSAGEs that failed loudly.                            *)
LEMMA XmbFails ==
  ASSUME IInv, disk' \in {disk, [disk EXCEPT !["xmb"] = <<Cut>>]}, Exit(2),
         UNCHANGED <<source, frozen, runs>>, run.stage \in {"xmessages", "encode"}
  PROVE  IInv'
<1>1. <<Cut>> \in Contents["xmb"]
  BY ContentsByName DEF XmbFiles, Segments
<1>2. DiskOK' /\ disk'["ddb"] = disk["ddb"]
  BY <1>1, FileWritten DEF IInv, TypeOK, DiskOK, Files
<1>3. QED
  BY <1>2, Fails DEF PastWrite, PastMap

(* The emitter of XMESSAGEs of the plain formats.                          *)
LEMMA WriteXmessagesStep == IInv /\ WriteXmessages => IInv'
<1> SUFFICES ASSUME IInv, WriteXmessages PROVE IInv'
  OBVIOUS
<1> USE DEF Passed, Compiled, Idle, PastFront, PastBack, PastTokens, PastXmessages,
  PastAppend, PastEncode, PastTexts, PastTee, PastWrite, PastMap
<1>1. /\ run.stage = "xmessages" /\ UNCHANGED <<source, frozen, runs>>
      /\ run \in Runs /\ DiskOK /\ run.game \in Games
      /\ run.xmessages = Absent /\ run.format2 = FALSE
  BY DEF WriteXmessages, IInv, TypeOK, CommandInv, AddressInv
<1>2. CASE /\ ~(run.game.xmessages /\ ~On("-nxtext"))
           /\ Goto("append") /\ UNCHANGED disk
  <2>1. /\ run' \in Runs /\ run'.stage = "append"
        /\ run'.exit = run.exit /\ run'.cmd = run.cmd /\ run'.game = run.game
        /\ run'.ts = run.ts /\ run'.format2 = run.format2
        /\ run'.xmessages = run.xmessages /\ run'.dumpAt = run.dumpAt
        /\ run'.before = run.before
    BY <1>1, <1>2, RunMoves DEF Stages
  <2>2. TypeOK'
    BY <1>1, <1>2, <2>1 DEF IInv, TypeOK, DiskOK
  <2>3. CommandInv'
    BY <1>1, <1>2, <2>1 DEF IInv, CommandInv, On
  <2>4. TokenInv'
    <3>1. Tokens' = Tokens
      BY <1>2, <2>1, Zenon DEF Tokens, AutoTokens, On, Selected, Builtin
    <3>2. QED
      BY <1>1, <2>1, <3>1 DEF IInv, TokenInv, On, AutoTokens
  <2>5. AddressInv'
    BY <1>1, <1>2, <2>1 DEF IInv, AddressInv, On, Header
  <2>6. XmbInv'
    BY <1>1, <2>1 DEF XmbInv
  <2>7. FilesInv'
    BY <1>1, <1>2, <2>1 DEF IInv, FilesInv, On
  <2>8. DatabaseInv'
    BY <1>1, <1>2, <2>1 DEF IInv, DatabaseInv, FailureKeepsDatabase
  <2>9. FrozenInv'
    BY <1>1 DEF IInv, FrozenInv, Header, Xmessages
  <2>10. QED
    BY <2>2, <2>3, <2>4, <2>5, <2>6, <2>7, <2>8, <2>9 DEF IInv
<1>3. ASSUME run.game.xmessages, ~On("-nxtext"),
             NEW xmb \in {Xmessages(run.game, FALSE), Cut}, Put("xmb", <<xmb>>),
             run' = [run EXCEPT !.stage = "append",
                                !.xmessages = Xmessages(run.game, FALSE)]
      PROVE  IInv'
  <2>1. /\ DiskOK' /\ disk'["xmb"] = <<xmb>> /\ Size(disk'["xmb"]) = 1
        /\ \A f \in Files \ {"xmb"} : disk'[f] = disk[f]
    BY <1>1, <1>3, XmbWritten
  <2>2. /\ run'.stage = "append" /\ run'.xmessages = Xmessages(run.game, FALSE)
        /\ run'.exit = run.exit /\ run'.cmd = run.cmd /\ run'.game = run.game
        /\ run'.ts = run.ts /\ run'.format2 = run.format2
        /\ run'.dumpAt = run.dumpAt /\ run'.before = run.before
    BY <1>1, <1>3 DEF Runs
  <2>3. run' \in Runs
    <3>1. Xmessages(run.game, FALSE) \in Headers
      BY <1>1, HeadersType, Zenon
    <3>2. QED
      BY <1>1, <1>3, <3>1 DEF Runs, Stages
  <2>4. TypeOK'
    BY <1>1, <2>1, <2>3 DEF IInv, TypeOK
  <2>5. CommandInv'
    BY <1>1, <2>2 DEF IInv, CommandInv, On
  <2>6. TokenInv'
    <3>1. Tokens' = Tokens
      BY <2>1, <2>2, Zenon DEF Tokens, AutoTokens, On, Selected, Builtin, Files
    <3>2. QED
      BY <1>1, <2>2, <3>1 DEF IInv, TokenInv, On, AutoTokens
  <2>7. AddressInv'
    BY <1>1, <1>3, <2>2 DEF IInv, AddressInv, On, Header
  <2>8. XmbInv'
    <3>1. disk'["xmb"][1] \in {run'.xmessages, Cut}
      <4>1. <<xmb>>[1] = xmb
        OBVIOUS
      <4>2. xmb \in {run'.xmessages, Cut}
        BY <1>3, <2>2, Zenon
      <4>3. QED
        BY <2>1, <4>1, <4>2, Zenon
    <3>2. Size(disk["xmb"])' >= 1
      BY <2>1
    <3>3. QED
      BY <2>2, <3>1, <3>2 DEF XmbInv
  <2>9. FilesInv'
    BY <1>1, <2>1, <2>2 DEF IInv, FilesInv, On, Files
  <2>10. DatabaseInv'
    BY <1>1, <2>1, <2>2 DEF IInv, DatabaseInv, FailureKeepsDatabase, Files
  <2>11. FrozenInv'
    BY <1>1 DEF IInv, FrozenInv, Header, Xmessages
  <2>12. QED
    BY <2>4, <2>5, <2>6, <2>7, <2>8, <2>9, <2>10, <2>11 DEF IInv
<1>4. QED
  BY <1>1, <1>2, <1>3, XmbFails DEF WriteXmessages, WriteXmb

(* -X opens 0.XMB for appending and notes where it ends.                   *)
LEMMA OpenAppendStep == IInv /\ OpenAppend => IInv'
<1> SUFFICES ASSUME IInv, OpenAppend PROVE IInv'
  OBVIOUS
<1> USE DEF Passed, Compiled, Idle, PastFront, PastBack, PastTokens, PastXmessages,
  PastAppend, PastEncode, PastTexts, PastTee, PastWrite, PastMap
<1>1. /\ run.stage = "append" /\ UNCHANGED <<source, frozen, runs>>
      /\ run \in Runs /\ DiskOK /\ run.game \in Games
  BY DEF OpenAppend, IInv, TypeOK, CommandInv
<1>2. CASE ~On("-X") /\ Goto("externs") /\ UNCHANGED disk
  BY <1>1, <1>2, Moves DEF Stages
<1>3. CASE Exit(2) /\ UNCHANGED disk
  BY <1>1, <1>3, Fails DEF DiskOK
<1>4. CASE /\ On("-X")
           /\ run' = [run EXCEPT !.stage = "externs", !.dumpAt = Size(disk["xmb"]) + 1]
           /\ Put("xmb", IF disk["xmb"] = Absent THEN <<>> ELSE disk["xmb"])
  <2>1. disk["xmb"] \in XmbFiles
    BY <1>1, ContentsByName DEF DiskOK, Files
  <2> DEFINE xmb == IF disk["xmb"] = Absent THEN <<>> ELSE disk["xmb"]
  <2>2. xmb \in Seq(Segments) /\ xmb # Absent /\ Size(disk["xmb"]) = Len(xmb)
    <3>1. <<>> \in Seq(Segments) /\ Len(<<>>) = 0
      OBVIOUS
    <3>2. xmb \in Seq(Segments)
      BY <2>1, <3>1, Zenon DEF XmbFiles
    <3>3. xmb # Absent
      BY <3>2, AbsentAssumption, Zenon
    <3>4. Size(disk["xmb"]) = Len(xmb)
      BY <3>1, Zenon DEF Size
    <3>5. QED
      BY <3>2, <3>3, <3>4
  <2>3. /\ DiskOK' /\ disk'["xmb"] = xmb
        /\ \A f \in Files \ {"xmb"} : disk'[f] = disk[f]
    <3>1. xmb \in Contents["xmb"] /\ "xmb" \in Files
      BY <2>2, ContentsByName DEF XmbFiles, Files
    <3>2. disk' = [disk EXCEPT !["xmb"] = xmb]
      BY <1>4 DEF Put
    <3>3. QED
      BY <1>1, <3>1, <3>2, FileWritten
  <2> HIDE DEF xmb
  <2>4. Len(xmb) \in Nat
    BY <2>2
  <2>5. /\ run'.stage = "externs" /\ run'.dumpAt = Len(xmb) + 1
        /\ run'.exit = run.exit /\ run'.cmd = run.cmd /\ run'.game = run.game
        /\ run'.ts = run.ts /\ run'.format2 = run.format2
        /\ run'.xmessages = run.xmessages /\ run'.before = run.before
    BY <1>1, <1>4, <2>2 DEF Runs
  <2>6. run' \in Runs
    <3>1. Size(disk["xmb"]) + 1 \in Nat
      BY <2>2, <2>4
    <3>2. QED
      BY <1>1, <1>4, <3>1 DEF Runs, Stages
  <2>7. TypeOK'
    BY <1>1, <2>3, <2>6 DEF IInv, TypeOK
  <2>8. CommandInv'
    BY <1>1, <2>5 DEF IInv, CommandInv, On
  <2>9. TokenInv'
    <3>1. Tokens' = Tokens
      BY <2>3, <2>5, Zenon DEF Tokens, AutoTokens, On, Selected, Builtin, Files
    <3>2. QED
      BY <1>1, <2>5, <3>1 DEF IInv, TokenInv, On, AutoTokens
  <2>10. AddressInv'
    BY <1>1, <1>4, <2>5 DEF IInv, AddressInv, On, Header, Xmessages
  <2>11. XmbInv'
    <3>1. run.xmessages # Absent => xmb = disk["xmb"]
      BY <1>1, <2>1 DEF IInv, XmbInv, Size, xmb
    <3>2. QED
      BY <1>1, <2>2, <2>3, <2>4, <2>5, <3>1 DEF IInv, XmbInv, Size
  <2>12. FilesInv'
    BY <1>1, <2>3, <2>5 DEF IInv, FilesInv, On, Files
  <2>13. DatabaseInv'
    BY <1>1, <2>3, <2>5 DEF IInv, DatabaseInv, FailureKeepsDatabase, Files
  <2>14. FrozenInv'
    BY <1>1 DEF IInv, FrozenInv, Header, Xmessages
  <2>15. QED
    BY <2>7, <2>8, <2>9, <2>10, <2>11, <2>12, <2>13, <2>14 DEF IInv
<1>5. QED
  BY <1>2, <1>3, <1>4 DEF OpenAppend

(* The externs; -np ends the run here, with no database of its own.        *)
LEMMA LoadExternsStep == IInv /\ LoadExterns => IInv'
<1> SUFFICES ASSUME IInv, LoadExterns PROVE IInv'
  OBVIOUS
<1> USE DEF Passed, Compiled, Idle, PastFront, PastBack, PastTokens, PastXmessages,
  PastAppend, PastEncode, PastTexts, PastTee, PastWrite, PastMap
<1>1. /\ run.stage = "externs" /\ UNCHANGED <<source, frozen, runs>>
      /\ run \in Runs /\ DiskOK
  BY DEF LoadExterns, IInv, TypeOK
<1>2. CASE Exit(2) /\ UNCHANGED disk
  BY <1>1, <1>2, Fails DEF DiskOK
<1>3. CASE ~On("-np") /\ Goto("encode") /\ UNCHANGED disk
  BY <1>1, <1>3, Moves DEF Stages
<1>4. CASE /\ On("-np")
           /\ disk' \in {disk, [disk EXCEPT !["ddb"] = Cut]}
           /\ Exit(0)
  <2>1. DiskOK'
    BY <1>1, <1>4, FileWritten, ContentsByName DEF DiskOK, Files
  <2>2. run' \in Runs /\ run'.stage = "exited" /\ run'.exit = 0 /\ run'.cmd = run.cmd
    BY <1>1, <1>4, RunExits
  <2>3. TypeOK'
    BY <1>1, <2>1, <2>2 DEF IInv, TypeOK
  <2>4. ~Compiled'
    BY <1>4, <2>2 DEF On
  <2>5. CommandInv' /\ TokenInv' /\ AddressInv' /\ XmbInv' /\ FilesInv' /\ DatabaseInv'
    BY <2>2, <2>4 DEF CommandInv, TokenInv, AddressInv, XmbInv, FilesInv, DatabaseInv,
      FailureKeepsDatabase
  <2>6. FrozenInv'
    BY <1>1 DEF IInv, FrozenInv, Header, Xmessages
  <2>7. QED
    BY <2>3, <2>5, <2>6 DEF IInv
<1>5. QED
  BY <1>2, <1>3, <1>4 DEF LoadExterns

(* The choice of format 2, and the XMB of its XMESSAGEs.                   *)
LEMMA EncodeTextsStep == IInv /\ EncodeTexts => IInv'
<1> SUFFICES ASSUME IInv, EncodeTexts PROVE IInv'
  OBVIOUS
<1> USE DEF Passed, Compiled, Idle, PastFront, PastBack, PastTokens, PastXmessages,
  PastAppend, PastEncode, PastTexts, PastTee, PastWrite, PastMap
<1>1. /\ run.stage = "encode" /\ UNCHANGED <<source, frozen, runs>>
      /\ run \in Runs /\ DiskOK /\ run.game \in Games
  BY DEF EncodeTexts, IInv, TypeOK, CommandInv
<1> DEFINE f2 == On("-nxtext") /\ run.game.repeats
           chosen == [run EXCEPT !.format2 = f2]
<1>2. f2 \in BOOLEAN /\ (~On("-nxtext") => f2 = FALSE)
  BY DEF On
<1>3. chosen \in Runs /\ chosen.format2 = f2
  BY <1>1, <1>2 DEF Runs
<1>4. On("-nxtext") => run.dumpAt = 0
  BY <1>1 DEF IInv, CommandInv, AddressInv
<1>5. CASE Exit(2) /\ UNCHANGED disk
  BY <1>1, <1>5, Fails DEF DiskOK
<1>6. CASE /\ ~(On("-nxtext") /\ run.game.xmessages)
           /\ run' = [chosen EXCEPT !.stage = "texts"] /\ UNCHANGED disk
  <2> HIDE DEF f2
  <2>1. /\ run'.stage = "texts" /\ run'.format2 = f2
        /\ run'.exit = run.exit /\ run'.cmd = run.cmd /\ run'.game = run.game
        /\ run'.ts = run.ts /\ run'.xmessages = run.xmessages
        /\ run'.dumpAt = run.dumpAt /\ run'.before = run.before
    BY <1>1, <1>6 DEF Runs
  <2>2. run' \in Runs
    BY <1>3, <1>6 DEF Runs, Stages
  <2> HIDE DEF chosen
  <2>3. TypeOK'
    BY <1>1, <1>6, <2>2 DEF IInv, TypeOK, DiskOK
  <2>4. CommandInv'
    BY <1>1, <2>1 DEF IInv, CommandInv, On
  <2>5. TokenInv'
    <3>1. Tokens' = Tokens
      BY <1>6, <2>1, Zenon DEF Tokens, AutoTokens, On, Selected, Builtin, Files
    <3>2. QED
      BY <1>1, <2>1, <3>1 DEF IInv, TokenInv, On, AutoTokens
  <2>6. AddressInv'
    BY <1>1, <1>2, <2>1 DEF IInv, AddressInv, On, Header, Xmessages
  <2>7. XmbInv'
    BY <1>1, <1>6, <2>1 DEF IInv, XmbInv, Size
  <2>8. FilesInv'
    BY <1>1, <1>6, <2>1 DEF IInv, FilesInv, On
  <2>9. DatabaseInv'
    BY <1>1, <1>6, <2>1 DEF IInv, DatabaseInv, FailureKeepsDatabase
  <2>10. FrozenInv'
    BY <1>1 DEF IInv, FrozenInv, Header, Xmessages
  <2>11. QED
    BY <2>3, <2>4, <2>5, <2>6, <2>7, <2>8, <2>9, <2>10 DEF IInv
<1>7. ASSUME On("-nxtext"), run.game.xmessages,
             NEW xmb \in {Xmessages(run.game, f2), Cut}, Put("xmb", <<xmb>>),
             run' = [chosen EXCEPT !.stage = "texts",
                                   !.xmessages = Xmessages(run.game, f2)]
      PROVE  IInv'
  <2> HIDE DEF f2
  <2>1. /\ DiskOK' /\ disk'["xmb"] = <<xmb>> /\ Size(disk'["xmb"]) = 1
        /\ \A f \in Files \ {"xmb"} : disk'[f] = disk[f]
    BY <1>1, <1>2, <1>7, XmbWritten
  <2>2. /\ run'.stage = "texts" /\ run'.xmessages = Xmessages(run.game, f2)
        /\ run'.exit = run.exit /\ run'.cmd = run.cmd /\ run'.game = run.game
        /\ run'.ts = run.ts /\ run'.format2 = f2
        /\ run'.dumpAt = run.dumpAt /\ run'.before = run.before
    BY <1>1, <1>7 DEF Runs
  <2>3. run' \in Runs
    <3>1. Xmessages(run.game, f2) \in Headers
      BY <1>1, <1>2, HeadersType, Zenon
    <3>2. QED
      BY <1>3, <1>7, <3>1 DEF Runs, Stages
  <2> HIDE DEF chosen
  <2>4. TypeOK'
    BY <1>1, <2>1, <2>3 DEF IInv, TypeOK
  <2>5. CommandInv'
    BY <1>1, <2>2 DEF IInv, CommandInv, On
  <2>6. TokenInv'
    <3>1. Tokens' = Tokens
      BY <2>1, <2>2, Zenon DEF Tokens, AutoTokens, On, Selected, Builtin, Files
    <3>2. QED
      BY <1>1, <2>2, <3>1 DEF IInv, TokenInv, On, AutoTokens
  <2>7. AddressInv'
    BY <1>1, <1>4, <1>7, <2>2 DEF IInv, AddressInv, On
  <2>8. XmbInv'
    <3>1. disk'["xmb"][1] \in {run'.xmessages, Cut}
      <4>1. <<xmb>>[1] = xmb
        OBVIOUS
      <4>2. xmb \in {run'.xmessages, Cut}
        BY <1>7, <2>2, Zenon
      <4>3. QED
        BY <2>1, <4>1, <4>2, Zenon
    <3>2. Size(disk["xmb"])' >= 1
      BY <2>1
    <3>3. QED
      BY <1>4, <1>7, <2>2, <3>1, <3>2 DEF XmbInv
  <2>9. FilesInv'
    BY <1>1, <2>1, <2>2 DEF IInv, FilesInv, On, Files
  <2>10. DatabaseInv'
    BY <1>1, <2>1, <2>2 DEF IInv, DatabaseInv, FailureKeepsDatabase, Files
  <2>11. FrozenInv'
    BY <1>1 DEF IInv, FrozenInv, Header, Xmessages
  <2>12. QED
    BY <2>4, <2>5, <2>6, <2>7, <2>8, <2>9, <2>10, <2>11 DEF IInv
<1>8. QED
  <2>1. CASE /\ disk' \in {disk, [disk EXCEPT !["xmb"] = <<Cut>>]}
             /\ Exit(2)
    BY <1>1, <2>1, XmbFails
  <2>2. CASE ~(On("-nxtext") /\ run.game.xmessages)
    BY <1>5, <1>6, <2>2 DEF EncodeTexts
  <2>3. CASE On("-nxtext") /\ run.game.xmessages
    BY <1>3, <1>5, <1>7, <2>1, <2>3 DEF EncodeTexts, WriteXmb
  <2>4. QED
    BY <2>2, <2>3

(* The texts appended to 0.XMB under -X.                                   *)
LEMMA EmitTextsStep == IInv /\ EmitTexts => IInv'
<1> SUFFICES ASSUME IInv, EmitTexts PROVE IInv'
  OBVIOUS
<1> USE DEF Passed, Compiled, Idle, PastFront, PastBack, PastTokens, PastXmessages,
  PastAppend, PastEncode, PastTexts, PastTee, PastWrite, PastMap
<1>1. /\ run.stage = "texts" /\ UNCHANGED <<source, frozen, runs>>
      /\ run \in Runs /\ DiskOK /\ run.game \in Games
  BY DEF EmitTexts, IInv, TypeOK, CommandInv
<1>2. CASE ~On("-X")
  <2>1. UNCHANGED disk /\ (Goto("tee") \/ Exit(2))
    BY <1>2 DEF EmitTexts
  <2>2. QED
    BY <1>1, <1>2, <2>1, Moves, Fails DEF Stages, DiskOK
<1>3. ASSUME On("-X"), NEW xmb \in {Texts(run.game, run.ts), Cut},
             disk' = [disk EXCEPT !["xmb"] = Append(disk["xmb"], xmb)]
      PROVE  IInv'
  <2>1. run.dumpAt \in Nat \ {0} /\ Len(disk["xmb"]) = run.dumpAt - 1
    BY <1>1, <1>3 DEF IInv, AddressInv, XmbInv, Runs
  <2>2. disk["xmb"] \in Seq(Segments)
    BY <1>1, <1>3, <2>1, ContentsByName DEF DiskOK, Files, IInv, XmbInv, XmbFiles
  <2> DEFINE file == Append(disk["xmb"], xmb)
  <2>3. xmb \in Segments
    <3>1. run.ts \in TokenSets
      BY <1>1 DEF Runs
    <3>2. QED
      BY <1>1, <3>1 DEF Segments
  <2>4. /\ file \in Seq(Segments)
        /\ Len(file) = run.dumpAt
        /\ file[run.dumpAt] = xmb
        /\ \A i \in 1 .. run.dumpAt - 1 : file[i] = disk["xmb"][i]
    BY <2>1, <2>2, <2>3, AppendProperties
  <2>5. file # Absent /\ Size(file) = run.dumpAt
    BY <2>4, AbsentAssumption, Zenon DEF Size
  <2>6. /\ DiskOK' /\ disk'["xmb"] = file
        /\ \A f \in Files \ {"xmb"} : disk'[f] = disk[f]
    <3>1. file \in Contents["xmb"] /\ "xmb" \in Files
      BY <2>4, ContentsByName DEF XmbFiles, Files
    <3>2. QED
      BY <1>1, <1>3, <3>1, FileWritten
  <2> HIDE DEF file
  <2>7. CASE Exit(2)
    BY <1>1, <2>6, <2>7, Fails DEF Files
  <2>8. CASE Goto("tee")
    <3>1. /\ run' \in Runs /\ run'.stage = "tee"
          /\ run'.exit = run.exit /\ run'.cmd = run.cmd /\ run'.game = run.game
          /\ run'.ts = run.ts /\ run'.format2 = run.format2
          /\ run'.xmessages = run.xmessages /\ run'.dumpAt = run.dumpAt
          /\ run'.before = run.before
      BY <1>1, <2>8, RunMoves DEF Stages
    <3>2. TypeOK'
      BY <1>1, <2>6, <3>1 DEF IInv, TypeOK
    <3>3. CommandInv'
      BY <1>1, <3>1 DEF IInv, CommandInv, On
    <3>4. TokenInv'
      <4>1. Tokens' = Tokens
        BY <2>6, <3>1, Zenon DEF Tokens, AutoTokens, On, Selected, Builtin, Files
      <4>2. QED
        BY <1>1, <3>1, <4>1 DEF IInv, TokenInv, On, AutoTokens
    <3>5. AddressInv'
      BY <1>1, <3>1 DEF IInv, AddressInv, On, Header, Xmessages
    <3>6. XmbInv'
      <4>1. run.xmessages # Absent =>
              Size(disk["xmb"]) >= 1 /\ disk["xmb"][1] \in {run.xmessages, Cut}
        BY <1>1 DEF IInv, XmbInv
      <4>2. run.xmessages # Absent => run.dumpAt - 1 >= 1
        BY <2>1, <4>1, SMT DEF Size
      <4>3. run.xmessages # Absent =>
              Size(file) >= 1 /\ file[1] \in {run.xmessages, Cut}
        <5>1. run.xmessages # Absent => file[1] = disk["xmb"][1]
          BY <2>1, <2>4, <4>2
        <5>2. run.xmessages # Absent => Size(file) >= 1
          BY <2>1, <2>5, <4>2
        <5>3. QED
          BY <4>1, <5>1, <5>2
      <4>4. Size(disk["xmb"])' = Size(file)
        BY <2>6 DEF Size
      <4>5. Texts(run.game, run.ts)' = Texts(run.game, run.ts)
        BY <3>1 DEF Texts
      <4>6. Size(file) >= run.dumpAt /\ file[run.dumpAt] \in {Texts(run.game, run.ts), Cut}
        BY <1>3, <2>1, <2>4, <2>5
      <4>7. QED
        BY <2>6, <3>1, <4>3, <4>4, <4>5, <4>6 DEF XmbInv
    <3>7. FilesInv'
      BY <1>1, <2>6, <3>1 DEF IInv, FilesInv, On, Files
    <3>8. DatabaseInv'
      BY <1>1, <2>6, <3>1 DEF IInv, DatabaseInv, FailureKeepsDatabase, Files
    <3>9. FrozenInv'
      BY <1>1 DEF IInv, FrozenInv, Header, Xmessages
    <3>10. QED
      BY <3>2, <3>3, <3>4, <3>5, <3>6, <3>7, <3>8, <3>9 DEF IInv
  <2>9. QED
    BY <2>7, <2>8 DEF EmitTexts
<1>4. QED
  BY <1>2, <1>3 DEF EmitTexts

(* The table --tok leaves beside the source.                               *)
LEMMA TeeTokensStep == IInv /\ TeeTokens => IInv'
<1> SUFFICES ASSUME IInv, TeeTokens PROVE IInv'
  OBVIOUS
<1> USE DEF Passed, Compiled, Idle, PastFront, PastBack, PastTokens, PastXmessages,
  PastAppend, PastEncode, PastTexts, PastTee, PastWrite, PastMap
<1>1. /\ run.stage = "tee" /\ UNCHANGED <<source, frozen, runs>>
      /\ run \in Runs /\ DiskOK /\ run.game \in Games /\ run.ts \in TokenSets
  BY DEF TeeTokens, IInv, TypeOK, CommandInv, Runs
<1>2. CASE ~(run.ts.optimal /\ On("--tok"))
  <2>1. ~On("--tok")
    BY <1>1, <1>2 DEF IInv, TokenInv
  <2>2. UNCHANGED disk /\ Goto("processes")
    BY <1>2 DEF TeeTokens
  <2>3. QED
    BY <1>1, <2>1, <2>2, Moves DEF Stages
<1>3. CASE run.ts.optimal /\ On("--tok")
  <2>1. CASE disk' \in {disk, [disk EXCEPT !["tok"] = Cut]} /\ Exit(2)
    <3>1. DiskOK' /\ disk'["ddb"] = disk["ddb"]
      BY <1>1, <2>1, FileWritten, ContentsByName DEF DiskOK, Files
    <3>2. QED
      BY <1>1, <2>1, <3>1, Fails
  <2>2. ASSUME NEW tok \in {run.ts, Cut}, Put("tok", tok), Goto("processes")
        PROVE  IInv'
    <3>1. /\ DiskOK' /\ disk'["tok"] = tok
          /\ \A f \in Files \ {"tok"} : disk'[f] = disk[f]
      BY <1>1, <2>2, FileWritten, ContentsByName DEF Put, Files
    <3>2. /\ run' \in Runs /\ run'.stage = "processes"
          /\ run'.exit = run.exit /\ run'.cmd = run.cmd /\ run'.game = run.game
          /\ run'.ts = run.ts /\ run'.format2 = run.format2
          /\ run'.xmessages = run.xmessages /\ run'.dumpAt = run.dumpAt
          /\ run'.before = run.before
      BY <1>1, <2>2, RunMoves DEF Stages
    <3>3. TypeOK'
      BY <1>1, <3>1, <3>2 DEF IInv, TypeOK
    <3>4. CommandInv'
      BY <1>1, <3>2 DEF IInv, CommandInv, On
    <3>5. TokenInv'
      <4>1. AutoTokens'
        BY <1>3, <3>2 DEF AutoTokens, On
      <4>2. QED
        BY <1>1, <3>2, <4>1 DEF IInv, TokenInv, On
    <3>6. AddressInv'
      BY <1>1, <3>2 DEF IInv, AddressInv, On, Header, Xmessages
    <3>7. XmbInv'
      BY <1>1, <3>1, <3>2 DEF IInv, XmbInv, Size, Texts, Files
    <3>8. FilesInv'
      BY <1>1, <2>2, <3>1, <3>2 DEF IInv, FilesInv, On, Files
    <3>9. DatabaseInv'
      BY <1>1, <3>1, <3>2 DEF IInv, DatabaseInv, FailureKeepsDatabase, Files
    <3>10. FrozenInv'
      BY <1>1 DEF IInv, FrozenInv, Header, Xmessages
    <3>11. QED
      BY <3>3, <3>4, <3>5, <3>6, <3>7, <3>8, <3>9, <3>10 DEF IInv
  <2>3. QED
    BY <1>3, <2>1, <2>2 DEF TeeTokens
<1>4. QED
  BY <1>2, <1>3

(* What the database of a run says, once its texts are emitted.            *)
LEMMA DatabaseType ==
  ASSUME IInv, run.game \in Games
  PROVE  Database \in Databases
BY DEF IInv, TypeOK, Runs, Database, Databases

(* The one write of the database.                                          *)
LEMMA WriteDatabaseStep == IInv /\ WriteDatabase => IInv'
<1> SUFFICES ASSUME IInv, WriteDatabase PROVE IInv'
  OBVIOUS
<1> USE DEF Passed, Compiled, Idle, PastFront, PastBack, PastTokens, PastXmessages,
  PastAppend, PastEncode, PastTexts, PastTee, PastWrite, PastMap
<1>1. /\ run.stage = "write" /\ UNCHANGED <<source, runs>>
      /\ run \in Runs /\ DiskOK /\ run.game \in Games /\ run.ts \in TokenSets
  BY DEF WriteDatabase, IInv, TypeOK, CommandInv, Runs
<1>2. CASE Exit(2) /\ UNCHANGED <<disk, frozen>>
  BY <1>1, <1>2, Fails DEF DiskOK
<1>3. ASSUME NEW ddb \in {Database, Cut}, disk' = [disk EXCEPT !["ddb"] = ddb],
             Goto("map"),
             frozen' = IF On("--tok") /\ run.ts.optimal
                       THEN [cmd |-> run.cmd, ddb |-> Database, tok |-> disk["tok"]]
                       ELSE frozen
      PROVE  IInv'
  <2>1. Database \in Databases
    BY <1>1, DatabaseType
  <2>2. /\ DiskOK' /\ disk'["ddb"] = ddb
        /\ \A f \in Files \ {"ddb"} : disk'[f] = disk[f]
    BY <1>1, <1>3, <2>1, FileWritten, ContentsByName DEF Files
  <2>3. /\ run' \in Runs /\ run'.stage = "map"
        /\ run'.exit = run.exit /\ run'.cmd = run.cmd /\ run'.game = run.game
        /\ run'.ts = run.ts /\ run'.format2 = run.format2
        /\ run'.xmessages = run.xmessages /\ run'.dumpAt = run.dumpAt
        /\ run'.before = run.before
    BY <1>1, <1>3, RunMoves DEF Stages
  <2>4. TypeOK'
    BY <1>1, <2>2, <2>3 DEF IInv, TypeOK
  <2>5. CommandInv'
    BY <1>1, <2>3 DEF IInv, CommandInv, On
  <2>6. TokenInv'
    <3>1. Tokens' = Tokens
      BY <2>2, <2>3, Zenon DEF Tokens, AutoTokens, On, Selected, Builtin, Files
    <3>2. QED
      BY <1>1, <2>3, <3>1 DEF IInv, TokenInv, On, AutoTokens
  <2>7. AddressInv'
    BY <1>1, <2>3 DEF IInv, AddressInv, On, Header, Xmessages
  <2>8. XmbInv'
    BY <1>1, <2>2, <2>3 DEF IInv, XmbInv, Size, Texts, Files
  <2>9. FilesInv'
    BY <1>1, <2>2, <2>3 DEF IInv, FilesInv, On, Files
  <2>10. DatabaseInv'
    <3>1. Database' = Database
      BY <2>3 DEF Database
    <3>2. QED
      BY <1>1, <1>3, <2>2, <2>3, <3>1 DEF DatabaseInv, FailureKeepsDatabase
  <2>11. FrozenInv'
    <3>1. CASE On("--tok") /\ run.ts.optimal
      <4>1. frozen' = [cmd |-> run.cmd, ddb |-> Database, tok |-> disk["tok"]]
        BY <1>3, <3>1
      <4>2. /\ frozen'.tok = disk["tok"] /\ frozen'.ddb.ts = run.ts
            /\ frozen'.ddb.format2 = run.format2 /\ frozen'.ddb.game = run.game
            /\ frozen'.ddb.xmessages = run.xmessages
        BY <4>1 DEF Database
      <4>3. disk["tok"] \in {run.ts, Cut}
        BY <1>1, <3>1 DEF IInv, FilesInv
      <4>4. ~On("-nxtext")
        BY <1>1, <3>1 DEF IInv, CommandInv
      <4>5. run.format2 = FALSE /\ run.xmessages = Header(run.game, FALSE)
        BY <1>1, <4>4 DEF IInv, AddressInv
      <4>6. QED
        BY <1>1, <4>2, <4>3, <4>5 DEF FrozenInv, Header, Xmessages
    <3>2. CASE ~(On("--tok") /\ run.ts.optimal)
      BY <1>3, <3>2 DEF IInv, FrozenInv, Header, Xmessages
    <3>3. QED
      BY <3>1, <3>2
  <2>12. QED
    BY <2>4, <2>5, <2>6, <2>7, <2>8, <2>9, <2>10, <2>11 DEF IInv
<1>4. QED
  BY <1>2, <1>3 DEF WriteDatabase

(* The source map, whole or not there.                                     *)
LEMMA WriteMapStep == IInv /\ WriteMap => IInv'
<1> SUFFICES ASSUME IInv, WriteMap PROVE IInv'
  OBVIOUS
<1> USE DEF Passed, Compiled, Idle, PastFront, PastBack, PastTokens, PastXmessages,
  PastAppend, PastEncode, PastTexts, PastTee, PastWrite, PastMap
<1>1. /\ run.stage = "map" /\ UNCHANGED <<source, frozen, runs>>
      /\ run \in Runs /\ DiskOK /\ run.game \in Games /\ Database \in Databases
  BY DatabaseType DEF WriteMap, IInv, TypeOK, CommandInv
<1>2. CASE ~On("-srcmap")
  <2>1. UNCHANGED disk /\ Goto("jddb")
    BY <1>2 DEF WriteMap
  <2>2. QED
    BY <1>1, <1>2, <2>1, Moves DEF Stages
<1>3. CASE /\ On("-srcmap")
           /\ disk' \in {disk, [disk EXCEPT !["map"] = Absent]} /\ Exit(2)
  <2>1. DiskOK' /\ disk'["ddb"] = disk["ddb"]
    BY <1>1, <1>3, FileWritten, ContentsByName DEF DiskOK, Files
  <2>2. QED
    BY <1>1, <1>3, <2>1, Fails
<1>4. CASE On("-srcmap") /\ Put("map", Database) /\ Goto("jddb")
  <2>1. /\ DiskOK' /\ disk'["map"] = Database
        /\ \A f \in Files \ {"map"} : disk'[f] = disk[f]
    BY <1>1, <1>4, FileWritten, ContentsByName DEF Put, Files
  <2>2. /\ run' \in Runs /\ run'.stage = "jddb"
        /\ run'.exit = run.exit /\ run'.cmd = run.cmd /\ run'.game = run.game
        /\ run'.ts = run.ts /\ run'.format2 = run.format2
        /\ run'.xmessages = run.xmessages /\ run'.dumpAt = run.dumpAt
        /\ run'.before = run.before
    BY <1>1, <1>4, RunMoves DEF Stages
  <2>3. TypeOK'
    BY <1>1, <2>1, <2>2 DEF IInv, TypeOK
  <2>4. CommandInv'
    BY <1>1, <2>2 DEF IInv, CommandInv, On
  <2>5. TokenInv'
    <3>1. Tokens' = Tokens
      BY <2>1, <2>2, Zenon DEF Tokens, AutoTokens, On, Selected, Builtin, Files
    <3>2. QED
      BY <1>1, <2>2, <3>1 DEF IInv, TokenInv, On, AutoTokens
  <2>6. AddressInv'
    BY <1>1, <2>2 DEF IInv, AddressInv, On, Header, Xmessages
  <2>7. XmbInv'
    BY <1>1, <2>1, <2>2 DEF IInv, XmbInv, Size, Texts, Files
  <2>8. Database' = Database
    BY <2>2 DEF Database
  <2>9. FilesInv'
    BY <1>1, <2>1, <2>2, <2>8 DEF IInv, FilesInv, On, Files
  <2>10. DatabaseInv'
    BY <1>1, <2>1, <2>2, <2>8 DEF IInv, DatabaseInv, FailureKeepsDatabase, Files
  <2>11. FrozenInv'
    BY <1>1 DEF IInv, FrozenInv, Header, Xmessages
  <2>12. QED
    BY <2>3, <2>4, <2>5, <2>6, <2>7, <2>9, <2>10, <2>11 DEF IInv
<1>5. QED
  BY <1>2, <1>3, <1>4 DEF WriteMap

(* The JDDB, and the end of a run that succeeds.                           *)
LEMMA WriteJddbStep == IInv /\ WriteJddb => IInv'
<1> SUFFICES ASSUME IInv, WriteJddb PROVE IInv'
  OBVIOUS
<1> USE DEF Passed, Compiled, Idle, PastFront, PastBack, PastTokens, PastXmessages,
  PastAppend, PastEncode, PastTexts, PastTee, PastWrite, PastMap
<1>1. /\ run.stage = "jddb" /\ UNCHANGED <<source, frozen, runs>>
      /\ run \in Runs /\ DiskOK /\ run.game \in Games /\ Database \in Databases
  BY DatabaseType DEF WriteJddb, IInv, TypeOK, CommandInv
<1>2. CASE run.cmd.target = "HTML" /\ Exit(2) /\ UNCHANGED disk
  BY <1>1, <1>2, Fails DEF DiskOK
<1>3. ASSUME Exit(0), DiskOK', \A f \in Files \ {"jddb"} : disk'[f] = disk[f],
             run.cmd.target = "HTML" =>
               disk'["jddb"] \in {[ddb |-> Database, xmb |-> disk["xmb"]], Cut}
      PROVE  IInv'
  <2>1. /\ run' \in Runs /\ run'.stage = "exited" /\ run'.exit = 0
        /\ run'.cmd = run.cmd /\ run'.game = run.game
        /\ run'.ts = run.ts /\ run'.format2 = run.format2
        /\ run'.xmessages = run.xmessages /\ run'.dumpAt = run.dumpAt
        /\ run'.before = run.before
    BY <1>1, <1>3, RunExits
  <2>2. TypeOK'
    BY <1>1, <1>3, <2>1 DEF IInv, TypeOK
  <2>3. CommandInv'
    BY <1>1, <2>1 DEF IInv, CommandInv, On
  <2>4. TokenInv'
    <3>1. Tokens' = Tokens
      BY <1>3, <2>1, Zenon DEF Tokens, AutoTokens, On, Selected, Builtin, Files
    <3>2. QED
      BY <1>1, <2>1, <3>1 DEF IInv, TokenInv, On, AutoTokens
  <2>5. AddressInv'
    BY <1>1, <2>1 DEF IInv, AddressInv, On, Header, Xmessages
  <2>6. XmbInv'
    BY <1>1, <1>3, <2>1 DEF IInv, XmbInv, Size, Texts, Files
  <2>7. Database' = Database
    BY <2>1 DEF Database
  <2>8. FilesInv'
    BY <1>1, <1>3, <2>1, <2>7 DEF IInv, FilesInv, On, Files
  <2>9. DatabaseInv'
    BY <1>1, <1>3, <2>1, <2>7 DEF IInv, DatabaseInv, FailureKeepsDatabase, Files
  <2>10. FrozenInv'
    BY <1>1 DEF IInv, FrozenInv, Header, Xmessages
  <2>11. QED
    BY <2>2, <2>3, <2>4, <2>5, <2>6, <2>8, <2>9, <2>10 DEF IInv
<1>4. CASE run.cmd.target # "HTML" /\ Exit(0) /\ UNCHANGED disk
  BY <1>1, <1>3, <1>4 DEF DiskOK
<1>5. ASSUME NEW jddb \in {[ddb |-> Database, xmb |-> disk["xmb"]], Cut},
             Put("jddb", jddb), Exit(0)
      PROVE  IInv'
  <2>1. disk["xmb"] \in XmbFiles
    BY <1>1, ContentsByName DEF DiskOK, Files
  <2>2. jddb \in Contents["jddb"]
    BY <1>1, <1>5, <2>1, ContentsByName
  <2>3. /\ DiskOK' /\ disk'["jddb"] = jddb
        /\ \A f \in Files \ {"jddb"} : disk'[f] = disk[f]
    BY <1>1, <1>5, <2>2, FileWritten DEF Put, Files
  <2>4. QED
    BY <1>3, <1>5, <2>3
<1>6. QED
  BY <1>2, <1>4, <1>5 DEF WriteJddb

-----------------------------------------------------------------------------
(* The theorems.                                                           *)

(* The invariant is inductive.                                             *)
LEMMA Inductive == IInv /\ [Next]_vars => IInv'
<1> SUFFICES ASSUME IInv, [Next]_vars PROVE IInv'
  OBVIOUS
<1>1. CASE EditSource \/ Stopped \/ UNCHANGED vars
  <2>1. UNCHANGED <<disk, run, frozen, runs>> /\ source' \in Games
    BY <1>1 DEF EditSource, Stopped, vars, IInv, TypeOK
  <2>2. QED
    BY <2>1, RestStep
<1>2. QED
  BY <1>1, StartStep, QuietStep, PreparseStep, CompileStep, FinishFrontStep,
     AcceptBackStep, LoadTokensStep, WriteXmessagesStep, OpenAppendStep,
     LoadExternsStep, EncodeTextsStep, EmitTextsStep, TeeTokensStep,
     WriteDatabaseStep, WriteMapStep, WriteJddbStep DEF Next

(* It holds in every state the compiler and its author can reach.          *)
LEMMA Invariance == Spec => []IInv
BY InitInv, Inductive, PTL DEF Spec

(* Every file holds contents of its own kind, is missing or was cut short: *)
(* no command line puts one file's contents into another.                  *)
THEOREM TypeCorrect == Spec => []TypeOK
<1>1. IInv => TypeOK
  BY DEF IInv
<1>2. QED
  BY <1>1, Invariance, PTL

(* After a success 0.XMB, and the copy in the JDDB, serve the database     *)
(* just written: its XMESSAGE offsets and its lookup words address this    *)
(* run's own segments, whatever runs of any games, complete or failed,     *)
(* appended to the file before or over it.                                 *)
THEOREM XmbFound == Spec => []DatabaseFindsXmb
<1>1. IInv => DatabaseFindsXmb
  <2> SUFFICES ASSUME IInv, Compiled
               PROVE  /\ Finds(Database, disk["xmb"])
                      /\ run.cmd.target = "HTML" /\ disk["jddb"] # Cut =>
                           Finds(disk["jddb"].ddb, disk["jddb"].xmb)
    BY DEF DatabaseFindsXmb
  <2>1. Finds(Database, disk["xmb"])
    BY DEF IInv, XmbInv, Passed, Finds, Database
  <2>2. run.cmd.target = "HTML" /\ disk["jddb"] # Cut =>
          disk["jddb"].ddb = Database /\ disk["jddb"].xmb = disk["xmb"]
    BY DEF IInv, FilesInv
  <2>3. QED
    BY <2>1, <2>2
<1>2. QED
  BY <1>1, Invariance, PTL

(* After a success every file the command asked for is this run's and of   *)
(* this source, or a write nobody looks at was short.                      *)
THEOREM SuccessMeansThisRun == Spec => []SuccessIsThisRun
<1>1. IInv => SuccessIsThisRun
  <2> SUFFICES ASSUME IInv, Compiled PROVE SuccessIsThisRun
    BY DEF SuccessIsThisRun
  <2>1. disk["ddb"] \in {Database, Cut}
    BY DEF IInv, DatabaseInv, Passed
  <2>2. run.cmd.target = "HTML" =>
          disk["jddb"] = Cut \/ disk["jddb"].ddb = Database
    BY DEF IInv, FilesInv
  <2>3. QED
    BY <2>1, <2>2 DEF IInv, FilesInv, Passed, SuccessIsThisRun
<1>2. QED
  BY <1>1, Invariance, PTL

(* A run that fails, at whatever stage and over whatever earlier runs left,*)
(* leaves the database it found, or its own complete one when only the map *)
(* or the JDDB failed.                                                     *)
THEOREM FailureIsSafe == Spec => []FailureKeepsDatabase
<1>1. IInv => FailureKeepsDatabase
  BY DEF IInv, DatabaseInv
<1>2. QED
  BY <1>1, Invariance, PTL

(* The freeze workflow: a table --tok left beside the source, used by a    *)
(* later run of the same game without the freezing flags, codes the texts  *)
(* as the frozen run did.                                                  *)
THEOREM FreezeWorks == Spec => []FrozenTextsSame
<1>1. IInv => FrozenTextsSame
  <2> SUFFICES ASSUME IInv, Frozen
               PROVE  /\ Database.ts = frozen.ddb.ts
                      /\ Database.format2 = frozen.ddb.format2
                      /\ Database.xmessages = frozen.ddb.xmessages
    BY DEF FrozenTextsSame
  <2>1. /\ frozen.ddb.ts \in TokenSets
        /\ frozen.tok \in {frozen.ddb.ts, Cut}
        /\ frozen.ddb.format2 = FALSE
        /\ frozen.ddb.xmessages = Header(frozen.ddb.game, FALSE)
    BY DEF IInv, FrozenInv, Frozen
  <2>2. ~On("-auto-tokens") /\ ~On("--tok") /\ ~On("-no-object-tokens") /\ ~On("-nxtext")
    BY DEF Frozen, FreezeFlags, On
  <2>3. ~AutoTokens
    BY <2>2 DEF AutoTokens
  <2>4. run.ts = frozen.ddb.ts
    <3>1. Tokens # Cut /\ run.ts = Tokens
      BY <2>2, <2>3 DEF IInv, TokenInv, Passed, Frozen
    <3>2. disk["tok"] = frozen.tok
      BY DEF Frozen
    <3>3. frozen.tok # Absent
      BY <2>1, AbsentAssumption
    <3>4. Tokens = disk["tok"]
      BY <2>3, <3>2, <3>3, Zenon DEF Tokens
    <3>5. QED
      BY <2>1, <3>1, <3>2, <3>4
  <2>5. run.format2 = FALSE /\ run.xmessages = Header(run.game, FALSE)
    BY <2>2 DEF IInv, AddressInv, Passed, Frozen
  <2>6. run.game = frozen.ddb.game
    BY DEF Frozen
  <2>7. QED
    BY <2>1, <2>4, <2>5, <2>6 DEF Database
<1>2. QED
  BY <1>1, Invariance, PTL
=============================================================================
