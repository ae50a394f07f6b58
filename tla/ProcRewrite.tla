---------------------------- MODULE ProcRewrite -----------------------------
(***************************************************************************)
(* Pass zero of emit_processes (src/src/back/emit_proc.c) with the MML     *)
(* parser it calls (src/src/back/emit_mml.c): one walk over every condact  *)
(* that refuses what the target cannot run and rewrites the rest in place, *)
(* splicing the notes of an XPLAY and the LETs of an XDATA into the list   *)
(* it is walking and stepping back to visit them.                          *)
(*                                                                         *)
(* The processes are one list of entries, indices start at 1, and a condact*)
(* is [Opcode, Params, Indirection1, DurationAdjusted, src].  A tune is its*)
(* list of notes, an XDATA string its list of elements.                    *)
(***************************************************************************)
EXTENDS Integers, Sequences

CONSTANT Jobs   \* the jobs a run explores

XMES == 128
XPICTURE == 130
XSAVE == 131
XLOAD == 132
XPART == 133
XPLAY == 134
XBEEP == 135
XSPLITSCR == 136
XUNDONE == 137
XNEXTCLS == 138
XNEXTRST == 139
XSPEED == 140
XDATA == 142
GETKEY == 143
LET_ == 51
PAUSE == 35
EXTERN == 61
BEEP == 64
AT == 0
PROCESS == 75
XMES_FINAL == 120
GFX == 87
SFX == 18

Deprecated == {XPICTURE, XNEXTCLS, XNEXTRST, XSPEED, XSAVE, XLOAD, XPART, XBEEP}

(* A job is a record:                                                      *)
(*   entries    the condacts of every entry                                *)
(*   processes  how many processes there are                               *)
(*   strings    otherStrings: [notes, elements]; an element that is no     *)
(*              integer is -1, refused like any other outside 0..255       *)
(*   offsets    XMESSAGE number, counted from 0, -> its offset             *)
(*   v3         adv->v3code                                                *)
(*   target     [base, pitch, swap, splits, msx2] of the target's row      *)
(* A note is [cmd, num, given, dots]: num is the note index of "note" (A to*)
(* G, its length in len), or the number that follows the letter; given     *)
(* tells whether a number stood there.  Lengths and tempos are those of    *)
(* MML: never negative, no tempo 0 (src/src/back/emit_mml.c:125 divides).  *)
Commands == {"note", "L", "R", "N", "O", "T", "V", "<", ">", "&"}
NOTE == [cmd : Commands, num : Int, len : Nat, given : BOOLEAN, dots : Nat]
CONDACT == [Opcode : Nat, Params : Seq(Int), Indirection1 : BOOLEAN,
            DurationAdjusted : BOOLEAN, src : Nat]

IsJob(j) ==
  /\ j.entries \in Seq(Seq(CONDACT))
  /\ \A f \in DOMAIN j.entries : \A i \in DOMAIN j.entries[f] :
       LET k == j.entries[f][i]
       IN  /\ k.src = i /\ ~k.DurationAdjusted
           /\ k.Opcode \in {PROCESS, XMES, PAUSE, BEEP, XPLAY, XDATA, XSPLITSCR}
                => Len(k.Params) >= 1
           /\ k.Opcode = BEEP => Len(k.Params) = 2
  /\ \A s \in DOMAIN j.strings :
       /\ j.strings[s].notes \in Seq(NOTE)
       /\ j.strings[s].elements \in Seq(Int)
       /\ \A n \in DOMAIN j.strings[s].notes :
            LET x == j.strings[s].notes[n] IN x.cmd = "T" => x.num % 256 # 0
  /\ j.offsets \in Seq(Nat)
  /\ j.target.pitch \in Int

ASSUME JobsAssumption == \A j \in Jobs : IsJob(j)

VARIABLES
  job,       \* the job; never changes
  entries,   \* the entries as rewritten so far
  e, c,      \* entryID, condactID
  status     \* "running", "done" or "failed"

vars == <<job, entries, e, c, status>>

-----------------------------------------------------------------------------
(* Durations: php_round of a quotient of whole numbers is its rounding     *)
(* half up.                                                                *)
Rounded(n, d) == (2 * n + d) \div (2 * d)
Smaller(x, y) == IF x <= y THEN x ELSE y

(* Base length over the default 200, capped at a byte.                     *)
Adjusted(duration) == Smaller(Rounded(duration * job.target.base, 200), 255)

(* base * (120 / tempo) / (length / 1.5^dots); 0 for length 0.             *)
NoteDuration(tempo, length, dots) ==
  IF length = 0 THEN 0
  ELSE Rounded(job.target.base * 120 * 3^dots, tempo * length * 2^dots)

(* A new condact of a tune or of an XDATA: it stands where its source did. *)
New(opcode, params, adjusted, src) ==
  [Opcode |-> opcode, Params |-> params, Indirection1 |-> FALSE,
   DurationAdjusted |-> adjusted, src |-> src]

(* mml_to_beep: the values a note leaves and the condacts it makes.        *)
InitialValues == [octave |-> 4, volume |-> 8, length |-> 4, tempo |-> 120]

NoteLength(note, values) == IF note.given THEN note.len ELSE values.length

NoteValues(note, values) ==
  CASE note.cmd = "L" -> [values EXCEPT !.length = note.num]
    [] note.cmd = "O" -> [values EXCEPT !.octave = note.num]
    [] note.cmd = "T" -> [values EXCEPT !.tempo = note.num % 256]
    [] note.cmd = "V" -> [values EXCEPT !.volume = note.num % 16]
    [] note.cmd = "<" /\ values.octave > 1 -> [values EXCEPT !.octave = @ - 1]
    [] note.cmd = ">" /\ values.octave < 8 -> [values EXCEPT !.octave = @ + 1]
    [] OTHER -> values

(* A note left for the visit to scale, as a rest is.                       *)
MutantNoteCondacts(note, values, src) ==
  IF note.cmd = "note"
  THEN <<New(BEEP, <<NoteDuration(values.tempo, NoteLength(note, values), note.dots),
                     values.octave * 24 + note.num * 2 + job.target.pitch>>,
             FALSE, src)>>
  ELSE <<>>

NoteCondacts(note, values, src) ==
  LET lasts(length) == NoteDuration(values.tempo, length, note.dots)
  IN  CASE note.cmd = "note" ->
             <<New(BEEP, <<lasts(NoteLength(note, values)),
                           values.octave * 24 + note.num * 2 + job.target.pitch>>,
                   TRUE, src)>>
        [] note.cmd = "R" ->
             LET d == lasts(NoteLength(note, values))
             IN  <<New(PAUSE, <<IF d = 0 THEN 1 ELSE d>>, FALSE, src)>>
        [] note.cmd = "N" ->
             <<New(BEEP, <<lasts(values.length), 48 + note.num * 2>>, FALSE, src)>>
        [] note.cmd = "V" /\ job.target.msx2 ->
             <<New(SFX, <<note.num % 16, 8>>, FALSE, src)>>
        [] OTHER -> <<>>

(* The values before each note of a tune.                                  *)
ValuesBefore(notes) ==
  LET before[n \in 1 .. Len(notes) + 1] ==
        IF n = 1 THEN InitialValues ELSE NoteValues(notes[n - 1], before[n - 1])
  IN  before

TuneFails(notes) ==
  \E n \in DOMAIN notes :
    notes[n].cmd = "note" /\ NoteLength(notes[n], ValuesBefore(notes)[n]) = 0

(* The condacts of a tune from each of its notes to its end.               *)
TuneFrom(notes, src) ==
  LET values == ValuesBefore(notes)
      from[n \in 1 .. Len(notes) + 1] ==
        IF n > Len(notes) THEN <<>>
        ELSE NoteCondacts(notes[n], values[n], src) \o from[n + 1]
  IN  from

Tune(notes, src) == TuneFrom(notes, src)[1]

-----------------------------------------------------------------------------
Init ==
  /\ job \in Jobs
  /\ entries = job.entries
  /\ e = 1 /\ c = 1
  /\ status = "running"

AtCondact == status = "running" /\ e <= Len(entries) /\ c <= Len(entries[e])
Current == entries[e][c]
Param1 == Current.Params[1]
At(opcode) == AtCondact /\ Current.Opcode = opcode

(* diag_fatal and return.                                                  *)
Fail == status' = "failed" /\ UNCHANGED <<job, entries, e, c>>

(* The condact rewritten where it stands.                                  *)
Rewrite(k) ==
  /\ entries' = [entries EXCEPT ![e][c] = k]
  /\ c' = c + 1
  /\ UNCHANGED <<job, e, status>>

(* Visits the condact after the chain: the step back left out.             *)
MutantSplice(chain) ==
  /\ entries' = [entries EXCEPT
       ![e] = SubSeq(@, 1, c - 1) \o chain \o SubSeq(@, c + 1, Len(@))]
  /\ c' = c + Len(chain)
  /\ UNCHANGED <<job, e, status>>

(* Steps back twice.                                                       *)
MutantSpliceBack(chain) ==
  /\ entries' = [entries EXCEPT
       ![e] = SubSeq(@, 1, c - 1) \o chain \o SubSeq(@, c + 1, Len(@))]
  /\ c' = IF c > 1 THEN c - 1 ELSE c
  /\ UNCHANGED <<job, e, status>>

(* The condact replaced by a chain, whose first condact is visited next.   *)
Splice(chain) ==
  /\ entries' = [entries EXCEPT
       ![e] = SubSeq(@, 1, c - 1) \o chain \o SubSeq(@, c + 1, Len(@))]
  /\ UNCHANGED <<job, e, c, status>>

String == IF Param1 + 1 \in DOMAIN job.strings THEN job.strings[Param1 + 1]
          ELSE [notes |-> <<>>, elements |-> <<>>]

-----------------------------------------------------------------------------
(* One action per arm.                                                     *)

VisitProcess ==
  /\ At(PROCESS)
  /\ IF ~Current.Indirection1 /\ Param1 >= job.processes THEN Fail
     ELSE Rewrite(Current)

(* xmessage_offset_at: 0 for a message that is not there.                  *)
Offset == IF Param1 + 1 \in DOMAIN job.offsets THEN job.offsets[Param1 + 1] ELSE 0

VisitXmes ==
  /\ At(XMES)
  /\ LET lsb == Offset % 256
         msb == Offset \div 256
     IN  IF Offset > 65535 THEN Fail
         ELSE Rewrite(IF job.v3
                      THEN [Current EXCEPT !.Opcode = XMES_FINAL, !.Params = <<lsb, msb>>]
                      ELSE [Current EXCEPT !.Opcode = EXTERN, !.Params = <<lsb, 3, msb>>])

AdjustedOnce(k) ==
  IF k.DurationAdjusted THEN k
  ELSE [k EXCEPT !.DurationAdjusted = TRUE, !.Params[1] = Adjusted(@)]

VisitPause == At(PAUSE) /\ Rewrite(AdjustedOnce(Current))

(* Out of the player's range a note becomes a pause of its length.         *)
VisitBeep ==
  /\ At(BEEP)
  /\ LET k == AdjustedOnce(Current)
         pitch == k.Params[2]
     IN  Rewrite(IF pitch < 48 \/ pitch > 238
                 THEN [k EXCEPT !.Opcode = PAUSE, !.Params = <<k.Params[1]>>]
                 ELSE IF job.target.swap
                 THEN [k EXCEPT !.Params = <<pitch, k.Params[1]>>]
                 ELSE k)

VisitXundone ==
  /\ At(XUNDONE)
  /\ IF job.v3 THEN Fail
     ELSE Rewrite([Current EXCEPT !.Opcode = EXTERN, !.Params = <<0, 7>>,
                                  !.Indirection1 = FALSE])

(* An empty chain spliced in like any other.                               *)
MutantVisitXplay ==
  /\ At(XPLAY)
  /\ IF TuneFails(String.notes) THEN Fail
     ELSE LET chain == Tune(String.notes, Current.src)
          IN  IF chain # <<>> THEN Splice(chain) ELSE UNCHANGED vars

(* A tune without a note becomes the indirect AT 38 that is always true.   *)
VisitXplay ==
  /\ At(XPLAY)
  /\ IF TuneFails(String.notes) THEN Fail
     ELSE LET chain == Tune(String.notes, Current.src)
          IN  IF chain # <<>> THEN Splice(chain)
              ELSE Rewrite([Current EXCEPT !.Opcode = AT, !.Params = <<38>>,
                                           !.Indirection1 = TRUE])

VisitGetkey ==
  /\ At(GETKEY)
  /\ IF ~job.v3 THEN Fail
     ELSE Rewrite([Current EXCEPT !.Opcode = PAUSE, !.Params = <<0>>,
                                  !.Indirection1 = FALSE])

(* rewrite_xdata: a first flag and its values, none beyond flag 255.       *)
DataFails(x) ==
  \/ Len(x) < 2
  \/ \E i \in DOMAIN x : x[i] \notin 0..255
  \/ x[1] + Len(x) - 2 > 255

(* The source position left at 0, as arena_calloc made it.                 *)
MutantLets(x, src) ==
  [i \in 1..Len(x) - 1 |-> New(LET_, <<x[1] + i - 1, x[i + 1]>>, FALSE, 0)]

Lets(x, src) ==
  [i \in 1..Len(x) - 1 |-> New(LET_, <<x[1] + i - 1, x[i + 1]>>, FALSE, src)]

VisitXdata ==
  /\ At(XDATA)
  /\ IF DataFails(String.elements) THEN Fail
     ELSE Splice(Lets(String.elements, Current.src))

VisitXsplitscr ==
  /\ At(XSPLITSCR)
  /\ IF ~job.target.splits THEN Fail
     ELSE Rewrite([Current EXCEPT !.Opcode = IF job.v3 THEN GFX ELSE EXTERN,
                                  !.Params = <<@[1], IF job.v3 THEN 15 ELSE 6>>])

VisitDeprecated == AtCondact /\ Current.Opcode \in Deprecated /\ Fail

VisitOther ==
  /\ AtCondact
  /\ Current.Opcode \notin Deprecated \cup
       {PROCESS, XMES, PAUSE, XUNDONE, BEEP, XPLAY, GETKEY, XDATA, XSPLITSCR}
  /\ Rewrite(Current)

NextEntry ==
  /\ status = "running"
  /\ e <= Len(entries)
  /\ c > Len(entries[e])
  /\ e' = e + 1 /\ c' = 1
  /\ UNCHANGED <<job, entries, status>>

Finish ==
  /\ status = "running"
  /\ e > Len(entries)
  /\ status' = "done"
  /\ UNCHANGED <<job, entries, e, c>>

Returned == status # "running" /\ UNCHANGED vars

Next ==
  \/ VisitProcess \/ VisitXmes \/ VisitPause \/ VisitXundone \/ VisitBeep
  \/ VisitXplay \/ VisitGetkey \/ VisitXdata \/ VisitXsplitscr
  \/ VisitDeprecated \/ VisitOther \/ NextEntry \/ Finish
  \/ Returned

(* One call, nothing to wait for.                                          *)
Spec == Init /\ [][Next]_vars /\ WF_vars(Next)

-----------------------------------------------------------------------------
(* Properties.                                                             *)

Origin(f, i) == job.entries[f][entries[f][i].src]
StringOf(k) == IF k.Params[1] + 1 \in DOMAIN job.strings
               THEN job.strings[k.Params[1] + 1]
               ELSE [notes |-> <<>>, elements |-> <<>>]

(* Whatever was spliced where, a rewritten entry still names every condact *)
(* of the source, in the source's order: nothing vanishes, and the srcmap  *)
(* made from these positions never runs backwards inside an entry.         *)
SourceOrder ==
  status = "done" =>
    \A f \in DOMAIN entries :
      LET srcs == [i \in DOMAIN entries[f] |-> entries[f][i].src]
      IN  /\ {srcs[i] : i \in DOMAIN srcs} = DOMAIN job.entries[f]
          /\ \A i \in 1..Len(srcs) - 1 : srcs[i] <= srcs[i + 1]

(* Every BEEP that is left has a pitch the player knows, in the parameter  *)
(* where the target looks for it, the notes spliced in behind the cursor's *)
(* back included.                                                          *)
PitchesAudible ==
  status = "done" =>
    \A f \in DOMAIN entries : \A i \in DOMAIN entries[f] :
      entries[f][i].Opcode = BEEP =>
        entries[f][i].Params[IF job.target.swap THEN 1 ELSE 2] \in 48..238

(* The condacts of a list that come from place s are m in a row behind d.  *)
Stretch(list, s, d, m) ==
  /\ d + m <= Len(list)
  /\ \A i \in DOMAIN list : list[i].src = s <=> i \in d + 1 .. d + m

DurationOf(k, swap) == k.Params[IF k.Opcode = BEEP /\ swap THEN 2 ELSE 1]
OnlyNotes(notes) == notes # <<>> /\ \A n \in DOMAIN notes : notes[n].cmd = "note"
Lasts(note) == NoteDuration(120, IF note.given THEN note.len ELSE 4, note.dots)

(* A tune of notes A to G has become a condact for each, in their order,   *)
(* and a note lasts what the tune says: the visit that follows the splice  *)
(* does not scale it to the target's clock a second time.                  *)
NotesLastAsWritten ==
  status = "done" =>
    \A f \in DOMAIN entries : \A s \in DOMAIN job.entries[f] :
      LET k == job.entries[f][s]
          notes == StringOf(k).notes
      IN  k.Opcode = XPLAY /\ OnlyNotes(notes) =>
            \E d \in 0..Len(entries[f]) :
              /\ Stretch(entries[f], s, d, Len(notes))
              /\ \A n \in 1..Len(notes) :
                   DurationOf(entries[f][d + n], job.target.swap) = Lasts(notes[n])

(* What the walk has passed is final: no step back reaches a condact that  *)
(* was visited already (a second visit would swap a BEEP's parameters      *)
(* back).                                                                  *)
PassedIsFinal ==
  [][/\ e' = e => c' >= c
     /\ \A f \in DOMAIN entries : f # e => entries'[f] = entries[f]
     /\ e <= Len(entries) =>
          SubSeq(entries'[e], 1, c - 1) = SubSeq(entries[e], 1, c - 1)]_vars

(* The walk ends although it lengthens the list it walks and steps back.   *)
PassTerminates == <>(status # "running")

-----------------------------------------------------------------------------
(* The strengthening the proofs need (ProcRewrite_proofs).                 *)

(* A condact has its fields, whatever its parameters are.                  *)
IsCondact(k) ==
  k \in [Opcode : Nat, Params : {k.Params}, Indirection1 : BOOLEAN,
         DurationAdjusted : BOOLEAN, src : Nat]

CondactsIn(list) ==
  UNION {{list[f][i] : i \in DOMAIN list[f]} : f \in DOMAIN list}

Lists ==
  /\ IsJob(job)
  /\ entries \in Seq(Seq(CondactsIn(entries)))
  /\ Len(entries) = Len(job.entries)
  /\ \A k \in CondactsIn(entries) : IsCondact(k)

Cursor ==
  /\ e \in Nat \ {0} /\ c \in Nat \ {0}
  /\ status \in {"running", "done", "failed"}
  /\ e <= Len(entries) => c <= Len(entries[e]) + 1
  /\ status = "done" => e > Len(entries)

(* Each entry names all of its source's places, in their order.            *)
Ordered(entry, n) ==
  /\ {entry[i].src : i \in DOMAIN entry} = 1..n
  /\ \A i, j \in DOMAIN entry : i <= j => entry[i].src <= entry[j].src

Orders == \A f \in DOMAIN entries : Ordered(entries[f], Len(job.entries[f]))

(* A BEEP not visited yet has its pitch second; one that was visited has   *)
(* one that sounds where the target looks for it.                          *)
HasPitch(k) == k.Opcode = BEEP => DOMAIN k.Params = 1..2 /\ k.Params[2] \in Int
Audible(k) ==
  k.Opcode = BEEP => k.Params[IF job.target.swap THEN 1 ELSE 2] \in 48..238

Passed(f, i) == f < e \/ (f = e /\ i < c)
Pitches ==
  \A f \in DOMAIN entries : \A i \in DOMAIN entries[f] :
    IF Passed(f, i) THEN Audible(entries[f][i]) ELSE HasPitch(entries[f][i])

IndInv == Lists /\ Cursor /\ Orders /\ Pitches

(* How much of an entry the walk has passed.                               *)
Gone(f) == IF f < e THEN Len(entries[f]) ELSE IF f = e THEN c - 1 ELSE 0

(* A tune is in its list as it was written, ahead of the walk, or as its   *)
(* notes, those ahead of the walk marked as adjusted.                      *)
Waits(list, gone, s, k) ==
  \E d \in gone..Len(list) : Stretch(list, s, d, 1) /\ list[d + 1] = k

Plays(list, gone, s, notes, swap) ==
  \E d \in 0..Len(list) :
    /\ Stretch(list, s, d, Len(notes))
    /\ \A n \in 1..Len(notes) :
         LET x == list[d + n]
         IN  IF d + n <= gone THEN DurationOf(x, swap) = Lasts(notes[n])
             ELSE x.Opcode = BEEP /\ x.DurationAdjusted /\ x.Params[1] = Lasts(notes[n])

Tunes ==
  \A f \in DOMAIN entries : \A s \in DOMAIN job.entries[f] :
    LET k == job.entries[f][s]
        notes == StringOf(k).notes
    IN  k.Opcode = XPLAY /\ OnlyNotes(notes) =>
          \/ Waits(entries[f], Gone(f), s, k)
          \/ Plays(entries[f], Gone(f), s, notes, job.target.swap)

=============================================================================
