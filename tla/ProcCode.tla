------------------------------ MODULE ProcCode ------------------------------
(***************************************************************************)
(* How one condact of a process entry becomes bytes, and how a list of     *)
(* condacts becomes the hash that decides which entries share a body       *)
(* (src/src/back/emit_proc.c).                                             *)
(*                                                                         *)
(* A condact is a record                                                   *)
(*   [Opcode, Params, Indirection1, Indirection2, IsDB, src]               *)
(* where Params holds exactly NumParams values.  IsDB is the front end's   *)
(* "this is a raw byte" mark: the JSON that joins the two halves does not  *)
(* carry it, so nothing below reads it; only properties do.                *)
(***************************************************************************)
EXTENDS Integers, Sequences

CONDACT == [Opcode : Nat, Params : Seq(Nat), Indirection1 : BOOLEAN,
            Indirection2 : BOOLEAN, IsDB : BOOLEAN, src : Int]
Bytes == 0..255

FakeDebug == 220
FakeUserPtr == 256
IndirOpcode == 122
EndMark == 255

(* NOTDONE, DONE, OK, SKIP, RESTART, REDO: the dump stops an entry there.  *)
TerminatorOpcodes == {22, 23, 103, 116, 117, 108}

NumParams(c) == Len(c.Params)

(* opcode | 0x80 *)
WithBit7(op) == IF (op \div 128) % 2 = 1 THEN op ELSE op + 128

EmitsNothing(c, debug) ==
  \/ c.Opcode = FakeDebug /\ ~debug
  \/ c.Opcode = FakeUserPtr

EmittedOpcode(c) ==
  IF NumParams(c) > 0 /\ c.Indirection1 THEN WithBit7(c.Opcode) ELSE c.Opcode

HasIndirPrefix(c) == NumParams(c) > 1 /\ c.Indirection2

(* The INDIR prefix left out of the count.                                 *)
MutantSizeNoIndir(c) == 1 + NumParams(c)

EmittedSize(c) == (IF HasIndirPrefix(c) THEN 2 ELSE 0) + 1 + NumParams(c)

IsTerminator(c) == EmittedOpcode(c) \in TerminatorOpcodes

(* The pushes of the dump, each truncated to its byte by str_push_u8.      *)
CondactBytes(c) ==
  (IF HasIndirPrefix(c) THEN <<IndirOpcode, c.Params[2] % 256>> ELSE <<>>)
    \o <<EmittedOpcode(c) % 256>>
    \o [i \in 1..NumParams(c) |-> c.Params[i] % 256]

-----------------------------------------------------------------------------
(* The hash of a tail of condacts: the printed numbers, in order, with the *)
(* separators gone.  A token is <<mark, number>>, mark "@" for an          *)
(* indirected second parameter.  Numbers are not truncated to bytes here.  *)

(* Before DRC 71df4e5 the hash ignored the second parameter's indirection. *)
MutantHashNoAt(c, debug) ==
  IF EmitsNothing(c, debug) THEN <<>>
  ELSE <<<<"", EmittedOpcode(c)>>>>
       \o [i \in 1..NumParams(c) |-> <<"", c.Params[i]>>]

HashTokens(c, debug) ==
  IF EmitsNothing(c, debug) THEN <<>>
  ELSE <<<<"", EmittedOpcode(c)>>>>
       \o [i \in 1..NumParams(c) |->
             <<IF i = 2 /\ c.Indirection2 THEN "@" ELSE "", c.Params[i]>>]

TailHash(condacts, debug) ==
  LET tail[i \in 1 .. Len(condacts) + 1] ==
        IF i > Len(condacts) THEN <<>>
        ELSE HashTokens(condacts[i], debug) \o tail[i + 1]
  IN  tail

CondactsHash(condacts, from, debug) ==
  IF from \in DOMAIN condacts THEN TailHash(condacts, debug)[from] ELSE <<>>

(* Condacts of two bodies whose tails hash alike have equally many         *)
(* parameters: the places where a hash could be read in two ways.          *)
HashTells(a, b, debug) ==
  \A i \in 1..Len(a) : \A j \in 1..Len(b) :
    /\ ~EmitsNothing(a[i], debug) /\ ~EmitsNothing(b[j], debug)
    /\ TailHash(a, debug)[i] = TailHash(b, debug)[j]
    => NumParams(a[i]) = NumParams(b[j])

(* An opcode tells how many parameters follow, in either of two bodies.    *)
Determined(a, b, debug) ==
  \A i \in 1..Len(a) : \A j \in 1..Len(b) :
    /\ ~EmitsNothing(a[i], debug) /\ ~EmitsNothing(b[j], debug)
    /\ EmittedOpcode(a[i]) = EmittedOpcode(b[j])
    => NumParams(a[i]) = NumParams(b[j])

-----------------------------------------------------------------------------
(* The walk of one entry, which the first terminator printed ends (none    *)
(* ends a classic entry), and the condacts of it that reach the file.      *)

Reaches(condacts, i, debug, classic) ==
  \/ classic
  \/ \A k \in DOMAIN condacts :
       k < i /\ ~EmitsNothing(condacts[k], debug) => ~IsTerminator(condacts[k])

Dumped(condacts, debug, classic) ==
  {i \in DOMAIN condacts : /\ ~EmitsNothing(condacts[i], debug)
                           /\ Reaches(condacts, i, debug, classic)}

(* Distance of each condact's first byte from the start of the body.       *)
Displacements(condacts, debug) ==
  LET before[k \in 1 .. Len(condacts) + 1] ==
        IF k = 1 THEN 0
        ELSE before[k - 1] + (IF EmitsNothing(condacts[k - 1], debug) THEN 0
                              ELSE EmittedSize(condacts[k - 1]))
  IN  before

Displacement(condacts, i, debug) == Displacements(condacts, debug)[i]

(* What the dump writes from each condact of a body to the entry's end.    *)
TailBytes(condacts, debug, classic) ==
  LET from[i \in 1 .. Len(condacts) + 1] ==
        IF i > Len(condacts) THEN <<EndMark>>
        ELSE IF EmitsNothing(condacts[i], debug) THEN from[i + 1]
        ELSE IF ~classic /\ IsTerminator(condacts[i])
             THEN CondactBytes(condacts[i])
        ELSE CondactBytes(condacts[i]) \o from[i + 1]
  IN  from

(* The bytes an entry means: what the dump writes when nothing is shared.  *)
EntryBytes(condacts, debug, classic) == TailBytes(condacts, debug, classic)[1]
=============================================================================
