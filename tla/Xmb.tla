--------------------------------- MODULE Xmb --------------------------------
(***************************************************************************)
(* The XMESSAGE files (src/src/back/emit_xmb.c): emit_xmessages for format *)
(* 1 and emit_xmessages2 for format 2.  A file or a page has a fixed size; *)
(* a text that does not fit where the cursor stands starts a new one.      *)
(* A behaviour is one call.  Texts are lengths: the bytes of text k are    *)
(* <<k, 1>>, <<k, 2>>, ...                                                 *)
(***************************************************************************)
EXTENDS Integers, Sequences

CONSTANTS
  Calls,       \* the calls a run explores
  Gap,         \* 512: the block left free by +3 and Amiga, and the window
  MaxCoded,    \* 8192: the longest coded text of format 2
  DataLimit    \* 65535: where the last file may end

(* A call is a record                                                      *)
(*   lens      the texts' lengths (coded streams under format 2)           *)
(*   size      xmessage_size_k * 1024, 0 where XMESSAGEs are unsupported   *)
(*   target    "plain", "amiga", "plus3", "128k", "msx2"                   *)
(*   format2   emit_xmessages2                                             *)
Targets == {"plain", "amiga", "plus3", "128k", "msx2"}
IsCall(x) ==
  /\ x.lens \in Seq(Nat)
  /\ x.size \in Nat
  /\ x.target \in Targets
  /\ x.format2 \in BOOLEAN
  (* +3 and 128K have pages of 16K.  Format 2 requires NEXTDAAD, whose files *)
  (* have 64K, and a coded text holds at least its end code.                 *)
  /\ x.target \in {"plus3", "128k"} => x.size = 0 \/ Gap <= x.size
  /\ x.format2 => /\ x.target = "plain"
                  /\ x.size = 0 \/ 4 + MaxCoded <= x.size
                  /\ \A k \in DOMAIN x.lens : x.lens[k] > 0

ASSUME CallsAssumption == \A x \in Calls : IsCall(x)
ASSUME SizesAssumption == {Gap, DataLimit} \subseteq Nat /\ MaxCoded \in Nat \ {0}

VARIABLES
  call,      \* the call's arguments
  phase,     \* "open", "texts", "written", "failed"
  i,         \* the text the loop is at
  fresh,     \* the new file or page for text i has just been started
  files,     \* the files' bytes, in file order
  page,      \* current_file
  cursor,    \* current_offset, within the file or page
  offsets    \* offsets[1..i-1]

vars == <<call, phase, i, fresh, files, page, cursor, offsets>>

(* Filler, terminator and header bytes are <<0, ...>>.                     *)
Zeros(n) == [k \in 1..n |-> <<0, 0>>]         \* none when n is negative
Header == [b \in 1..4 |-> <<0, b>>]           \* "X2" and the fingerprint

(* The stream of format 2 carries its own end.                             *)
TextBytes(k) ==
  [b \in 1..call.lens[k] |-> <<k, b>>]
    \o (IF call.format2 THEN <<>> ELSE <<<<0, 5>>>>)
Length(k) == Len(TextBytes(k))

FileStart ==
  IF call.format2 THEN Header
  ELSE IF call.target \in {"plus3", "amiga"} /\ page = 0 THEN Zeros(Gap)
  ELSE <<>>

(* MSX2, +3 and 128K pad the one file; the others roll to the next.        *)
Paged == call.target \in {"msx2", "plus3", "128k"}
Windowed == call.target \in {"plus3", "128k"}

(* The window the +3 interpreter pages in, forgotten.                      *)
MutantFitsNoWindow(k) == Length(k) + cursor <= call.size

Fits(k) ==
  /\ Length(k) + cursor <= call.size
  /\ Windowed => cursor + Gap <= call.size

Write(bytes) == files' = [files EXCEPT ![Len(files)] = @ \o bytes]

Init ==
  /\ call \in Calls
  /\ phase = "open"
  /\ i = 1 /\ fresh = FALSE
  /\ files = <<>>
  /\ page = 0 /\ cursor = 0
  /\ offsets = <<>>

(* A target without XMESSAGEs, or a coded text above 8K: nothing is opened.*)
Refused ==
  \/ call.size = 0
  \/ call.format2 /\ \E k \in DOMAIN call.lens : call.lens[k] > MaxCoded

Refuse ==
  /\ phase = "open"
  /\ Refused
  /\ phase' = "failed"
  /\ UNCHANGED <<call, i, fresh, files, page, cursor, offsets>>

OpenFirst ==
  /\ phase = "open"
  /\ ~Refused
  /\ phase' = "texts"
  /\ files' = <<FileStart>>
  /\ cursor' = Len(FileStart)
  /\ UNCHANGED <<call, i, fresh, page, offsets>>

(* fopen fails, for the first file or at a roll-over.                      *)
CannotOpen ==
  /\ \/ phase = "open" /\ ~Refused
     \/ phase = "texts" /\ i <= Len(call.lens) /\ ~fresh /\ ~Fits(i) /\ ~Paged
  /\ phase' = "failed"
  /\ UNCHANGED <<call, i, fresh, files, page, cursor, offsets>>

(* The new file's header left out of the cursor.                           *)
MutantNextFile ==
  /\ phase = "texts"
  /\ i <= Len(call.lens)
  /\ ~fresh /\ ~Fits(i) /\ ~Paged
  /\ files' = Append(files, IF call.format2 THEN Header ELSE <<>>)
  /\ page' = page + 1
  /\ cursor' = 0
  /\ fresh' = TRUE
  /\ UNCHANGED <<call, phase, i, offsets>>

NextFile ==
  /\ phase = "texts"
  /\ i <= Len(call.lens)
  /\ ~fresh /\ ~Fits(i) /\ ~Paged
  /\ LET start == IF call.format2 THEN Header ELSE <<>>
     IN  /\ files' = Append(files, start)
         /\ cursor' = Len(start)
  /\ page' = page + 1
  /\ fresh' = TRUE
  /\ UNCHANGED <<call, phase, i, offsets>>

(* The page left as it is.                                                 *)
MutantNextPage ==
  /\ phase = "texts"
  /\ i <= Len(call.lens)
  /\ ~fresh /\ ~Fits(i) /\ Paged
  /\ page' = page + 1
  /\ cursor' = 0
  /\ fresh' = TRUE
  /\ UNCHANGED <<call, phase, i, files, offsets>>

NextPage ==
  /\ phase = "texts"
  /\ i <= Len(call.lens)
  /\ ~fresh /\ ~Fits(i) /\ Paged
  /\ Write(Zeros(call.size - cursor))
  /\ page' = page + 1
  /\ cursor' = 0
  /\ fresh' = TRUE
  /\ UNCHANGED <<call, phase, i, offsets>>

PutText ==
  /\ phase = "texts"
  /\ i <= Len(call.lens)
  /\ fresh \/ Fits(i)
  /\ offsets' = Append(offsets, cursor + page * call.size)
  /\ Write(TextBytes(i))
  /\ cursor' = cursor + Length(i)
  /\ i' = i + 1
  /\ fresh' = FALSE
  /\ UNCHANGED <<call, phase, page>>

(* The trailing gap left out of the cursor.                                *)
MutantClose ==
  /\ phase = "texts"
  /\ i > Len(call.lens)
  /\ LET tail == IF call.target = "amiga" /\ ~call.format2 THEN Gap ELSE 0
     IN  Write(Zeros(tail))
  /\ phase' = IF cursor > DataLimit THEN "failed" ELSE "written"
  /\ UNCHANGED <<call, i, fresh, page, cursor, offsets>>

(* The Amiga's trailing gap, then the limit on the last file alone.        *)
Close ==
  /\ phase = "texts"
  /\ i > Len(call.lens)
  /\ LET tail == IF call.target = "amiga" /\ ~call.format2 THEN Gap ELSE 0
         limit == DataLimit + tail
     IN  /\ Write(Zeros(tail))
         /\ cursor' = cursor + tail
         /\ phase' = IF cursor + tail > limit THEN "failed" ELSE "written"
  /\ UNCHANGED <<call, i, fresh, page, offsets>>

(* Format 2 checks fwrite and fclose.                                      *)
WriteFails ==
  /\ phase = "texts"
  /\ call.format2
  /\ phase' = "failed"
  /\ UNCHANGED <<call, i, fresh, files, page, cursor, offsets>>

Returned == phase \in {"written", "failed"} /\ UNCHANGED vars

Next ==
  \/ Refuse \/ OpenFirst \/ NextFile \/ NextPage \/ PutText \/ Close
  \/ CannotOpen \/ WriteFails
  \/ Returned

Spec == Init /\ [][Next]_vars

(* xmessage_size, set on success.                                          *)
XMessageSize == call.size * page + cursor

-----------------------------------------------------------------------------
(* Properties.                                                             *)

(* An interpreter's way to an offset: a file and a place in it, or, on     *)
(* targets that page one file, a place in that file.                       *)
Located(offset, n) ==
  LET f == IF Paged THEN 1 ELSE offset \div call.size + 1
      at == IF Paged THEN offset ELSE offset % call.size
  IN  IF f \in DOMAIN files /\ at + n <= Len(files[f])
      THEN SubSeq(files[f], at + 1, at + n) ELSE <<>>

(* No text that could fit a page is cut by a page's end, and on +3 and     *)
(* 128K the window read at a text's start stays inside its page.           *)
TextsWithinPages ==
  \A k \in DOMAIN offsets :
    LET at == offsets[k] % call.size
        start == IF call.format2 THEN Len(Header) ELSE 0
    IN  /\ Length(k) + start <= call.size => at + Length(k) <= call.size
        /\ Windowed => at + Gap <= call.size

(* xmessage_size covers every text of format 2 and every file starts with  *)
(* its header, which no text overwrites: what the emitted-XMB check of     *)
(* -nxtext rebuilds its image from (xmb2_check, src/src/backend.c).        *)
ImageCoversTexts ==
  phase = "written" /\ call.format2 =>
    /\ \A k \in DOMAIN offsets : /\ offsets[k] % call.size >= Len(Header)
                                 /\ offsets[k] + Length(k) <= XMessageSize
    /\ \A f \in DOMAIN files : SubSeq(files[f], 1, Len(Header)) = Header

(* The bytes of the last file, or of the last page of a paged file, and    *)
(* how many it may have: one less than 64K, and the Amiga's gap.           *)
LastLength ==
  IF Paged THEN Len(files[1]) - call.size * page ELSE Len(files[Len(files)])
LastMayHave == DataLimit + (IF call.target = "amiga" THEN Gap ELSE 0)

(* The physical layout agrees with the arithmetic.  On success one paged   *)
(* file is as long as xmessage_size says, there are as many files as       *)
(* pages, and the last is within its limit; format 1, once all texts are   *)
(* on disk, fails only when the last file really is beyond it.             *)
SizesAgree ==
  /\ phase = "written" =>
       /\ IF Paged THEN Len(files) = 1 /\ Len(files[1]) = XMessageSize
          ELSE Len(files) = page + 1 /\ Len(files[Len(files)]) = cursor
       /\ LastLength <= LastMayHave
  /\ phase = "failed" /\ ~call.format2 /\ files # <<>> /\ i > Len(call.lens)
       => LastLength > LastMayHave

(* Each text becomes readable at its offset, whole and in one file, and    *)
(* stays so; a fault may cut the call short.                               *)
TextTable == INSTANCE Placement
  WITH meaning <- [k \in DOMAIN call.lens |-> TextBytes(k)],
       found <- [k \in DOMAIN call.lens |->
                   IF k \in DOMAIN offsets THEN Located(offsets[k], Length(k))
                   ELSE <<>>]

ImplementsPlacement ==
  TextTable!Init /\ [][TextTable!Next]_TextTable!vars
=============================================================================
