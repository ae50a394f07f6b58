------------------------------ MODULE MsgTable ------------------------------
(***************************************************************************)
(* One table of texts on its way to the database, the XMB or the format 2  *)
(* region (emit_messages, src/src/back/emit_msg.c), followed by its lookup *)
(* words.  A behaviour is one call.  Messages count from 1 here.           *)
(***************************************************************************)
EXTENDS Integers, Sequences

CONSTANTS
  Tables,              \* the calls a run explores
  LastDefaultSysmess   \* 62: system messages up to it always stay in RAM

(* A call is a record                                                      *)
(*   msgs             the texts, each a sequence of bytes                  *)
(*   dump, stx        dump_to_xmb, is_stx                                  *)
(*   region           format 2: a region is given and texts are raw        *)
(*   share            duplicates share one copy                            *)
(*   padding, forced, bigEndian   the target row and -p                    *)
(*   base, xmbBase    *addr and *xmb_addr on entry                         *)
(*   regionBase       bytes the region already holds                       *)
IsTable(t) ==
  /\ t.msgs \in Seq(Seq(0..255))
  /\ {t.dump, t.stx, t.region, t.share, t.padding, t.forced, t.bigEndian}
       \subseteq BOOLEAN
  /\ t.base \in Nat /\ t.xmbBase \in Nat /\ t.regionBase \in Nat
  /\ ~(t.region /\ t.dump)

ASSUME TablesAssumption == \A t \in Tables : IsTable(t)
ASSUME LimitAssumption == LastDefaultSysmess \in Nat

VARIABLES
  call,      \* the call's arguments
  phase,     \* "texts", "words", "done"
  i,         \* the message (or word) the loop is at
  out,       \* database bytes of this call
  addr,      \* *addr
  xmb,       \* bytes this call appended to 0.XMB
  xmbAddr,   \* *xmb_addr
  region,    \* bytes this call appended to the region
  offsets,   \* offsets[1..i-1]
  saved      \* stats->bytes

vars == <<call, phase, i, out, addr, xmb, xmbAddr, region, offsets, saved>>

Bytes == 0..255
Terminator == 245                 \* 0x0A ^ 0xFF
Obfuscated(text) == [k \in DOMAIN text |-> 255 - text[k]]

(* What a text's copy looks like: format 2 streams carry their own end.    *)
Stored(text) ==
  IF call.region THEN text ELSE Append(Obfuscated(text), Terminator)

(* Default system messages stay in RAM even under -X.                      *)
ToXmb(k) == call.dump /\ ~(call.stx /\ k - 1 <= LastDefaultSysmess)

(* Texts alike share even when one goes to the XMB and the other to RAM.   *)
MutantSharesAcross(k) ==
  {j \in 1..k - 1 : call.share /\ call.msgs[j] = call.msgs[k]}

Sharers(k) ==
  {j \in 1..k - 1 : /\ call.share
                    /\ ToXmb(j) = ToXmb(k)
                    /\ call.msgs[j] = call.msgs[k]}

PadNeeded == (call.padding \/ call.forced) /\ addr % 2 = 1
Pad == IF PadNeeded THEN <<0>> ELSE <<>>
Padded == IF PadNeeded THEN addr + 1 ELSE addr

Word(v) == LET lo == v % 256
               hi == (v \div 256) % 256
           IN  IF call.bigEndian THEN <<hi, lo>> ELSE <<lo, hi>>

Init ==
  /\ call \in Tables
  /\ phase = "texts" /\ i = 1
  /\ out = <<>> /\ addr = call.base
  /\ xmb = <<>> /\ xmbAddr = call.xmbBase
  /\ region = <<>>
  /\ offsets = <<>>
  /\ saved = 0

AtText == phase = "texts" /\ i <= Len(call.msgs)
Text == call.msgs[i]

(* The terminator not counted as saved.                                    *)
MutantSavedText ==
  /\ AtText
  /\ \E j \in Sharers(i) :
       /\ \A k \in Sharers(i) : j <= k
       /\ offsets' = Append(offsets, offsets[j])
  /\ saved' = saved + Len(Text)
  /\ i' = i + 1
  /\ UNCHANGED <<call, phase, out, addr, xmb, xmbAddr, region>>

(* The first equal text bound for the same place: no copy, no pad.         *)
ShareText ==
  /\ AtText
  /\ \E j \in Sharers(i) :
       /\ \A k \in Sharers(i) : j <= k
       /\ offsets' = Append(offsets, offsets[j])
  /\ saved' = saved + Len(Stored(Text))
  /\ i' = i + 1
  /\ UNCHANGED <<call, phase, out, addr, xmb, xmbAddr, region>>

TextToRegion ==
  /\ AtText
  /\ Sharers(i) = {}
  /\ call.region
  /\ offsets' = Append(offsets, call.regionBase + Len(region))
  /\ region' = region \o Stored(Text)
  /\ i' = i + 1
  /\ UNCHANGED <<call, phase, out, addr, xmb, xmbAddr, saved>>

(* The offset noted before the pad.                                        *)
MutantTextUnpadded ==
  /\ AtText
  /\ Sharers(i) = {}
  /\ ~call.region /\ ~ToXmb(i)
  /\ offsets' = Append(offsets, addr)
  /\ out' = out \o Pad \o Stored(Text)
  /\ addr' = Padded + Len(Stored(Text))
  /\ i' = i + 1
  /\ UNCHANGED <<call, phase, xmb, xmbAddr, region, saved>>

TextToRam ==
  /\ AtText
  /\ Sharers(i) = {}
  /\ ~call.region /\ ~ToXmb(i)
  /\ offsets' = Append(offsets, Padded)
  /\ out' = out \o Pad \o Stored(Text)
  /\ addr' = Padded + Len(Stored(Text))
  /\ i' = i + 1
  /\ UNCHANGED <<call, phase, xmb, xmbAddr, region, saved>>

(* A dumped text: the database is padded all the same.                     *)
TextToXmb ==
  /\ AtText
  /\ Sharers(i) = {}
  /\ ToXmb(i)
  /\ offsets' = Append(offsets, xmbAddr)
  /\ xmb' = xmb \o Stored(Text)
  /\ xmbAddr' = xmbAddr + Len(Stored(Text))
  /\ out' = out \o Pad
  /\ addr' = Padded
  /\ i' = i + 1
  /\ UNCHANGED <<call, phase, region, saved>>

StartWords ==
  /\ phase = "texts"
  /\ i > Len(call.msgs)
  /\ phase' = "words" /\ i' = 1
  /\ out' = out \o Pad
  /\ addr' = Padded
  /\ UNCHANGED <<call, xmb, xmbAddr, region, offsets, saved>>

WriteWord ==
  /\ phase = "words"
  /\ i <= Len(call.msgs)
  /\ out' = out \o Word(offsets[i])
  /\ addr' = addr + 2
  /\ i' = i + 1
  /\ UNCHANGED <<call, phase, xmb, xmbAddr, region, offsets, saved>>

Return ==
  /\ phase = "words"
  /\ i > Len(call.msgs)
  /\ phase' = "done"
  /\ UNCHANGED <<call, i, out, addr, xmb, xmbAddr, region, offsets, saved>>

Returned == phase = "done" /\ UNCHANGED vars

Next ==
  \/ ShareText \/ TextToRegion \/ TextToRam \/ TextToXmb
  \/ StartWords \/ WriteWord \/ Return
  \/ Returned

Spec == Init /\ [][Next]_vars

-----------------------------------------------------------------------------
(* Properties.                                                             *)

Slice(s, from, n) ==
  IF from \in 0..Len(s) - n THEN SubSeq(s, from + 1, from + n) ELSE <<>>

(* What a text's offset leads to, in the place the call's flags name.      *)
Found(k, offset) ==
  LET n == Len(Stored(call.msgs[k]))
  IN  IF call.region THEN Slice(region, offset - call.regionBase, n)
      ELSE IF ToXmb(k) THEN Slice(xmb, offset - call.xmbBase, n)
      ELSE Slice(out, offset - call.base, n)

(* Every text met so far, shared or not, is found whole at its offset.     *)
TextsReadBack ==
  \A k \in DOMAIN offsets : Found(k, offsets[k]) = Stored(call.msgs[k])

LookupWord(k) ==
  LET at == Len(out) - 2 * Len(call.msgs) + 2 * (k - 1) + 1
  IN  IF call.bigEndian THEN 256 * out[at] + out[at + 1]
      ELSE out[at] + 256 * out[at + 1]

(* The words of the finished table, as an interpreter reads them, lead to  *)
(* the texts.                                                              *)
LookupsReadBack ==
  phase = "done" =>
    \A k \in DOMAIN call.msgs : Found(k, LookupWord(k)) = Stored(call.msgs[k])

(* The bytes reported as saved are the bytes not stored: what the table    *)
(* would take without sharing, less what the three destinations got.       *)
Lengths ==
  LET upTo[k \in 1 .. Len(call.msgs) + 1] ==
        IF k = 1 THEN 0 ELSE upTo[k - 1] + Len(Stored(call.msgs[k - 1]))
  IN  upTo

TotalLength == Lengths[Len(offsets) + 1]

SavingsExact ==
  phase = "texts" /\ ~(call.padding \/ call.forced) =>
    saved = TotalLength - (Len(out) + Len(xmb) + Len(region))

(* On a padding target no text in RAM and no lookup table is at an odd     *)
(* address, duplicates included.                                           *)
RamTextsAligned ==
  call.padding =>
    /\ \A k \in DOMAIN offsets :
         ~call.region /\ ~ToXmb(k) => offsets[k] % 2 = 0
    /\ phase # "texts" => addr % 2 = 0

=============================================================================
