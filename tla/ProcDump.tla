------------------------------ MODULE ProcDump ------------------------------
(***************************************************************************)
(* emit_processes after its rewrites (src/src/back/emit_proc.c): pass one  *)
(* registers the hash of every tail of every entry, the dump writes the    *)
(* bodies and lets an entry reuse bytes already written for an equal tail, *)
(* and the entry and process tables point at the bodies.                   *)
(*                                                                         *)
(* One behaviour compiles one job: a database's processes after pass zero  *)
(* and the settings the emitter reads.  Indices start at 1 where the code  *)
(* starts at 0.  -srcmap is on, so that its records are part of the state. *)
(***************************************************************************)
EXTENDS ProcCode

CONSTANT Jobs   \* the jobs a run explores

(* A job is a record:                                                      *)
(*   procs     sequence of processes, each a sequence of entries           *)
(*             [Verb, Noun, condacts]                                      *)
(*   base      address of the first byte the emitter writes                *)
(*   classic, debug            adv->classic_mode, adv->debug_mode          *)
(*   padding, forced, bigEndian  the target row and -p                     *)

(* The processes stand behind the header (src/src/backend.c), so the base  *)
(* is never 0; #userptr always comes with its slot                         *)
(* (src/src/front/sintactic.c:1287).                                       *)
IsJob(j) ==
  /\ j.base \in Nat \ {0}
  /\ {j.classic, j.debug, j.padding, j.forced, j.bigEndian} \subseteq BOOLEAN
  /\ j.procs \in Seq(Seq([Verb : 0..255, Noun : 0..255, condacts : Seq(CONDACT)]))
  /\ \A q \in DOMAIN j.procs : \A f \in DOMAIN j.procs[q] :
       \A i \in DOMAIN j.procs[q][f].condacts :
         LET k == j.procs[q][f].condacts[i]
         IN  k.Opcode = FakeUserPtr => NumParams(k) > 0

ASSUME JobsAssumption == \A j \in Jobs : IsJob(j)

VARIABLES
  job,          \* the job being compiled; never changes
  phase,        \* which loop runs: "register", "dump", "rows", "vector", "done"
  p, e, c,      \* procID, entryID, condactID; c = 0 before an entry's body
  out,          \* bytes written so far
  addr,         \* *addr, counted on its own by the code
  hashMap,      \* hash -> offset, NoOffset until assigned
  condOffsets,  \* <<p, e>> -> address of the entry's condacts
  procOffsets,  \* p -> address of the process's rows
  extvec,       \* the user pointers, patched into the header later
  rowAddr,      \* srcmap: <<p, e>> -> address of its row
  conds         \* srcmap: the condact records, in emission order

vars == <<job, phase, p, e, c, out, addr, hashMap, condOffsets, procOffsets,
          extvec, rowAddr, conds>>

NoOffset == -1
Phases == {"register", "dump", "rows", "vector", "done"}

Entry(q, f) == job.procs[q][f]
Body(q, f) == Entry(q, f).condacts
EntryIds == UNION {{q} \X (1..Len(job.procs[q])) : q \in 1..Len(job.procs)}
InEntry == p <= Len(job.procs) /\ e <= Len(job.procs[p])
Hash(q, f, from) == CondactsHash(Body(q, f), from, job.debug)

-----------------------------------------------------------------------------
(* layout_pad; -np has already ended the program by the time the processes *)
(* are emitted (src/src/backend.c:805).                                    *)

PadNeeded(a) == (job.padding \/ job.forced) /\ a % 2 = 1
PadBytes(a) == IF PadNeeded(a) THEN <<0>> ELSE <<>>
PaddedAddr(a) == IF PadNeeded(a) THEN a + 1 ELSE a

U16(v) == LET lo == v % 256
              hi == (v \div 256) % 256
          IN  IF job.bigEndian THEN <<hi, lo>> ELSE <<lo, hi>>

(* map_put: the latest value of a key.                                     *)
MapPut(m, key, value) ==
  [x \in DOMAIN m \cup {key} |-> IF x = key THEN value ELSE m[x]]

(* The prefixed opcode's record one byte short: it names the parameter.    *)
MutantIndirRecord(q, f, i, at) ==
  LET r(a) == [proc |-> q, entry |-> f, cond |-> i, addr |-> a]
  IN  IF HasIndirPrefix(Body(q, f)[i]) THEN <<r(at), r(at + 1)>> ELSE <<r(at)>>

(* map_condact: an INDIR prefix is a step of its own.                      *)
CondRecords(q, f, i, at) ==
  LET r(a) == [proc |-> q, entry |-> f, cond |-> i, addr |-> a]
  IN  IF HasIndirPrefix(Body(q, f)[i]) THEN <<r(at), r(at + 2)>> ELSE <<r(at)>>

(* map_shared: the entry's own condacts laid over the earlier bytes.       *)
SharedFrom(q, f, at) ==
  LET b == Body(q, f)
      from[i \in 1 .. Len(b) + 1] ==
        IF i > Len(b) THEN <<>>
        ELSE IF i \notin Dumped(b, job.debug, job.classic) THEN from[i + 1]
        ELSE CondRecords(q, f, i, at + Displacement(b, i, job.debug))
               \o from[i + 1]
  IN  from

SharedRecords(q, f, at) == SharedFrom(q, f, at)[1]

Init ==
  /\ job \in Jobs
  /\ phase = "register"
  /\ p = 1 /\ e = 1 /\ c = 0
  /\ out = <<>>
  /\ addr = job.base
  /\ hashMap = <<>>
  /\ condOffsets = <<>>
  /\ procOffsets = <<>>
  /\ extvec = [k \in 0..12 |-> 0]
  /\ rowAddr = <<>>
  /\ conds = <<>>

TailHashes ==
  UNION {{Hash(x[1], x[2], i) : i \in DOMAIN Body(x[1], x[2])} : x \in EntryIds}

(* Pass one: every non-empty tail hash, no offset yet.                     *)
RegisterTails ==
  /\ phase = "register"
  /\ phase' = "dump"
  /\ hashMap' =
       IF job.classic THEN <<>>
       ELSE [h \in TailHashes \ {<<>>} |-> NoOffset]
  /\ UNCHANGED <<job, p, e, c, out, addr, condOffsets, procOffsets, extvec,
                 rowAddr, conds>>

-----------------------------------------------------------------------------
(* The dump.                                                               *)

AtEntry == phase = "dump" /\ InEntry /\ c = 0
InBody == phase = "dump" /\ InEntry /\ c > 0

(* hi->offset # -1: the whole entry equals a tail already written.         *)
ShareBody ==
  /\ AtEntry
  /\ ~job.classic
  /\ LET h == Hash(p, e, 1)
     IN  /\ h # <<>>
         /\ hashMap[h] # NoOffset
         /\ condOffsets' = MapPut(condOffsets, <<p, e>>, hashMap[h])
         /\ conds' = conds \o SharedRecords(p, e, hashMap[h])
  /\ e' = e + 1
  /\ UNCHANGED <<job, phase, p, c, out, addr, hashMap, procOffsets, extvec,
                 rowAddr>>

(* A body of its own: an entry whose hash is empty neither shares nor pads.*)
OpenBody ==
  /\ AtEntry
  /\ LET h == Hash(p, e, 1)
         hashed == ~job.classic /\ h # <<>>
         pads == job.classic \/ h # <<>>
         at == IF pads THEN PaddedAddr(addr) ELSE addr
     IN  /\ hashed => hashMap[h] = NoOffset
         /\ out' = IF pads THEN out \o PadBytes(addr) ELSE out
         /\ addr' = at
         /\ hashMap' = IF hashed THEN [hashMap EXCEPT ![h] = at] ELSE hashMap
         /\ condOffsets' = MapPut(condOffsets, <<p, e>>, at)
  /\ c' = 1
  /\ UNCHANGED <<job, phase, p, e, procOffsets, extvec, rowAddr, conds>>

(* User pointers counted from 1.                                           *)
MutantUserPtrSlot ==
  /\ InBody
  /\ c <= Len(Body(p, e))
  /\ LET k == Body(p, e)[c]
     IN  /\ EmitsNothing(k, job.debug)
         /\ extvec' = IF k.Opcode = FakeUserPtr /\ k.Params[1] \in 0..11
                      THEN [extvec EXCEPT ![k.Params[1] + 1] = addr]
                      ELSE extvec
  /\ c' = c + 1
  /\ UNCHANGED <<job, phase, p, e, out, addr, hashMap, condOffsets,
                 procOffsets, rowAddr, conds>>

(* The fakes: nothing is written, #userptr notes the address it stands at. *)
SkipCondact ==
  /\ InBody
  /\ c <= Len(Body(p, e))
  /\ LET k == Body(p, e)[c]
     IN  /\ EmitsNothing(k, job.debug)
         /\ extvec' = IF k.Opcode = FakeUserPtr /\ k.Params[1] \in 0..12
                      THEN [extvec EXCEPT ![k.Params[1]] = addr]
                      ELSE extvec
  /\ c' = c + 1
  /\ UNCHANGED <<job, phase, p, e, out, addr, hashMap, condOffsets,
                 procOffsets, rowAddr, conds>>

(* Any tail shareable, odd addresses included.                             *)
MutantTailAnywhere ==
  LET h == Hash(p, e, c)
  IN  IF ~job.classic /\ hashMap[h] = NoOffset
      THEN [hashMap EXCEPT ![h] = addr]
      ELSE hashMap

(* The latest copy of a tail wins.                                         *)
MutantTailMoves ==
  LET h == Hash(p, e, c)
  IN  IF ~job.classic /\ (addr % 2 = 0 \/ ~job.padding)
      THEN [hashMap EXCEPT ![h] = addr]
      ELSE hashMap

(* The tail that starts here becomes shareable, once, and at an even       *)
(* address where the target needs one.                                     *)
TailOffsets ==
  LET h == Hash(p, e, c)
  IN  IF /\ ~job.classic
         /\ addr % 2 = 0 \/ ~job.padding
         /\ hashMap[h] = NoOffset
      THEN [hashMap EXCEPT ![h] = addr]
      ELSE hashMap

EmitCondact ==
  /\ InBody
  /\ c <= Len(Body(p, e))
  /\ LET k == Body(p, e)[c]
         stops == ~job.classic /\ IsTerminator(k)
     IN  /\ ~EmitsNothing(k, job.debug)
         /\ hashMap' = TailOffsets
         /\ conds' = conds \o CondRecords(p, e, c, addr)
         /\ out' = out \o CondactBytes(k)
         /\ addr' = addr + EmittedSize(k)
         /\ e' = IF stops THEN e + 1 ELSE e
         /\ c' = IF stops THEN 0 ELSE c + 1
  /\ UNCHANGED <<job, phase, p, condOffsets, procOffsets, extvec, rowAddr>>

(* Past the last condact without a terminator: the end-of-entry mark.      *)
CloseBody ==
  /\ InBody
  /\ c = Len(Body(p, e)) + 1
  /\ out' = Append(out, EndMark)
  /\ addr' = addr + 1
  /\ e' = e + 1
  /\ c' = 0
  /\ UNCHANGED <<job, phase, p, hashMap, condOffsets, procOffsets, extvec,
                 rowAddr, conds>>

NextProcess ==
  /\ phase = "dump"
  /\ p <= Len(job.procs)
  /\ e > Len(job.procs[p])
  /\ p' = p + 1 /\ e' = 1
  /\ UNCHANGED <<job, phase, c, out, addr, hashMap, condOffsets, procOffsets,
                 extvec, rowAddr, conds>>

(* The first process's rows located before the pad.                        *)
MutantRowsBeforePad ==
  /\ phase = "dump"
  /\ p > Len(job.procs)
  /\ phase' = "rows"
  /\ p' = 1 /\ e' = 1
  /\ out' = out \o PadBytes(addr)
  /\ addr' = PaddedAddr(addr)
  /\ procOffsets' = IF job.procs = <<>> THEN procOffsets
                    ELSE MapPut(procOffsets, 1, addr)
  /\ UNCHANGED <<job, c, hashMap, condOffsets, extvec, rowAddr, conds>>

StartRows ==
  /\ phase = "dump"
  /\ p > Len(job.procs)
  /\ phase' = "rows"
  /\ p' = 1 /\ e' = 1
  /\ out' = out \o PadBytes(addr)
  /\ addr' = PaddedAddr(addr)
  /\ procOffsets' = IF job.procs = <<>> THEN procOffsets
                    ELSE MapPut(procOffsets, 1, PaddedAddr(addr))
  /\ UNCHANGED <<job, c, hashMap, condOffsets, extvec, rowAddr, conds>>

-----------------------------------------------------------------------------
(* The tables.                                                             *)

WriteRow ==
  /\ phase = "rows"
  /\ InEntry
  /\ rowAddr' = MapPut(rowAddr, <<p, e>>, addr)
  /\ out' = out \o <<Entry(p, e).Verb % 256, Entry(p, e).Noun % 256>>
                \o U16(condOffsets[<<p, e>>])
  /\ addr' = addr + 4
  /\ e' = e + 1
  /\ UNCHANGED <<job, phase, p, c, hashMap, condOffsets, procOffsets, extvec,
                 conds>>

(* The 0x00 that ends a process's rows, the pad after it, and the next     *)
(* process's address.                                                      *)
EndRows ==
  /\ phase = "rows"
  /\ p <= Len(job.procs)
  /\ e > Len(job.procs[p])
  /\ out' = (out \o <<0>>) \o PadBytes(addr + 1)
  /\ addr' = PaddedAddr(addr + 1)
  /\ procOffsets' = IF p = Len(job.procs) THEN procOffsets
                    ELSE MapPut(procOffsets, p + 1, PaddedAddr(addr + 1))
  /\ p' = p + 1 /\ e' = 1
  /\ UNCHANGED <<job, phase, c, hashMap, condOffsets, extvec, rowAddr, conds>>

StartVector ==
  /\ phase = "rows"
  /\ p > Len(job.procs)
  /\ phase' = "vector"
  /\ p' = 1
  /\ out' = out \o PadBytes(addr)
  /\ addr' = PaddedAddr(addr)
  /\ UNCHANGED <<job, e, c, hashMap, condOffsets, procOffsets, extvec, rowAddr,
                 conds>>

WriteVector ==
  /\ phase = "vector"
  /\ p <= Len(job.procs)
  /\ out' = out \o U16(procOffsets[p])
  /\ addr' = addr + 2
  /\ p' = p + 1
  /\ UNCHANGED <<job, phase, e, c, hashMap, condOffsets, procOffsets, extvec,
                 rowAddr, conds>>

Finish ==
  /\ phase = "vector"
  /\ p > Len(job.procs)
  /\ phase' = "done"
  /\ UNCHANGED <<job, p, e, c, out, addr, hashMap, condOffsets, procOffsets,
                 extvec, rowAddr, conds>>

Done == phase = "done" /\ UNCHANGED vars

Next ==
  \/ RegisterTails
  \/ ShareBody \/ OpenBody \/ SkipCondact \/ EmitCondact \/ CloseBody
  \/ NextProcess \/ StartRows
  \/ WriteRow \/ EndRows \/ StartVector \/ WriteVector \/ Finish
  \/ Done

(* emit_processes is one call that runs to its end: nothing it waits for.  *)
Spec == Init /\ [][Next]_vars /\ WF_vars(Next)

-----------------------------------------------------------------------------
(* Properties.                                                             *)

(* Every variable stays in the range the code's types give it.             *)
TypeOK ==
  /\ IsJob(job)
  /\ phase \in Phases
  /\ p \in Nat \ {0} /\ e \in Nat \ {0} /\ c \in Nat
  /\ out \in Seq(Bytes)
  /\ addr \in Nat
  /\ \A h \in DOMAIN hashMap : hashMap[h] \in Nat \cup {NoOffset}
  /\ \A x \in DOMAIN condOffsets : condOffsets[x] \in Nat
  /\ \A q \in DOMAIN procOffsets : procOffsets[q] \in Nat
  /\ extvec \in [0..12 -> Nat]
  /\ \A x \in DOMAIN rowAddr : rowAddr[x] \in Nat

ByteAt(a) == out[a - job.base + 1]
ReadAt(a, n) ==
  LET from == a - job.base
  IN  IF from \in 0..Len(out) - n THEN SubSeq(out, from + 1, from + n) ELSE <<>>
WordAt(a) == IF job.bigEndian THEN 256 * ByteAt(a) + ByteAt(a + 1)
             ELSE ByteAt(a) + 256 * ByteAt(a + 1)

(* The address the code counts by hand is the number of bytes it has       *)
(* pushed: every offset it stores is computed from that count alone.       *)
AddrCountsBytes == addr = job.base + Len(out)

Meaning(x) == EntryBytes(Body(x[1], x[2]), job.debug, job.classic)
Placed(x) == x \in DOMAIN condOffsets /\ ~(c > 0 /\ x = <<p, e>>)

(* What a finished entry's offset points at is that entry's own condacts,  *)
(* up to its terminator or its end mark, whoever wrote the bytes.          *)
EntriesReadBack ==
  \A x \in DOMAIN condOffsets :
    Placed(x) => ReadAt(condOffsets[x], Len(Meaning(x))) = Meaning(x)

(* Following the finished file from the process vector at its end, through *)
(* the rows, reaches every entry's verb, noun and code.                    *)
TablesReadBack ==
  phase = "done" =>
    LET n == Len(job.procs)
        RowOf(x) == WordAt(addr - 2 * n + 2 * (x[1] - 1)) + 4 * (x[2] - 1)
    IN  /\ \A x \in EntryIds :
             /\ ByteAt(RowOf(x)) = Entry(x[1], x[2]).Verb
             /\ ByteAt(RowOf(x) + 1) = Entry(x[1], x[2]).Noun
             /\ ReadAt(WordAt(RowOf(x) + 2), Len(Meaning(x))) = Meaning(x)
             /\ rowAddr[x] = RowOf(x)
        /\ \A q \in 1..n : ByteAt(RowOf(<<q, Len(job.procs[q]) + 1>>)) = 0

(* On a target that traps odd accesses every body that something hashes,   *)
(* every row table and the vector start at an even address, also when the  *)
(* body is the middle of another entry's.                                  *)
BodiesAligned ==
  job.padding =>
    /\ \A x \in DOMAIN condOffsets :
         job.classic \/ Hash(x[1], x[2], 1) # <<>> => condOffsets[x] % 2 = 0
    /\ \A q \in DOMAIN procOffsets : procOffsets[q] % 2 = 0
    /\ phase = "vector" /\ p = 1 => addr % 2 = 0

(* Each srcmap record names an address where its condact's first byte (its *)
(* opcode, or the INDIR before it) really stands: the record list is a     *)
(* second walk over the entry, and for a shared one over foreign bytes.    *)
SrcMapNamesOpcodes ==
  \A i \in DOMAIN conds :
    LET k == Body(conds[i].proc, conds[i].entry)[conds[i].cond]
    IN  ByteAt(conds[i].addr) \in
          {EmittedOpcode(k) % 256} \cup
          (IF HasIndirPrefix(k) THEN {IndirOpcode} ELSE {})

(* The dump walks over the #userptr of slot k at condact i of entry x.     *)
MarksSlot(x, i, k) ==
  LET b == Body(x[1], x[2])
  IN  /\ b[i].Opcode = FakeUserPtr /\ b[i].Params[1] = k
      /\ Reaches(b, i, job.debug, job.classic)

(* The walk has been there: the entry is behind it, or open up to there.   *)
Passed(x, i) == x \in DOMAIN condOffsets /\ (<<p, e>> = x /\ c > 0 => i < c)

(* An earlier entry has a tail, reached by the dump, with the hash of x:   *)
(* only then may x be given foreign bytes, and its #userptr be passed over.*)
HashedBefore(x) ==
  /\ ~job.classic
  /\ \E y \in EntryIds :
       /\ y[1] < x[1] \/ (y[1] = x[1] /\ y[2] < x[2])
       /\ \E i \in DOMAIN Body(y[1], y[2]) :
            /\ Reaches(Body(y[1], y[2]), i, job.debug, job.classic)
            /\ Hash(y[1], y[2], i) = Hash(x[1], x[2], 1)
            /\ Hash(y[1], y[2], i) # <<>>

(* A user pointer holds the address its #userptr stands at inside a body,  *)
(* and the slot of each #userptr the dump has passed is set, unless its    *)
(* entry has the hash of an earlier tail (emit_proc.c:749-763).            *)
UserPtrsInBodies ==
  /\ \A k \in DOMAIN extvec :
       extvec[k] # 0 =>
         \E x \in DOMAIN condOffsets : \E i \in DOMAIN Body(x[1], x[2]) :
           /\ MarksSlot(x, i, k) /\ Passed(x, i)
           /\ extvec[k] = condOffsets[x] +
                Displacement(Body(x[1], x[2]), i, job.debug)
  /\ \A x \in EntryIds : \A i \in DOMAIN Body(x[1], x[2]) :
       \A k \in DOMAIN extvec :
         MarksSlot(x, i, k) /\ Passed(x, i) /\ ~HashedBefore(x) => extvec[k] # 0

(* An offset once given is never moved: a row, a later sharer and the      *)
(* srcmap may already rely on it.                                          *)
OffsetsStick ==
  [][/\ \A h \in DOMAIN hashMap : hashMap[h] # NoOffset => hashMap'[h] = hashMap[h]
     /\ \A x \in DOMAIN condOffsets : condOffsets'[x] = condOffsets[x]]_vars

(* The strengthening the proofs need (ProcDump_proofs).                    *)

(* Pass one has met every tail the dump asks the map for.                  *)
TailsRegistered ==
  /\ phase = "register" => hashMap = <<>>
  /\ phase = "dump" /\ ~job.classic =>
       \A x \in EntryIds : \A i \in DOMAIN Body(x[1], x[2]) :
         Hash(x[1], x[2], i) # <<>> => Hash(x[1], x[2], i) \in DOMAIN hashMap

TailOffsetsAligned ==
  job.padding =>
    \A h \in DOMAIN hashMap : hashMap[h] = NoOffset \/ hashMap[h] % 2 = 0

(* Exactly the entries the dump has met have an offset.                    *)
Reached(x) ==
  \/ x[1] < p
  \/ x[1] = p /\ (x[2] < e \/ (x[2] = e /\ c > 0))

OffsetsFollowDump ==
  /\ phase = "register" => p = 1 /\ e = 1
  /\ c > 0 => phase = "dump" /\ InEntry
  /\ DOMAIN condOffsets =
       IF phase \in {"register", "dump"} THEN {x \in EntryIds : Reached(x)}
       ELSE EntryIds
  /\ phase = "rows" /\ p <= Len(job.procs) => p \in DOMAIN procOffsets
  /\ phase = "rows" => \A q \in 1..Len(job.procs) : q < p => q \in DOMAIN procOffsets
  /\ phase = "vector" => 1..Len(job.procs) \subseteq DOMAIN procOffsets

IndInv ==
  /\ TypeOK
  /\ AddrCountsBytes
  /\ TailsRegistered
  /\ TailOffsetsAligned
  /\ OffsetsFollowDump
  /\ BodiesAligned

(* Condacts with unequally many parameters never begin tails of one hash:  *)
(* finding 1 (README) is about the jobs where they do.                     *)
HashesTell ==
  \A x, y \in EntryIds :
    HashTells(Body(x[1], x[2]), Body(y[1], y[2]), job.debug)

(* An opcode tells how many parameters follow: so it is where no byte is   *)
(* written with #db and, on DAAD v2, no XMES stands beside an EXTERN.      *)
AritiesFixed ==
  \A x, y \in EntryIds :
    Determined(Body(x[1], x[2]), Body(y[1], y[2]), job.debug)

(* The file with the rest of the entry being dumped.                       *)
Code(x) == TailBytes(Body(x[1], x[2]), job.debug, job.classic)
Rest == IF c > 0 THEN Code(<<p, e>>)[c] ELSE <<>>
Promised == out \o Rest

Stands(file, at, code) ==
  LET from == at - job.base
  IN  /\ from \in Nat
      /\ from + Len(code) <= Len(file)
      /\ SubSeq(file, from + 1, from + Len(code)) = code

CursorInBody == c > 0 => c <= Len(Body(p, e)) + 1

(* A hash that has an offset is that of a tail whose bytes are there, or   *)
(* will be when the entry being dumped is finished.                        *)
HashesLead ==
  \A h \in DOMAIN hashMap : hashMap[h] # NoOffset =>
    \E x \in EntryIds : \E i \in DOMAIN Body(x[1], x[2]) :
      /\ Hash(x[1], x[2], i) = h
      /\ Stands(Promised, hashMap[h], Code(x)[i])

OffsetsLead ==
  \A x \in DOMAIN condOffsets :
    /\ Stands(Promised, condOffsets[x], Code(x)[1])
    /\ Placed(x) => Stands(out, condOffsets[x], Code(x)[1])

CodeInv == CursorInBody /\ HashesLead /\ OffsetsLead

(* The rows, their ends and the vector stand where the next table, or the  *)
(* header, will look for them.                                             *)
RowBytes(x) ==
  <<Entry(x[1], x[2]).Verb % 256, Entry(x[1], x[2]).Noun % 256>>
    \o U16(condOffsets[x])

RowWritten(x) ==
  LET at == procOffsets[x[1]] + 4 * (x[2] - 1)
  IN  /\ x \in DOMAIN rowAddr /\ rowAddr[x] = at
      /\ Stands(out, at, RowBytes(x))
      /\ condOffsets[x] < addr

EndWritten(q) == Stands(out, procOffsets[q] + 4 * Len(job.procs[q]), <<0>>)
WordWritten(q) == Stands(out, addr - 2 * (p - q), U16(procOffsets[q]))

RowsInv ==
  phase = "rows" =>
    /\ p <= Len(job.procs) + 1
    /\ p <= Len(job.procs) =>
         /\ e <= Len(job.procs[p]) + 1
         /\ addr = procOffsets[p] + 4 * (e - 1)
    /\ \A x \in EntryIds : x[1] < p \/ (x[1] = p /\ x[2] < e) => RowWritten(x)
    /\ \A q \in 1..Len(job.procs) : q < p => EndWritten(q)

VectorInv ==
  phase \in {"vector", "done"} =>
    /\ p <= Len(job.procs) + 1
    /\ phase = "done" => p = Len(job.procs) + 1
    /\ 1..Len(job.procs) \subseteq DOMAIN procOffsets
    /\ \A x \in EntryIds : RowWritten(x)
    /\ \A q \in 1..Len(job.procs) : EndWritten(q)
    /\ \A q \in 1..Len(job.procs) : q < p => WordWritten(q)

(* The tables and what stands before them are in reach of a 16-bit word.   *)
AddressesFit == addr <= 65536

(* Each entry's code appears in the file exactly once for good, and all of *)
(* them do: the abstract table of Placement.                               *)
EntryTable == INSTANCE Placement
  WITH meaning <- [x \in EntryIds |-> Meaning(x)],
       found <- [x \in EntryIds |->
                  IF Placed(x) THEN ReadAt(condOffsets[x], Len(Meaning(x)))
                  ELSE <<>>]

ImplementsPlacement == EntryTable!Spec

(* The safety of it, without the fairness.                                 *)
PlacesEntries == EntryTable!Init /\ [][EntryTable!Next]_EntryTable!vars
=============================================================================
