------------------------- MODULE ProcRewrite_proofs -------------------------
(***************************************************************************)
(* Proofs about ProcRewrite: the pass over the condacts keeps every entry  *)
(* in its source's order although it splices chains into the list it       *)
(* walks, what it has passed is final, every BEEP it leaves sounds, and a  *)
(* tune of notes keeps its notes and their durations.                      *)
(***************************************************************************)
EXTENDS ProcRewrite, Basics

(* Lists of condacts are lists of the condacts they hold.                  *)
LEMMA OwnElements ==
  ASSUME NEW S, NEW list \in Seq(Seq(S))
  PROVE  list \in Seq(Seq(CondactsIn(list)))
<1> DEFINE C == CondactsIn(list)
<1>1. \A f \in DOMAIN list : \A i \in DOMAIN list[f] : list[f][i] \in C
  BY DEF CondactsIn
<1> HIDE DEF C
<1>2. ASSUME NEW f \in DOMAIN list PROVE list[f] \in Seq(C)
  <2>1. list[f] \in Seq(S)
    BY <1>2
  <2>2. \A i \in DOMAIN list[f] : list[f][i] \in C
    BY <1>1, <1>2
  <2> DEFINE s == list[f]
  <2> HIDE DEF s
  <2>3. s \in Seq(S) /\ \A i \in DOMAIN s : s[i] \in C
    BY <2>1, <2>2 DEF s
  <2>4. s \in Seq(C)
    BY <2>3
  <2>5. QED
    BY <2>4 DEF s
<1>3. list \in Seq(Seq(C))
  BY <1>2
<1>4. QED
  BY <1>3 DEF C

(* A condact of a list is among the condacts of the list.                  *)
LEMMA HeldIn ==
  ASSUME NEW list, NEW f \in DOMAIN list, NEW i \in DOMAIN list[f]
  PROVE  list[f][i] \in CondactsIn(list)
BY DEF CondactsIn

(* The condact the walk stands at.                                         *)
LEMMA CurrentCondact ==
  ASSUME IndInv, AtCondact
  PROVE  /\ entries \in Seq(Seq(CondactsIn(entries)))
         /\ e \in 1..Len(entries) /\ c \in 1..Len(entries[e])
         /\ entries[e] \in Seq(CondactsIn(entries))
         /\ Current \in CondactsIn(entries)
         /\ IsCondact(Current) /\ HasPitch(Current)
<1>1. /\ entries \in Seq(Seq(CondactsIn(entries)))
      /\ \A k \in CondactsIn(entries) : IsCondact(k)
      /\ e \in Nat \ {0} /\ c \in Nat \ {0}
      /\ e <= Len(entries) /\ c <= Len(entries[e])
  BY DEF IndInv, Lists, Cursor, AtCondact
<1> DEFINE S == CondactsIn(entries)
<1> HIDE DEF S
<1>2. entries \in Seq(Seq(S))
  BY <1>1 DEF S
<1>3. e \in 1..Len(entries)
  BY <1>1, <1>2, LenProperties
<1>4. entries[e] \in Seq(S)
  BY <1>2, <1>3, ElementOfSeq
<1>5. c \in 1..Len(entries[e]) /\ c \in DOMAIN entries[e]
  BY <1>1, <1>4, LenProperties
<1>6. Current \in S
  BY <1>4, <1>5, ElementOfSeq DEF Current
<1>7. IsCondact(Current)
  BY <1>1, <1>6 DEF S
<1>8. HasPitch(Current)
  <2>1. ~Passed(e, c)
    BY <1>1 DEF Passed
  <2>2. e \in DOMAIN entries
    BY <1>2, <1>3, LenProperties
  <2>3. QED
    BY <1>5, <2>1, <2>2, Zenon DEF IndInv, Pitches, Current
<1>9. QED
  BY <1>1, <1>3, <1>4, <1>5, <1>6, <1>7, <1>8 DEF S

(* A step that gives the entry it stands in a new list of condacts.        *)
LEMMA NewEntry ==
  ASSUME IndInv, AtCondact, NEW S, CondactsIn(entries) \subseteq S,
         NEW r \in Seq(S), entries' = [entries EXCEPT ![e] = r],
         job' = job, e' = e, status' = status, c' \in 1 .. Len(r) + 1,
         \A i \in 1..Len(r) : IsCondact(r[i]),
         Ordered(r, Len(job.entries[e])),
         \A i \in 1..Len(r) : IF i < c' THEN Audible(r[i]) ELSE HasPitch(r[i])
  PROVE  IndInv'
<1>1. /\ IsJob(job) /\ status = "running"
      /\ Len(entries) = Len(job.entries)
      /\ \A k \in CondactsIn(entries) : IsCondact(k)
  BY DEF IndInv, Lists, AtCondact
<1>2. /\ entries \in Seq(Seq(CondactsIn(entries)))
      /\ e \in 1..Len(entries)
  BY CurrentCondact
<1>3. /\ entries \in Seq(Seq(S)) /\ Len(r) \in Nat /\ DOMAIN r = 1..Len(r)
      /\ DOMAIN entries = 1..Len(entries) /\ Len(entries) \in Nat
  BY <1>2, LenProperties
<1>4. /\ entries' \in Seq(Seq(S)) /\ Len(entries') = Len(entries)
      /\ DOMAIN entries' = DOMAIN entries
      /\ \A f \in 1..Len(entries) : entries'[f] = IF f = e THEN r ELSE entries[f]
  <2>1. /\ entries' \in Seq(Seq(S)) /\ Len(entries') = Len(entries)
        /\ \A f \in 1..Len(entries) : entries'[f] = IF f = e THEN r ELSE entries[f]
    BY <1>2, <1>3, Replaced
  <2>2. QED
    BY <1>3, <2>1, LenProperties
<1>5. \A k \in CondactsIn(entries') : IsCondact(k)
  <2> SUFFICES ASSUME NEW f \in DOMAIN entries', NEW i \in DOMAIN entries'[f]
               PROVE  IsCondact(entries'[f][i])
    BY DEF CondactsIn
  <2>1. CASE f = e
    BY <1>3, <1>4, <2>1
  <2>2. CASE f # e
    <3>1. entries'[f] = entries[f] /\ f \in DOMAIN entries
      BY <1>3, <1>4, <2>2
    <3>2. entries[f][i] \in CondactsIn(entries)
      BY <3>1, HeldIn
    <3>3. QED
      BY <1>1, <3>1, <3>2
  <2>3. QED
    BY <2>1, <2>2
<1>6. Lists'
  <2>1. entries' \in Seq(Seq(CondactsIn(entries')))
    BY <1>4, OwnElements
  <2>2. Len(entries') = Len(job'.entries) /\ IsJob(job')
    BY <1>1, <1>4
  <2>3. CondactsIn(entries)' = CondactsIn(entries')
    BY DEF CondactsIn
  <2>4. IsJob(job)' <=> IsJob(job')
    BY DEF IsJob
  <2>5. QED
    BY <1>5, <2>1, <2>2, <2>3, <2>4, Zenon DEF Lists
<1>7. Cursor'
  <2>1. entries'[e] = r
    BY <1>2, <1>4
  <2>2. QED
    BY <1>1, <1>2, <1>3, <1>4, <2>1 DEF Cursor
<1>8. Orders'
  <2> SUFFICES ASSUME NEW f \in DOMAIN entries'
               PROVE  Ordered(entries'[f], Len(job.entries[f]))
    BY DEF Orders, Ordered
  <2>1. CASE f = e
    BY <1>3, <1>4, <2>1
  <2>2. CASE f # e
    BY <1>3, <1>4, <2>2, Zenon DEF IndInv, Orders
  <2>3. QED
    BY <2>1, <2>2
<1>9. Pitches'
  <2>1. ASSUME NEW f \in DOMAIN entries', NEW i \in DOMAIN entries'[f]
        PROVE  IF f < e \/ (f = e /\ i < c') THEN Audible(entries'[f][i])
               ELSE HasPitch(entries'[f][i])
    <3>1. CASE f = e
      BY <1>2, <1>3, <1>4, <2>1, <3>1
    <3>2. CASE f # e
      <4>1. entries'[f] = entries[f] /\ f \in DOMAIN entries
        BY <1>3, <1>4, <2>1, <3>2
      <4>2. IF Passed(f, i) THEN Audible(entries[f][i]) ELSE HasPitch(entries[f][i])
        BY <2>1, <4>1, Zenon DEF IndInv, Pitches
      <4>3. QED
        BY <3>2, <4>1, <4>2 DEF Passed
    <3>3. QED
      BY <3>1, <3>2
  <2>3. \A f, i : Passed(f, i)' <=> f < e \/ (f = e /\ i < c')
    BY DEF Passed
  <2>4. ASSUME NEW f \in DOMAIN entries', NEW i \in DOMAIN entries'[f]
        PROVE  (IF Passed(f, i) THEN Audible(entries[f][i])
                ELSE HasPitch(entries[f][i]))'
    <3>1. Passed(f, i)' <=> f < e \/ (f = e /\ i < c')
      BY <2>3
    <3>2. (Audible(entries[f][i]))' <=> Audible(entries'[f][i])
      BY DEF Audible
    <3>3. (HasPitch(entries[f][i]))' <=> HasPitch(entries'[f][i])
      BY DEF HasPitch
    <3>4. QED
      BY <2>1, <3>1, <3>2, <3>3, Zenon
  <2>5. QED
    BY <2>4, Zenon DEF Pitches
<1>10. QED
  BY <1>6, <1>7, <1>8, <1>9 DEF IndInv

(* A condact rewritten in place, and left behind.                          *)
LEMMA RewriteKeeps ==
  ASSUME IndInv, AtCondact, NEW k, Rewrite(k),
         IsCondact(k), k.src = Current.src, Audible(k)
  PROVE  IndInv'
<1> DEFINE S == CondactsIn(entries) \cup {k}
           s == entries[e]
           r == [s EXCEPT ![c] = k]
<1>1. /\ entries \in Seq(Seq(CondactsIn(entries)))
      /\ e \in 1..Len(entries) /\ c \in 1..Len(s)
      /\ s \in Seq(CondactsIn(entries))
      /\ Current = s[c]
  BY CurrentCondact DEF Current
<1>2. s \in Seq(S) /\ k \in S /\ CondactsIn(entries) \subseteq S
  BY <1>1, SeqOfMore
<1>3. /\ entries' = [entries EXCEPT ![e] = r] /\ c' = c + 1
      /\ job' = job /\ e' = e /\ status' = status
  BY DEF Rewrite
<1>4. Len(s) \in Nat /\ DOMAIN s = 1..Len(s) /\ DOMAIN entries = 1..Len(entries)
  BY <1>1, LenProperties
<1>5. \A i \in 1..Len(s) :
        /\ IsCondact(s[i])
        /\ IF i < c THEN Audible(s[i]) ELSE HasPitch(s[i])
  <2> SUFFICES ASSUME NEW i \in 1..Len(s)
               PROVE  /\ IsCondact(s[i])
                      /\ IF i < c THEN Audible(s[i]) ELSE HasPitch(s[i])
    OBVIOUS
  <2>1. s[i] \in CondactsIn(entries)
    BY <1>1, <1>4, HeldIn
  <2>2. IF Passed(e, i) THEN Audible(s[i]) ELSE HasPitch(s[i])
    BY <1>1, <1>4, Zenon DEF IndInv, Pitches
  <2>3. Passed(e, i) <=> i < c
    BY <1>1 DEF Passed
  <2>4. QED
    BY <2>1, <2>2, <2>3, Zenon DEF IndInv, Lists
<1>6. Ordered(s, Len(job.entries[e]))
  BY <1>1, <1>4, Zenon DEF IndInv, Orders
<1> HIDE DEF S, s
<1>7. /\ r \in Seq(S) /\ Len(r) = Len(s)
      /\ \A i \in 1..Len(s) : r[i] = IF i = c THEN k ELSE s[i]
  BY <1>1, <1>2, Replaced
<1> HIDE DEF r
<1>8. DOMAIN r = 1..Len(s)
  BY <1>7, LenProperties
<1>9. Ordered(r, Len(job.entries[e]))
  <2>1. \A i \in 1..Len(s) : r[i].src = s[i].src
    BY <1>1, <1>7
  <2>2. {r[i].src : i \in 1..Len(s)} = {s[i].src : i \in 1..Len(s)}
    BY <2>1
  <2>3. QED
    BY <1>4, <1>6, <1>8, <2>1, <2>2 DEF Ordered
<1>10. /\ c' \in 1 .. Len(r) + 1
       /\ \A i \in 1..Len(r) : IsCondact(r[i])
       /\ \A i \in 1..Len(r) : IF i < c' THEN Audible(r[i]) ELSE HasPitch(r[i])
  <2>1. c' \in 1 .. Len(r) + 1
    BY <1>1, <1>3, <1>4, <1>7
  <2>2. ASSUME NEW i \in 1..Len(r)
        PROVE  /\ IsCondact(r[i])
               /\ IF i < c' THEN Audible(r[i]) ELSE HasPitch(r[i])
    <3>1. CASE i = c
      <4>1. r[i] = k /\ i < c'
        BY <1>1, <1>3, <1>7, <3>1
      <4>2. QED
        BY <4>1
    <3>2. CASE i # c
      <4>1. i \in 1..Len(s) /\ r[i] = s[i] /\ (i < c' <=> i < c)
        BY <1>1, <1>3, <1>4, <1>7, <2>2, <3>2
      <4>2. QED
        BY <1>5, <4>1
    <3>3. QED
      BY <3>1, <3>2
  <2>3. QED
    BY <2>1, <2>2
<1>11. QED
  BY <1>2, <1>3, <1>7, <1>9, <1>10, NewEntry

(* A condact replaced by a chain that is visited next.                     *)
LEMMA SpliceKeeps ==
  ASSUME IndInv, AtCondact, NEW T, NEW chain \in Seq(T), Len(chain) > 0, Splice(chain),
         \A i \in 1..Len(chain) :
           IsCondact(chain[i]) /\ chain[i].src = Current.src /\ HasPitch(chain[i])
  PROVE  IndInv'
<1> DEFINE S == CondactsIn(entries) \cup T
           s == entries[e]
           r == SubSeq(s, 1, c - 1) \o chain \o SubSeq(s, c + 1, Len(s))
           m == Len(chain)
<1>1. /\ entries \in Seq(Seq(CondactsIn(entries)))
      /\ e \in 1..Len(entries) /\ c \in 1..Len(s)
      /\ s \in Seq(CondactsIn(entries))
      /\ Current = s[c]
  BY CurrentCondact DEF Current
<1>2. s \in Seq(S) /\ chain \in Seq(S) /\ CondactsIn(entries) \subseteq S
  BY <1>1, SeqOfMore
<1>3. /\ entries' = [entries EXCEPT ![e] = r] /\ c' = c
      /\ job' = job /\ e' = e /\ status' = status
  BY DEF Splice
<1>4. /\ Len(s) \in Nat /\ DOMAIN s = 1..Len(s) /\ DOMAIN entries = 1..Len(entries)
      /\ m \in Nat \ {0} /\ c \in Nat
  BY <1>1, LenProperties
<1>5. \A i \in 1..Len(s) :
        /\ IsCondact(s[i])
        /\ IF i < c THEN Audible(s[i]) ELSE HasPitch(s[i])
  <2> SUFFICES ASSUME NEW i \in 1..Len(s)
               PROVE  /\ IsCondact(s[i])
                      /\ IF i < c THEN Audible(s[i]) ELSE HasPitch(s[i])
    OBVIOUS
  <2>1. s[i] \in CondactsIn(entries)
    BY <1>1, <1>4, HeldIn
  <2>2. IF Passed(e, i) THEN Audible(s[i]) ELSE HasPitch(s[i])
    BY <1>1, <1>4, Zenon DEF IndInv, Pitches
  <2>3. Passed(e, i) <=> i < c
    BY <1>1 DEF Passed
  <2>4. QED
    BY <2>1, <2>2, <2>3, Zenon DEF IndInv, Lists
<1>6. Ordered(s, Len(job.entries[e]))
  BY <1>1, <1>4, Zenon DEF IndInv, Orders
<1> HIDE DEF S, s
<1>7. /\ r \in Seq(S)
      /\ Len(r) = Len(s) + m - 1
      /\ \A k \in 1 .. c - 1 : r[k] = s[k]
      /\ \A k \in 1..m : r[c - 1 + k] = chain[k]
      /\ \A k \in c + 1 .. Len(s) : r[k - 1 + m] = s[k]
  <2>1. s \in Seq(S) /\ chain \in Seq(S) /\ c \in 1..Len(s)
    BY <1>1, <1>2
  <2>2. r = SplicedIn(s, c, chain)
    BY DEF SplicedIn
  <2> HIDE DEF r
  <2> DEFINE new == SplicedIn(s, c, chain)
  <2>3. new \in Seq(S)
    BY <2>1, Spliced
  <2>4. Len(new) = Len(s) + Len(chain) - 1
    BY <2>1, Spliced
  <2>5. \A k \in 1 .. c - 1 : new[k] = s[k]
    BY <2>1, Spliced
  <2>6. \A k \in 1..Len(chain) : new[c - 1 + k] = chain[k]
    BY <2>1, Spliced
  <2>7. \A k \in c + 1 .. Len(s) : new[k - 1 + Len(chain)] = s[k]
    BY <2>1, Spliced
  <2>8. QED
    BY <2>2, <2>3, <2>4, <2>5, <2>6, <2>7, Zenon DEF m
<1> HIDE DEF r, m
<1>8. DOMAIN r = 1..Len(r) /\ Len(r) \in Nat
  BY <1>7, LenProperties
(* Where each element of the new list comes from.                          *)
<1> DEFINE old(i) == IF i < c THEN i ELSE IF i < c + m THEN c ELSE i + 1 - m
<1>9. ASSUME NEW i \in 1..Len(r)
      PROVE  /\ old(i) \in 1..Len(s) /\ r[i].src = s[old(i)].src
             /\ IsCondact(r[i])
             /\ IF i < c THEN Audible(r[i]) ELSE HasPitch(r[i])
  <2>1. CASE i < c
    <3>1. i \in 1 .. c - 1 /\ i \in 1..Len(s) /\ old(i) = i
      BY <1>1, <1>4, <2>1
    <3>2. r[i] = s[i]
      BY <1>7, <3>1
    <3>3. QED
      BY <1>5, <2>1, <3>1, <3>2
  <2>2. CASE i >= c /\ i < c + m
    <3> DEFINE k == i + 1 - c
    <3>1. k \in 1..m /\ c - 1 + k = i /\ old(i) = c /\ ~(i < c)
      BY <1>1, <1>4, <2>2
    <3> HIDE DEF k
    <3>2. r[i] = chain[k]
      BY <1>7, <3>1
    <3>3. chain[k].src = s[c].src /\ IsCondact(chain[k]) /\ HasPitch(chain[k])
      BY <1>1, <3>1 DEF m
    <3>4. QED
      BY <1>1, <3>1, <3>2, <3>3
  <2>3. CASE i >= c + m
    <3> DEFINE k == i + 1 - m
    <3>1. /\ k \in c + 1 .. Len(s) /\ k \in 1..Len(s) /\ k - 1 + m = i
          /\ old(i) = k /\ ~(i < c) /\ ~(k < c)
      BY <1>1, <1>4, <1>7, <2>3
    <3> HIDE DEF k
    <3>2. r[i] = s[k]
      BY <1>7, <3>1
    <3>3. QED
      BY <1>5, <3>1, <3>2
  <2>4. QED
    BY <1>4, <2>1, <2>2, <2>3
<1>10. Ordered(r, Len(job.entries[e]))
  <2> DEFINE n == Len(job.entries[e])
  <2>1. /\ {s[i].src : i \in 1..Len(s)} = 1..n
        /\ \A i, j \in 1..Len(s) : i <= j => s[i].src <= s[j].src
    BY <1>4, <1>6 DEF Ordered
  <2>2. \A i, j \in 1..Len(r) : i <= j => old(i) <= old(j)
    BY <1>4, <1>8
  <2>3. \A j \in 1..Len(s) : \E i \in 1..Len(r) : old(i) = j
    <3> SUFFICES ASSUME NEW j \in 1..Len(s) PROVE \E i \in 1..Len(r) : old(i) = j
      OBVIOUS
    <3>1. CASE j <= c
      <4>1. j \in 1..Len(r) /\ old(j) = j
        BY <1>1, <1>4, <1>7, <3>1
      <4>2. QED
        BY <4>1
    <3>2. CASE j > c
      <4>1. j - 1 + m \in 1..Len(r) /\ old(j - 1 + m) = j
        BY <1>1, <1>4, <1>7, <3>2
      <4>2. QED
        BY <4>1
    <3>3. QED
      BY <1>4, <3>1, <3>2
  <2> HIDE DEF old, n
  <2>4. {r[i].src : i \in 1..Len(r)} = {s[j].src : j \in 1..Len(s)}
    <3>1. \A i \in 1..Len(r) : old(i) \in 1..Len(s) /\ r[i].src = s[old(i)].src
      BY <1>9
    <3>2. ASSUME NEW j \in 1..Len(s) PROVE \E i \in 1..Len(r) : r[i].src = s[j].src
      <4>1. PICK i \in 1..Len(r) : old(i) = j
        BY <2>3
      <4>2. QED
        BY <3>1, <4>1
    <3> DEFINE new == {r[i].src : i \in 1..Len(r)}
               before == {s[j].src : j \in 1..Len(s)}
    <3>3. new \subseteq before
      BY <3>1
    <3>4. before \subseteq new
      BY <3>2
    <3>5. QED
      BY <3>3, <3>4
  <2>5. \A i, j \in 1..Len(r) : i <= j => r[i].src <= r[j].src
    BY <1>9, <2>1, <2>2
  <2>6. QED
    BY <1>8, <2>1, <2>4, <2>5 DEF Ordered, n
<1>11. c' \in 1 .. Len(r) + 1
  BY <1>1, <1>3, <1>4, <1>7
<1>12. QED
  BY <1>2, <1>3, <1>7, <1>9, <1>10, <1>11, NewEntry DEF r

-----------------------------------------------------------------------------
(* Tunes.                                                                  *)

VALUES == [octave : Int, volume : Int, length : Int, tempo : Int]

(* The values stay numbers.                                                *)
LEMMA NoteValuesTyped ==
  ASSUME NEW note \in NOTE, NEW values \in VALUES
  PROVE  NoteValues(note, values) \in VALUES
<1>1. note.cmd \in Commands /\ note.num \in Int
  BY DEF NOTE
<1> DEFINE w == [values EXCEPT !.octave = values.octave - 1]
           x == [values EXCEPT !.octave = values.octave + 1]
<1>2. /\ [values EXCEPT !.length = note.num] \in VALUES
      /\ [values EXCEPT !.octave = note.num] \in VALUES
      /\ [values EXCEPT !.tempo = note.num % 256] \in VALUES
      /\ [values EXCEPT !.volume = note.num % 16] \in VALUES
      /\ w \in VALUES /\ x \in VALUES
  BY <1>1 DEF VALUES
<1>3. QED
  BY <1>1, <1>2 DEF NoteValues, Commands

(* The values before a note are those before the last one, as that left    *)
(* them.                                                                   *)
LEMMA ValuesSteps ==
  ASSUME NEW notes \in Seq(NOTE)
  PROVE  /\ ValuesBefore(notes)[1] = InitialValues
         /\ \A i \in 1..Len(notes) :
              ValuesBefore(notes)[i + 1] = NoteValues(notes[i], ValuesBefore(notes)[i])
         /\ DOMAIN ValuesBefore(notes) = 1 .. Len(notes) + 1
         /\ ValuesBefore(notes)
              = [i \in 1 .. Len(notes) + 1 |->
                   IF i = 1 THEN InitialValues
                   ELSE NoteValues(notes[i - 1], ValuesBefore(notes)[i - 1])]
<1> DEFINE n == Len(notes)
           Value(i, v) == NoteValues(notes[i], v)
           step == [x \in (1..n) \X VALUES |-> Value(x[1], x[2])]
           Eq(f) == f = [i \in 1 .. n + 1 |-> IF i = 1 THEN InitialValues
                                              ELSE Value(i - 1, f[i - 1])]
           g == ValuesBefore(notes)
<1>1. n \in Nat /\ \A i \in 1..n : notes[i] \in NOTE
  BY LenProperties, ElementOfSeq
<1>2. InitialValues \in VALUES
  BY DEF InitialValues, VALUES
<1>3. \A i \in 1..n : \A v \in VALUES : Value(i, v) \in VALUES
  BY <1>1, NoteValuesTyped
<1>4. step \in [(1..n) \X VALUES -> VALUES]
  <2> HIDE DEF Value
  <2>1. QED
    BY <1>3
<1>5. \A i \in 1..n : \A v \in VALUES : step[<<i, v>>] = Value(i, v)
  <2> HIDE DEF Value
  <2>1. QED
    OBVIOUS
<1> HIDE DEF step
<1>6. PICK f \in [1 .. n + 1 -> VALUES] :
         /\ f[1] = InitialValues
         /\ \A i \in 1..n : f[i + 1] = step[<<i, f[i]>>]
  <2> HIDE DEF n
  <2>1. \E f : IsForward(f, n, VALUES, InitialValues, step)
    BY <1>1, <1>2, <1>4, ForwardRecursion, Zenon
  <2>2. QED
    BY <2>1 DEF IsForward
<1>7. \A i \in 1..n : f[i + 1] = Value(i, f[i])
  <2> HIDE DEF Value
  <2>1. \A i \in 1..n : f[i] \in VALUES
    BY <1>1, <1>6
  <2>2. QED
    BY <1>5, <1>6, <2>1
<1>8. Eq(f)
  <2> HIDE DEF Value
  <2>1. ASSUME NEW i \in 1 .. n + 1
        PROVE  f[i] = IF i = 1 THEN InitialValues ELSE Value(i - 1, f[i - 1])
    <3>1. CASE i = 1
      BY <1>6, <3>1
    <3>2. CASE i # 1
      <4>1. i - 1 \in 1..n /\ i - 1 + 1 = i
        BY <1>1, <3>2
      <4>2. f[i - 1 + 1] = Value(i - 1, f[i - 1])
        BY <1>7, <4>1
      <4>3. QED
        BY <3>2, <4>1, <4>2
    <3>3. QED
      BY <3>1, <3>2
  <2>2. QED
    BY <1>6, <2>1
<1>9. Eq(g)
  BY <1>8, Zenon DEF ValuesBefore
<1>10. g[1] = InitialValues /\ \A i \in 1..n : g[i + 1] = Value(i, g[i])
  <2> HIDE DEF Value, g
  <2>1. \A i \in 1 .. n + 1 : g[i] = IF i = 1 THEN InitialValues
                                     ELSE Value(i - 1, g[i - 1])
    BY <1>9, Zenon
  <2>2. ASSUME NEW i \in 1..n PROVE g[i + 1] = Value(i, g[i])
    <3>1. i + 1 \in 1 .. n + 1 /\ i + 1 # 1 /\ i + 1 - 1 = i
      BY <1>1
    <3>2. g[i + 1] = Value(i + 1 - 1, g[i + 1 - 1])
      BY <2>1, <3>1
    <3>3. QED
      BY <3>1, <3>2
  <2>3. 1 \in 1 .. n + 1
    BY <1>1
  <2>4. QED
    BY <2>1, <2>2, <2>3
<1>11. DOMAIN g = 1 .. n + 1
  <2> HIDE DEF Value, g
  <2>1. QED
    BY <1>9, Zenon
<1>12. QED
  BY <1>9, <1>10, <1>11, Zenon

(* There are values before every note of a tune.                           *)
LEMMA ValuesTyped ==
  ASSUME NEW notes \in Seq(NOTE)
  PROVE  ValuesBefore(notes) \in [1 .. Len(notes) + 1 -> VALUES]
<1> DEFINE n == Len(notes)
           Value(i, v) == NoteValues(notes[i], v)
           Eq(f) == f = [i \in 1 .. n + 1 |-> IF i = 1 THEN InitialValues
                                              ELSE Value(i - 1, f[i - 1])]
           g == ValuesBefore(notes)
<1>1. n \in Nat /\ \A i \in 1..n : notes[i] \in NOTE
  BY LenProperties, ElementOfSeq
<1>2. InitialValues \in VALUES
  BY DEF InitialValues, VALUES
<1>3. \A i \in 1..n : \A v \in VALUES : Value(i, v) \in VALUES
  BY <1>1, NoteValuesTyped
<1>9. Eq(g)
  BY ValuesSteps, Zenon
<1>10. g[1] = InitialValues /\ \A i \in 1..n : g[i + 1] = Value(i, g[i])
  BY ValuesSteps, Zenon
<1>11. ASSUME NEW m \in Nat, m + 1 <= n + 1 => g[m + 1] \in VALUES
       PROVE  m + 2 <= n + 1 => g[m + 2] \in VALUES
  <2> HIDE DEF Value, g
  <2> SUFFICES ASSUME m + 2 <= n + 1 PROVE g[m + 2] \in VALUES
    OBVIOUS
  <2>1. m + 1 \in 1..n /\ m + 1 + 1 = m + 2
    BY <1>1
  <2>2. g[m + 1 + 1] = Value(m + 1, g[m + 1]) /\ g[m + 1] \in VALUES
    BY <1>10, <1>11, <2>1
  <2>3. QED
    BY <1>3, <2>1, <2>2
<1>12. \A m \in Nat : m + 1 <= n + 1 => g[m + 1] \in VALUES
  <2> HIDE DEF g
  <2> DEFINE U == {m \in Nat : m + 1 <= n + 1 => g[m + 1] \in VALUES}
  <2>1. 0 \in U
    BY <1>2, <1>10
  <2>2. ASSUME NEW m \in U PROVE m + 1 \in U
    <3>1. m \in Nat /\ m + 1 \in Nat /\ m + 1 + 1 = m + 2
      OBVIOUS
    <3>2. m + 2 <= n + 1 => g[m + 2] \in VALUES
      BY <1>11, <2>2, <3>1
    <3>3. QED
      BY <3>1, <3>2
  <2>3. U \subseteq Nat
    OBVIOUS
  <2> HIDE DEF U
  <2>4. U = Nat
    BY <2>1, <2>2, <2>3, Induction
  <2>5. QED
    BY <2>4 DEF U
<1>13. \A i \in 1 .. n + 1 : g[i] \in VALUES
  <2> HIDE DEF g
  <2> SUFFICES ASSUME NEW i \in 1 .. n + 1 PROVE g[i] \in VALUES
    OBVIOUS
  <2>1. i - 1 \in Nat /\ i - 1 + 1 = i /\ i - 1 + 1 <= n + 1
    BY <1>1
  <2>2. QED
    BY <1>12, <2>1
<1>14. g = [i \in 1 .. n + 1 |-> g[i]]
  <2> HIDE DEF Value, g
  <2>1. DOMAIN g = 1 .. n + 1
    BY <1>9, Zenon
  <2> DEFINE h == [i \in 1 .. n + 1 |-> IF i = 1 THEN InitialValues
                                        ELSE Value(i - 1, g[i - 1])]
  <2>2. g = h
    BY <1>9, Zenon
  <2>3. h = [i \in 1 .. n + 1 |-> h[i]]
    OBVIOUS
  <2>4. QED
    BY <2>2, <2>3
<1>15. QED
  <2> HIDE DEF g
  <2>1. g \in [1 .. n + 1 -> VALUES]
    BY <1>13, <1>14
  <2>2. QED
    BY <2>1 DEF g

(* What a note can become: a beep, a rest or a change of volume.           *)
Lasting == {NoteDuration(t, l, d) : t \in Int, l \in Int, d \in Nat}
BeepAs(x, src) == New(BEEP, <<x[1], x[2]>>, x[3], src)
Beeps(src) == {BeepAs(x, src) : x \in Lasting \X Int \X BOOLEAN}
Rests(src) == {New(PAUSE, <<d>>, FALSE, src) : d \in Lasting \cup {1}}
Volumes(src) == {New(SFX, <<v, 8>>, FALSE, src) : v \in Int}
Sounds(src) == Beeps(src) \cup Rests(src) \cup Volumes(src)

(* What a tune makes are condacts that stand where the tune stood.         *)
LEMMA SoundsAreCondacts ==
  ASSUME NEW src \in Nat, NEW k \in Sounds(src)
  PROVE  IsCondact(k) /\ k.src = src /\ HasPitch(k)
<1>1. CASE k \in Beeps(src)
  <2>1. PICK x \in Lasting \X Int \X BOOLEAN : k = BeepAs(x, src)
    BY <1>1 DEF Beeps
  <2>2. x[2] \in Int /\ x[3] \in BOOLEAN
    BY <2>1
  <2>3. QED
    BY <2>1, <2>2 DEF BeepAs, New, IsCondact, HasPitch, BEEP
<1>2. CASE k \in Rests(src)
  <2>1. PICK d : k = New(PAUSE, <<d>>, FALSE, src)
    BY <1>2, Zenon DEF Rests
  <2>2. QED
    BY <2>1 DEF New, IsCondact, HasPitch, BEEP, PAUSE
<1>3. CASE k \in Volumes(src)
  <2>1. PICK v : k = New(SFX, <<v, 8>>, FALSE, src)
    BY <1>3, Zenon DEF Volumes
  <2>2. QED
    BY <2>1 DEF New, IsCondact, HasPitch, BEEP, SFX
<1>4. QED
  BY <1>1, <1>2, <1>3 DEF Sounds

(* A BEEP of a tune is one of its sounds.                                  *)
LEMMA BeepSounds ==
  ASSUME NEW d \in Lasting, NEW pitch \in Int, NEW adjusted \in BOOLEAN, NEW src
  PROVE  New(BEEP, <<d, pitch>>, adjusted, src) \in Sounds(src)
<1> DEFINE x == <<d, pitch, adjusted>>
<1>1. x \in Lasting \X Int \X BOOLEAN
  OBVIOUS
<1>2. BeepAs(x, src) = New(BEEP, <<d, pitch>>, adjusted, src)
  BY DEF BeepAs
<1>3. QED
  BY <1>1, <1>2, Zenon DEF Beeps, Sounds

(* Every note of a tune makes sounds, if anything.                         *)
LEMMA NoteSounds ==
  ASSUME IsJob(job), NEW note \in NOTE, NEW values \in VALUES, NEW src \in Nat
  PROVE  NoteCondacts(note, values, src) \in Seq(Sounds(src))
<1> DEFINE lasts(length) == NoteDuration(values.tempo, length, note.dots)
<1>1. /\ note.num \in Int /\ note.len \in Nat /\ note.dots \in Nat
      /\ values.octave \in Int /\ values.length \in Int /\ values.tempo \in Int
      /\ job.target.pitch \in Int
  BY DEF NOTE, VALUES, IsJob
<1>2. NoteLength(note, values) \in Int
  BY <1>1 DEF NoteLength
<1>3. \A length \in Int : lasts(length) \in Lasting
  BY <1>1 DEF Lasting
<1> HIDE DEF lasts
<1> DEFINE pitch == values.octave * 24 + note.num * 2 + job.target.pitch
           rest == lasts(NoteLength(note, values))
           a == New(BEEP, <<rest, pitch>>, TRUE, src)
           b == New(PAUSE, <<IF rest = 0 THEN 1 ELSE rest>>, FALSE, src)
           d == New(BEEP, <<lasts(values.length), 48 + note.num * 2>>, FALSE, src)
           v == New(SFX, <<note.num % 16, 8>>, FALSE, src)
<1>4. pitch \in Int /\ 48 + note.num * 2 \in Int /\ note.num % 16 \in Int
  BY <1>1
<1>5. rest \in Lasting /\ lasts(values.length) \in Lasting
  BY <1>1, <1>2, <1>3
<1> HIDE DEF pitch, rest
<1>6. a \in Sounds(src)
  BY <1>4, <1>5, BeepSounds
<1>7. b \in Sounds(src)
  <2>1. (IF rest = 0 THEN 1 ELSE rest) \in Lasting \cup {1}
    BY <1>5
  <2>2. QED
    BY <2>1, Zenon DEF Sounds, Rests
<1>8. d \in Sounds(src)
  BY <1>4, <1>5, BeepSounds
<1>9. v \in Sounds(src)
  BY <1>4, Zenon DEF Sounds, Volumes
<1>10. NoteCondacts(note, values, src) \in {<<a>>, <<b>>, <<d>>, <<v>>, <<>>}
  <2> HIDE DEF a, b, d, v
  <2>1. NoteCondacts(note, values, src) =
          CASE note.cmd = "note" -> <<a>>
            [] note.cmd = "R" -> <<b>>
            [] note.cmd = "N" -> <<d>>
            [] note.cmd = "V" /\ job.target.msx2 -> <<v>>
            [] OTHER -> <<>>
    BY DEF NoteCondacts, lasts, pitch, rest, a, b, d, v
  <2>2. QED
    BY <2>1
<1> HIDE DEF a, b, d, v
<1> DEFINE S == Sounds(src)
           chain == NoteCondacts(note, values, src)
<1>11. a \in S /\ b \in S /\ d \in S /\ v \in S
  BY <1>6, <1>7, <1>8, <1>9
<1> HIDE DEF S, chain
<1>12. <<a>> \in Seq(S) /\ <<b>> \in Seq(S) /\ <<d>> \in Seq(S) /\ <<v>> \in Seq(S)
  BY <1>11
<1>13. <<>> \in Seq(S)
  OBVIOUS
<1>14. chain = <<a>> \/ chain = <<b>> \/ chain = <<d>> \/ chain = <<v>> \/ chain = <<>>
  BY <1>10, Zenon DEF chain
<1>15. chain \in Seq(S)
  BY <1>12, <1>13, <1>14, Zenon
<1>16. QED
  BY <1>15 DEF chain, S

(* A tune from one of its notes on is what the note makes, then the rest.  *)
LEMMA TuneSteps ==
  ASSUME IsJob(job), NEW notes \in Seq(NOTE), NEW src \in Nat
  PROVE  /\ TuneFrom(notes, src)[Len(notes) + 1] = <<>>
         /\ \A i \in 1..Len(notes) :
              TuneFrom(notes, src)[i]
                = NoteCondacts(notes[i], ValuesBefore(notes)[i], src) \o TuneFrom(notes, src)[i + 1]
<1> DEFINE n == Len(notes)
           S == Seq(Sounds(src))
           values == ValuesBefore(notes)
           Value(i, rest) == NoteCondacts(notes[i], values[i], src) \o rest
           step == [x \in (1..n) \X S |-> Value(x[1], x[2])]
           Eq(f) == f = [i \in 1 .. n + 1 |-> IF i > n THEN <<>>
                                              ELSE Value(i, f[i + 1])]
           g == TuneFrom(notes, src)
<1>1. n \in Nat /\ \A i \in 1..n : notes[i] \in NOTE
  BY LenProperties, ElementOfSeq
<1>2. \A i \in 1..n : values[i] \in VALUES
  <2>1. values \in [1 .. n + 1 -> VALUES]
    BY ValuesTyped
  <2> HIDE DEF values
  <2>2. QED
    BY <1>1, <2>1
<1>3. \A i \in 1..n : \A rest \in S : Value(i, rest) \in S
  <2> SUFFICES ASSUME NEW i \in 1..n, NEW rest \in S PROVE Value(i, rest) \in S
    OBVIOUS
  <2>1. NoteCondacts(notes[i], values[i], src) \in S
    <3> HIDE DEF values
    <3>1. QED
      BY <1>1, <1>2, NoteSounds
  <2>2. QED
    BY <2>1, ConcatProperties
<1>4. step \in [(1..n) \X S -> S]
  <2> HIDE DEF Value
  <2>1. QED
    BY <1>3
<1>5. \A i \in 1..n : \A rest \in S : step[<<i, rest>>] = Value(i, rest)
  <2> HIDE DEF Value
  <2>1. QED
    OBVIOUS
<1> HIDE DEF step
<1>6. PICK f \in [1 .. n + 1 -> S] :
         /\ f[n + 1] = <<>>
         /\ \A i \in 1..n : f[i] = step[<<i, f[i + 1]>>]
  <2>1. <<>> \in S
    OBVIOUS
  <2> HIDE DEF n, S
  <2>2. \E f : IsBackward(f, n, S, <<>>, step)
    BY <1>1, <1>4, <2>1, BackwardRecursion, Zenon
  <2>3. QED
    BY <2>2 DEF IsBackward
<1>7. \A i \in 1..n : f[i] = Value(i, f[i + 1])
  <2> HIDE DEF Value
  <2>1. \A i \in 1..n : f[i + 1] \in S
    BY <1>1, <1>6
  <2>2. QED
    BY <1>5, <1>6, <2>1
<1>8. Eq(f)
  <2> HIDE DEF Value
  <2>1. ASSUME NEW i \in 1 .. n + 1
        PROVE  f[i] = IF i > n THEN <<>> ELSE Value(i, f[i + 1])
    <3>1. CASE i = n + 1
      BY <1>1, <1>6, <3>1
    <3>2. CASE i # n + 1
      BY <1>1, <1>7, <3>2
    <3>3. QED
      BY <3>1, <3>2
  <2>2. QED
    BY <1>6, <2>1
<1>9. Eq(g)
  BY <1>8, Zenon DEF TuneFrom
<1>10. /\ g[n + 1] = <<>>
       /\ \A i \in 1..n : g[i] = Value(i, g[i + 1])
  <2> HIDE DEF Value, g
  <2>1. \A i \in 1 .. n + 1 : g[i] = IF i > n THEN <<>> ELSE Value(i, g[i + 1])
    BY <1>9, Zenon
  <2>2. QED
    BY <1>1, <2>1, SMTT(30)
<1>11. QED
  BY <1>10, Zenon

(* A whole tune is a list of sounds: induction from its last note.         *)
LEMMA TuneSounds ==
  ASSUME IsJob(job), NEW notes \in Seq(NOTE), NEW src \in Nat
  PROVE  Tune(notes, src) \in Seq(Sounds(src))
<1> DEFINE n == Len(notes)
           S == Seq(Sounds(src))
           values == ValuesBefore(notes)
           Value(i, rest) == NoteCondacts(notes[i], values[i], src) \o rest
           g == TuneFrom(notes, src)
<1>1. n \in Nat /\ \A i \in 1..n : notes[i] \in NOTE
  BY LenProperties, ElementOfSeq
<1>2. \A i \in 1..n : values[i] \in VALUES
  <2>1. values \in [1 .. n + 1 -> VALUES]
    BY ValuesTyped
  <2> HIDE DEF values
  <2>2. QED
    BY <1>1, <2>1
<1>3. \A i \in 1..n : \A rest \in S : Value(i, rest) \in S
  <2> SUFFICES ASSUME NEW i \in 1..n, NEW rest \in S PROVE Value(i, rest) \in S
    OBVIOUS
  <2>1. NoteCondacts(notes[i], values[i], src) \in S
    <3> HIDE DEF values
    <3>1. QED
      BY <1>1, <1>2, NoteSounds
  <2>2. QED
    BY <2>1, ConcatProperties
<1>10. /\ g[n + 1] = <<>>
       /\ \A i \in 1..n : g[i] = Value(i, g[i + 1])
  BY TuneSteps, Zenon
<1>11. g[1] \in S
  <2> HIDE DEF Value, g, S
  <2> DEFINE U == {m \in Nat : m <= n => g[n + 1 - m] \in S}
  <2>1. 0 \in U
    <3>1. n + 1 - 0 = n + 1 /\ <<>> \in S
      BY <1>1 DEF S
    <3>2. QED
      BY <1>10, <3>1
  <2>2. ASSUME NEW m \in U PROVE m + 1 \in U
    <3> SUFFICES ASSUME m + 1 <= n PROVE g[n + 1 - (m + 1)] \in S
      BY <2>2
    <3>1. n - m \in 1..n /\ n + 1 - (m + 1) = n - m /\ n - m + 1 = n + 1 - m
      BY <1>1, <2>2
    <3>2. g[n + 1 - m] \in S
      BY <1>1, <2>2
    <3>3. g[n - m] = Value(n - m, g[n - m + 1])
      BY <1>10, <3>1
    <3>4. QED
      BY <1>3, <3>1, <3>2, <3>3
  <2>3. U = Nat
    <3>1. U \subseteq Nat
      OBVIOUS
    <3> HIDE DEF U
    <3>2. QED
      BY <2>1, <2>2, <3>1, Induction
  <2>4. n \in U /\ n + 1 - n = 1
    BY <1>1, <2>3
  <2>5. QED
    BY <2>4
<1>12. QED
  BY <1>11 DEF Tune

(* The LETs of an XDATA.                                                   *)
LEMMA LetsAreCondacts ==
  ASSUME NEW x \in Seq(Int), Len(x) >= 2, NEW src \in Nat
  PROVE  /\ \E T : Lets(x, src) \in Seq(T)
         /\ Len(Lets(x, src)) > 0
         /\ \A i \in 1..Len(Lets(x, src)) :
              /\ IsCondact(Lets(x, src)[i])
              /\ Lets(x, src)[i].src = src
              /\ HasPitch(Lets(x, src)[i])
<1> DEFINE n == Len(x) - 1
           let(i) == New(LET_, <<x[1] + i - 1, x[i + 1]>>, FALSE, src)
           T == {let(i) : i \in 1..n}
<1>1. n \in Nat /\ n > 0
  BY LenProperties
<1>2. Lets(x, src) = [i \in 1..n |-> let(i)]
  BY DEF Lets
<1> HIDE DEF n
<1>3. /\ Lets(x, src) \in Seq(T) /\ Len(Lets(x, src)) = n
      /\ \A i \in 1..n : Lets(x, src)[i] = let(i)
  <2> HIDE DEF let
  <2>1. QED
    BY <1>1, <1>2, SMTT(30)
<1>4. \A i \in 1..n : IsCondact(let(i)) /\ let(i).src = src /\ HasPitch(let(i))
  BY DEF New, IsCondact, HasPitch, LET_, BEEP
<1> HIDE DEF let, T
<1>5. QED
  BY <1>1, <1>3, <1>4

-----------------------------------------------------------------------------
(* Every arm keeps the invariant.                                          *)

(* The invariant holds at the start.                                       *)
LEMMA IndInvInit == Init => IndInv
<1> SUFFICES ASSUME Init PROVE IndInv
  OBVIOUS
<1>1. /\ IsJob(job) /\ entries = job.entries /\ e = 1 /\ c = 1 /\ status = "running"
      /\ entries \in Seq(Seq(CONDACT))
  BY JobsAssumption DEF Init, IsJob
<1>2. /\ Len(entries) \in Nat /\ DOMAIN entries = 1..Len(entries)
      /\ entries \in Seq(Seq(CondactsIn(entries)))
  BY <1>1, LenProperties, OwnElements
<1>3. ASSUME NEW f \in DOMAIN entries
      PROVE  /\ entries[f] \in Seq(CONDACT) /\ Len(entries[f]) \in Nat
             /\ DOMAIN entries[f] = 1..Len(entries[f])
             /\ \A i \in 1..Len(entries[f]) :
                  /\ entries[f][i] \in CONDACT /\ entries[f][i].src = i
                  /\ HasPitch(entries[f][i])
  <2>1. entries[f] \in Seq(CONDACT)
    BY <1>1, <1>2, <1>3, ElementOfSeq
  <2>2. Len(entries[f]) \in Nat /\ DOMAIN entries[f] = 1..Len(entries[f])
    BY <2>1, LenProperties
  <2>3. ASSUME NEW i \in 1..Len(entries[f])
        PROVE  /\ entries[f][i] \in CONDACT /\ entries[f][i].src = i
               /\ HasPitch(entries[f][i])
    <3> DEFINE k == entries[f][i]
    <3>1. k \in CONDACT
      BY <2>1, <2>2, ElementOfSeq
    <3>2. /\ k.src = i
          /\ k.Opcode = BEEP => Len(k.Params) = 2
      BY <1>1, <1>3, <2>2 DEF IsJob
    <3> HIDE DEF k
    <3>3. k.Params \in Seq(Int)
      BY <3>1 DEF CONDACT
    <3>4. HasPitch(k)
      BY <3>2, <3>3 DEF HasPitch
    <3>5. QED
      BY <3>1, <3>2, <3>4 DEF k
  <2>4. QED
    BY <2>1, <2>2, <2>3
<1>4. Lists
  <2>1. ASSUME NEW k \in CondactsIn(entries) PROVE IsCondact(k)
    <3>1. PICK f \in DOMAIN entries : \E i \in DOMAIN entries[f] : k = entries[f][i]
      BY <2>1 DEF CondactsIn
    <3>2. k \in CONDACT
      BY <1>3, <3>1
    <3>3. QED
      BY <3>2 DEF CONDACT, IsCondact
  <2>2. QED
    BY <1>1, <1>2, <2>1 DEF Lists
<1>5. Cursor
  <2>1. e <= Len(entries) => c <= Len(entries[e]) + 1
    <3> SUFFICES ASSUME e <= Len(entries) PROVE c <= Len(entries[e]) + 1
      OBVIOUS
    <3>1. 1 \in DOMAIN entries /\ e = 1 /\ c = 1
      BY <1>1, <1>2
    <3>2. Len(entries[1]) \in Nat
      BY <1>3, <3>1
    <3>3. QED
      BY <3>1, <3>2
  <2>2. QED
    BY <1>1, <2>1 DEF Cursor
<1>6. Orders
  <2> SUFFICES ASSUME NEW f \in DOMAIN entries
               PROVE  Ordered(entries[f], Len(job.entries[f]))
    BY DEF Orders
  <2>1. /\ DOMAIN entries[f] = 1..Len(entries[f])
        /\ \A i \in 1..Len(entries[f]) : entries[f][i].src = i
    BY <1>3
  <2>2. {entries[f][i].src : i \in 1..Len(entries[f])} = 1..Len(entries[f])
    BY <2>1
  <2>3. QED
    BY <1>1, <2>1, <2>2 DEF Ordered
<1>7. Pitches
  <2> SUFFICES ASSUME NEW f \in DOMAIN entries, NEW i \in DOMAIN entries[f]
               PROVE  ~Passed(f, i) /\ HasPitch(entries[f][i])
    BY DEF Pitches
  <2>1. i \in 1..Len(entries[f]) /\ HasPitch(entries[f][i])
    BY <1>3
  <2>2. f \in Nat /\ f >= 1 /\ i \in Nat /\ i >= 1
    BY <1>2, <1>3
  <2>3. QED
    BY <1>1, <2>1, <2>2 DEF Passed
<1>8. QED
  BY <1>4, <1>5, <1>6, <1>7 DEF IndInv

(* A duration is adjusted in place, and once.                              *)
LEMMA AdjustedKeepsPlace ==
  ASSUME NEW k, IsCondact(k), HasPitch(k)
  PROVE  /\ IsCondact(AdjustedOnce(k)) /\ AdjustedOnce(k).src = k.src
         /\ AdjustedOnce(k).Opcode = k.Opcode
         /\ k.Opcode = BEEP => /\ DOMAIN AdjustedOnce(k).Params = 1..2
                               /\ AdjustedOnce(k).Params[2] = k.Params[2]
                               /\ k.Params[2] \in Int
<1>1. CASE k.DurationAdjusted
  BY <1>1 DEF AdjustedOnce, HasPitch
<1>2. CASE ~k.DurationAdjusted
  <2> DEFINE d == Adjusted(k.Params[1])
             q == [k.Params EXCEPT ![1] = d]
             r == [k EXCEPT !.DurationAdjusted = TRUE, !.Params = q]
  <2>1. AdjustedOnce(k) = r
    BY <1>2 DEF AdjustedOnce
  <2>2. DOMAIN q = DOMAIN k.Params
    OBVIOUS
  <2>3. k.Opcode = BEEP => q[2] = k.Params[2] /\ k.Params[2] \in Int /\ DOMAIN q = 1..2
    <3> SUFFICES ASSUME k.Opcode = BEEP
                 PROVE  q[2] = k.Params[2] /\ k.Params[2] \in Int /\ DOMAIN q = 1..2
      OBVIOUS
    <3>1. DOMAIN k.Params = 1..2 /\ k.Params[2] \in Int /\ 2 \in 1..2
      BY DEF HasPitch
    <3>2. QED
      BY <2>2, <3>1
  <2> HIDE DEF q
  <2>4. /\ IsCondact(r) /\ r.src = k.src /\ r.Opcode = k.Opcode /\ r.Params = q
    BY DEF IsCondact
  <2>5. QED
    BY <2>1, <2>3, <2>4
<1>3. QED
  BY <1>1, <1>2 DEF IsCondact

(* What the arms make of a condact that is no BEEP.                        *)
LEMMA Renamed ==
  ASSUME NEW k, IsCondact(k), NEW op \in Nat \ {BEEP}, NEW ps, NEW b \in BOOLEAN,
         NEW r, \/ r = [k EXCEPT !.Opcode = op, !.Params = ps]
                \/ r = [k EXCEPT !.Opcode = op, !.Params = ps, !.Indirection1 = b]
  PROVE  IsCondact(r) /\ r.src = k.src /\ Audible(r)
<1> DEFINE flag == r.Indirection1
           whole == [Opcode |-> op, Params |-> ps, Indirection1 |-> flag,
                     DurationAdjusted |-> k.DurationAdjusted, src |-> k.src]
<1>1. k \in [Opcode : Nat, Params : {k.Params}, Indirection1 : BOOLEAN,
             DurationAdjusted : BOOLEAN, src : Nat]
  BY DEF IsCondact
<1>2. r = whole /\ flag \in BOOLEAN
  <2>1. CASE r = [k EXCEPT !.Opcode = op, !.Params = ps]
    BY <1>1, <2>1
  <2>2. CASE r = [k EXCEPT !.Opcode = op, !.Params = ps, !.Indirection1 = b]
    BY <1>1, <2>2
  <2>3. QED
    BY <2>1, <2>2
<1> HIDE DEF flag
<1>3. /\ whole.Params = ps /\ whole.src = k.src /\ whole.Opcode = op
      /\ whole \in [Opcode : Nat, Params : {ps}, Indirection1 : BOOLEAN,
                    DurationAdjusted : BOOLEAN, src : Nat]
  BY <1>1, <1>2
<1> HIDE DEF whole
<1>4. QED
  BY <1>2, <1>3 DEF IsCondact, Audible

(* A BEEP visited has its pitch checked and put in its place.              *)
LEMMA BeepVisited ==
  ASSUME IndInv, VisitBeep
  PROVE  IndInv'
<1> DEFINE k == AdjustedOnce(Current)
           pitch == k.Params[2]
           low == [k EXCEPT !.Opcode = PAUSE, !.Params = <<k.Params[1]>>]
           swapped == [k EXCEPT !.Params = <<pitch, k.Params[1]>>]
           r == IF pitch < 48 \/ pitch > 238 THEN low
                ELSE IF job.target.swap THEN swapped ELSE k
<1>1. AtCondact /\ Current.Opcode = BEEP /\ Rewrite(r)
  BY Zenon DEF VisitBeep, At
<1>2. IsCondact(Current) /\ HasPitch(Current)
  BY <1>1, CurrentCondact
<1>3. /\ IsCondact(k) /\ k.src = Current.src /\ k.Opcode = BEEP
      /\ DOMAIN k.Params = 1..2 /\ pitch \in Int
  BY <1>1, <1>2, AdjustedKeepsPlace
<1> HIDE DEF k
<1>4. /\ IsCondact(r) /\ r.src = k.src /\ Audible(r)
  <2>1. CASE pitch < 48 \/ pitch > 238
    <3>1. r = low
      BY <2>1
    <3>2. PAUSE \in Nat \ {BEEP} /\ FALSE \in BOOLEAN
      BY DEF PAUSE, BEEP
    <3>3. IsCondact(low) /\ low.src = k.src /\ Audible(low)
      BY <1>3, <3>2, Renamed
    <3>4. QED
      BY <3>1, <3>3
  <2>2. CASE ~(pitch < 48 \/ pitch > 238) /\ job.target.swap
    BY <1>3, <2>2 DEF IsCondact, Audible, BEEP
  <2>3. CASE ~(pitch < 48 \/ pitch > 238) /\ ~job.target.swap
    BY <1>3, <2>3 DEF IsCondact, Audible, BEEP
  <2>4. QED
    BY <2>1, <2>2, <2>3
<1> HIDE DEF r
<1>5. QED
  BY <1>1, <1>3, <1>4, RewriteKeeps

(* The visit of a PAUSE keeps the invariant.                               *)
LEMMA PauseVisited ==
  ASSUME IndInv, VisitPause
  PROVE  IndInv'
<1> DEFINE r == AdjustedOnce(Current)
<1>1. AtCondact /\ Current.Opcode = PAUSE /\ Rewrite(r)
  BY Zenon DEF VisitPause, At
<1>2. IsCondact(Current) /\ HasPitch(Current)
  BY <1>1, CurrentCondact
<1>3. IsCondact(r) /\ r.src = Current.src /\ r.Opcode = PAUSE
  BY <1>1, <1>2, AdjustedKeepsPlace
<1> HIDE DEF r
<1>4. Audible(r)
  BY <1>3 DEF Audible, PAUSE, BEEP
<1>5. QED
  BY <1>1, <1>3, <1>4, RewriteKeeps

(* A tune's sounds take the place of their XPLAY.                          *)
LEMMA XplayVisited ==
  ASSUME IndInv, VisitXplay
  PROVE  IndInv' \/ Fail
<1> DEFINE chain == Tune(String.notes, Current.src)
           at38 == [Current EXCEPT !.Opcode = AT, !.Params = <<38>>, !.Indirection1 = TRUE]
<1>1. /\ AtCondact
      /\ Fail \/ (chain # <<>> /\ Splice(chain)) \/ Rewrite(at38)
  BY Zenon DEF VisitXplay, At
<1>2. IsCondact(Current) /\ Current.src \in Nat
  BY <1>1, CurrentCondact DEF IsCondact
<1>3. CASE chain # <<>> /\ Splice(chain)
  <2>1. IsJob(job)
    BY DEF IndInv, Lists
  <2>2. String.notes \in Seq(NOTE)
    BY <2>1 DEF IsJob, String
  <2> DEFINE S == Sounds(Current.src)
  <2>3. chain \in Seq(S)
    BY <1>2, <2>1, <2>2, TuneSounds
  <2>4. \A k \in S : IsCondact(k) /\ k.src = Current.src /\ HasPitch(k)
    BY <1>2, SoundsAreCondacts
  <2> HIDE DEF S, chain
  <2>5. Len(chain) > 0 /\ \A i \in 1..Len(chain) : chain[i] \in S
    BY <1>3, <2>3
  <2>6. \A i \in 1..Len(chain) :
          IsCondact(chain[i]) /\ chain[i].src = Current.src /\ HasPitch(chain[i])
    BY <2>4, <2>5
  <2>7. QED
    BY <1>1, <1>3, <2>3, <2>5, <2>6, SpliceKeeps
<1>4. CASE Rewrite(at38)
  <2>1. IsCondact(at38) /\ at38.src = Current.src /\ Audible(at38)
    <3>1. AT \in Nat \ {BEEP} /\ TRUE \in BOOLEAN
      BY DEF AT, BEEP
    <3>2. QED
      BY <1>2, <3>1, Renamed
  <2> HIDE DEF at38
  <2>2. QED
    BY <1>1, <1>4, <2>1, RewriteKeeps
<1>5. QED
  BY <1>1, <1>3, <1>4

(* So do the LETs of an XDATA.                                             *)
LEMMA XdataVisited ==
  ASSUME IndInv, VisitXdata
  PROVE  IndInv' \/ Fail
<1> DEFINE x == String.elements
           chain == Lets(x, Current.src)
<1>1. AtCondact /\ (Fail \/ (~DataFails(x) /\ Splice(chain)))
  BY Zenon DEF VisitXdata, At
<1>2. IsCondact(Current) /\ Current.src \in Nat
  BY <1>1, CurrentCondact DEF IsCondact
<1>3. CASE ~DataFails(x) /\ Splice(chain)
  <2>1. IsJob(job)
    BY DEF IndInv, Lists
  <2>2. x \in Seq(Int)
    BY <2>1 DEF IsJob, String
  <2> HIDE DEF x
  <2>3. Len(x) >= 2
    <3>1. ~(Len(x) < 2) /\ Len(x) \in Nat
      BY <1>3, <2>2, LenProperties DEF DataFails
    <3>2. QED
      BY <3>1
  <2>4. /\ \E T : chain \in Seq(T)
        /\ Len(chain) > 0
        /\ \A i \in 1..Len(chain) :
             IsCondact(chain[i]) /\ chain[i].src = Current.src /\ HasPitch(chain[i])
    BY <1>2, <2>2, <2>3, LetsAreCondacts
  <2> HIDE DEF chain
  <2>5. QED
    BY <1>1, <1>3, <2>4, SpliceKeeps
<1>4. QED
  BY <1>1, <1>3

(* The arms that rewrite a condact to another that is no BEEP.             *)
LEMMA OtherRewritten ==
  ASSUME IndInv,
         \/ VisitProcess \/ VisitXmes \/ VisitXundone \/ VisitGetkey
         \/ VisitXsplitscr \/ VisitOther,
         ~Fail
  PROVE  \E r : Rewrite(r) /\ IsCondact(r) /\ r.src = Current.src /\ Audible(r)
<1>1. AtCondact
  BY DEF VisitProcess, VisitXmes, VisitXundone, VisitGetkey, VisitXsplitscr,
         VisitOther, At
<1>2. IsCondact(Current)
  BY <1>1, CurrentCondact
<1>3. ~Fail
  OBVIOUS
<1>4. ASSUME Current.Opcode # BEEP, Rewrite(Current)
      PROVE  \E r : Rewrite(r) /\ IsCondact(r) /\ r.src = Current.src /\ Audible(r)
  <2>1. Audible(Current)
    BY <1>4 DEF Audible
  <2>2. QED
    BY <1>2, <1>4, <2>1
<1>5. CASE VisitProcess
  <2>1. Rewrite(Current) /\ Current.Opcode = PROCESS
    BY <1>3, <1>5, Zenon DEF VisitProcess, At
  <2>2. QED
    BY <1>4, <2>1 DEF PROCESS, BEEP
<1>6. CASE VisitOther
  <2>1. Rewrite(Current) /\ Current.Opcode # BEEP
    BY <1>6 DEF VisitOther
  <2>2. QED
    BY <1>4, <2>1
<1>7. CASE VisitXmes
  <2> DEFINE two == <<Offset % 256, Offset \div 256>>
             three == <<Offset % 256, 3, Offset \div 256>>
             a == [Current EXCEPT !.Opcode = XMES_FINAL, !.Params = two]
             b == [Current EXCEPT !.Opcode = EXTERN, !.Params = three]
  <2>1. Rewrite(IF job.v3 THEN a ELSE b)
    <3>1. IF Offset > 65535 THEN Fail ELSE Rewrite(IF job.v3 THEN a ELSE b)
      BY <1>7 DEF VisitXmes
    <3>2. QED
      BY <1>3, <3>1
  <2> HIDE DEF two, three
  <2>2. XMES_FINAL \in Nat \ {BEEP} /\ EXTERN \in Nat \ {BEEP}
    BY DEF XMES_FINAL, EXTERN, BEEP
  <2>3. IsCondact(a) /\ a.src = Current.src /\ Audible(a)
    BY <1>2, <2>2, Renamed
  <2>4. IsCondact(b) /\ b.src = Current.src /\ Audible(b)
    BY <1>2, <2>2, Renamed
  <2> HIDE DEF a, b
  <2>5. QED
    BY <2>1, <2>3, <2>4
<1>8. CASE VisitXundone
  <2> DEFINE a == [Current EXCEPT !.Opcode = EXTERN, !.Params = <<0, 7>>,
                                  !.Indirection1 = FALSE]
  <2>1. Rewrite(a)
    BY <1>3, <1>8, Zenon DEF VisitXundone
  <2>2. EXTERN \in Nat \ {BEEP} /\ FALSE \in BOOLEAN
    BY DEF EXTERN, BEEP
  <2>3. IsCondact(a) /\ a.src = Current.src /\ Audible(a)
    BY <1>2, <2>2, Renamed
  <2> HIDE DEF a
  <2>4. QED
    BY <2>1, <2>3
<1>9. CASE VisitGetkey
  <2> DEFINE a == [Current EXCEPT !.Opcode = PAUSE, !.Params = <<0>>,
                                  !.Indirection1 = FALSE]
  <2>1. Rewrite(a)
    BY <1>3, <1>9, Zenon DEF VisitGetkey
  <2>2. PAUSE \in Nat \ {BEEP} /\ FALSE \in BOOLEAN
    BY DEF PAUSE, BEEP
  <2>3. IsCondact(a) /\ a.src = Current.src /\ Audible(a)
    BY <1>2, <2>2, Renamed
  <2> HIDE DEF a
  <2>4. QED
    BY <2>1, <2>3
<1>10. CASE VisitXsplitscr
  <2> DEFINE op == IF job.v3 THEN GFX ELSE EXTERN
             ps == <<Current.Params[1], IF job.v3 THEN 15 ELSE 6>>
             a == [Current EXCEPT !.Opcode = op, !.Params = ps]
             b == [Current EXCEPT !.Opcode = IF job.v3 THEN GFX ELSE EXTERN,
                                  !.Params = <<@[1], IF job.v3 THEN 15 ELSE 6>>]
  <2>1. Rewrite(b)
    BY <1>3, <1>10, Zenon DEF VisitXsplitscr
  <2>2. a = b
    OBVIOUS
  <2>3. op \in Nat \ {BEEP}
    BY DEF GFX, EXTERN, BEEP
  <2> HIDE DEF op, ps
  <2>4. IsCondact(a) /\ a.src = Current.src /\ Audible(a)
    BY <1>2, <2>3, Renamed
  <2> HIDE DEF a, b
  <2>5. QED
    BY <2>1, <2>2, <2>4
<1>11. QED
  BY <1>5, <1>6, <1>7, <1>8, <1>9, <1>10

(* So those arms keep the invariant.                                       *)
LEMMA OtherVisited ==
  ASSUME IndInv,
         \/ VisitProcess \/ VisitXmes \/ VisitXundone \/ VisitGetkey
         \/ VisitXsplitscr \/ VisitOther
  PROVE  IndInv' \/ Fail
<1>1. AtCondact
  BY DEF VisitProcess, VisitXmes, VisitXundone, VisitGetkey, VisitXsplitscr,
         VisitOther, At
<1>2. QED
  BY <1>1, OtherRewritten, RewriteKeeps

(* The step to the next entry, and the steps that touch no condact.        *)
LEMMA RestOfPass ==
  ASSUME IndInv, NextEntry \/ Finish \/ Fail \/ UNCHANGED vars
  PROVE  IndInv'
<1>1. /\ IsJob(job) /\ entries' = entries /\ job' = job
      /\ e \in Nat \ {0} /\ c \in Nat \ {0}
      /\ entries \in Seq(Seq(CondactsIn(entries)))
  BY DEF IndInv, Lists, Cursor, NextEntry, Finish, Fail, vars
<1>2. /\ Len(entries) \in Nat /\ DOMAIN entries = 1..Len(entries)
      /\ \A f \in DOMAIN entries : Len(entries[f]) \in Nat /\ DOMAIN entries[f] = 1..Len(entries[f])
  BY <1>1, LenProperties, ElementOfSeq
<1>3. Lists' /\ Orders'
  <2>1. CondactsIn(entries)' = CondactsIn(entries)
    BY <1>1 DEF CondactsIn
  <2>2. IsJob(job)' <=> IsJob(job)
    BY <1>1 DEF IsJob
  <2>3. Lists'
    BY <1>1, <2>1, <2>2, Zenon DEF IndInv, Lists
  <2>4. ASSUME NEW f \in DOMAIN entries
        PROVE  (Ordered(entries[f], Len(job.entries[f])))'
    BY <1>1 DEF IndInv, Orders, Ordered
  <2>5. Orders'
    BY <1>1, <2>4, Zenon DEF Orders
  <2>6. QED
    BY <2>3, <2>5
<1>4. CASE NextEntry
  <2>1. Cursor'
    <3>1. e' = e + 1 /\ c' = 1 /\ status' = status /\ status = "running"
      BY <1>4 DEF NextEntry
    <3>2. e' <= Len(entries) => c' <= Len(entries[e']) + 1
      BY <1>1, <1>2, <3>1
    <3>3. QED
      BY <1>1, <3>1, <3>2 DEF Cursor
  <2>2. ASSUME NEW f \in DOMAIN entries, NEW i \in DOMAIN entries[f]
        PROVE  Passed(f, i)' <=> Passed(f, i)
    BY <1>1, <1>2, <1>4 DEF NextEntry, Passed
  <2>3. Pitches'
    BY <1>1, <2>2, ZenonT(30) DEF IndInv, Pitches, Audible, HasPitch
  <2>4. QED
    BY <1>3, <2>1, <2>3 DEF IndInv
<1>5. CASE Finish \/ Fail \/ UNCHANGED vars
  <2>1. e' = e /\ c' = c
    BY <1>5 DEF Finish, Fail, vars
  <2>2. Cursor'
    BY <1>1, <1>5, <2>1 DEF IndInv, Cursor, Finish, Fail, vars
  <2>3. Pitches'
    BY <1>1, <2>1, ZenonT(30) DEF IndInv, Pitches, Passed, Audible, HasPitch
  <2>4. QED
    BY <1>3, <2>2, <2>3 DEF IndInv
<1>6. QED
  BY <1>4, <1>5

(* Every step keeps the invariant.                                         *)
LEMMA IndInvStep == IndInv /\ [Next]_vars => IndInv'
<1> SUFFICES ASSUME IndInv, [Next]_vars PROVE IndInv'
  OBVIOUS
<1>1. CASE VisitBeep
  BY <1>1, BeepVisited
<1>2. CASE VisitPause
  BY <1>2, PauseVisited
<1>3. CASE VisitXplay
  BY <1>3, XplayVisited, RestOfPass
<1>4. CASE VisitXdata
  BY <1>4, XdataVisited, RestOfPass
<1>5. CASE \/ VisitProcess \/ VisitXmes \/ VisitXundone \/ VisitGetkey
           \/ VisitXsplitscr \/ VisitOther
  BY <1>5, OtherVisited, RestOfPass
<1>6. CASE VisitDeprecated
  BY <1>6, RestOfPass DEF VisitDeprecated
<1>7. CASE NextEntry \/ Finish \/ UNCHANGED vars
  BY <1>7, RestOfPass
<1>8. QED
  BY <1>1, <1>2, <1>3, <1>4, <1>5, <1>6, <1>7, Zenon DEF Next, Returned

(* The invariant holds in every reachable state.                           *)
LEMMA Invariance == Spec => []IndInv
BY IndInvInit, IndInvStep, PTL DEF Spec

(* However many condacts a tune or an XDATA puts into the list being       *)
(* walked, every entry still names all of its source's places in order.    *)
THEOREM OrderKept == Spec => []SourceOrder
<1>1. IndInv => SourceOrder
  <2> SUFFICES ASSUME IndInv, NEW f \in DOMAIN entries
               PROVE  LET srcs == [i \in DOMAIN entries[f] |-> entries[f][i].src]
                      IN  /\ {srcs[i] : i \in DOMAIN srcs} = DOMAIN job.entries[f]
                          /\ \A i \in 1..Len(srcs) - 1 : srcs[i] <= srcs[i + 1]
    BY DEF SourceOrder
  <2> DEFINE n == Len(entries[f])
             srcs == [i \in DOMAIN entries[f] |-> entries[f][i].src]
  <2>1. /\ IsJob(job) /\ entries \in Seq(Seq(CondactsIn(entries)))
        /\ Len(entries) = Len(job.entries)
    BY DEF IndInv, Lists
  <2>2. /\ n \in Nat /\ DOMAIN entries[f] = 1..n
        /\ f \in 1..Len(entries)
    BY <2>1, LenProperties, ElementOfSeq
  <2>3. DOMAIN job.entries[f] = 1..Len(job.entries[f])
    <3>1. job.entries \in Seq(Seq(CONDACT)) /\ f \in 1..Len(job.entries)
      BY <2>1, <2>2 DEF IsJob
    <3>2. job.entries[f] \in Seq(CONDACT)
      BY <3>1, ElementOfSeq
    <3>3. QED
      BY <3>2, LenProperties
  <2>4. Ordered(entries[f], Len(job.entries[f]))
    BY Zenon DEF IndInv, Orders
  <2>5. Len(srcs) = n
    <3> DEFINE src(i) == entries[f][i].src
    <3>1. srcs = [i \in 1..n |-> src(i)]
      BY <2>2
    <3> HIDE DEF srcs, src, n
    <3>2. QED
      BY <2>2, <3>1
  <2>6. /\ {entries[f][i].src : i \in 1..n} = 1..Len(job.entries[f])
        /\ \A i, j \in 1..n : i <= j => entries[f][i].src <= entries[f][j].src
    BY <2>2, <2>4 DEF Ordered
  <2>7. \A i \in 1..n : srcs[i] = entries[f][i].src
    BY <2>2
  <2>8. DOMAIN srcs = 1..n
    BY <2>2
  <2> HIDE DEF srcs, n
  <2>9. {srcs[i] : i \in 1..n} = {entries[f][i].src : i \in 1..n}
    BY <2>7
  <2>10. \A i \in 1..n - 1 : srcs[i] <= srcs[i + 1]
    <3> SUFFICES ASSUME NEW i \in 1..n - 1 PROVE srcs[i] <= srcs[i + 1]
      OBVIOUS
    <3>1. i \in 1..n /\ i + 1 \in 1..n /\ i <= i + 1
      BY <2>2
    <3>2. QED
      BY <2>6, <2>7, <3>1
  <2>11. QED
    BY <2>3, <2>5, <2>6, <2>8, <2>9, <2>10 DEF srcs
<1>2. QED
  BY Invariance, <1>1, PTL

(* Whatever tunes were spliced in and wherever the cursor stepped back to, *)
(* a finished pass leaves no BEEP that was not checked.                    *)
THEOREM BeepsSound == Spec => []PitchesAudible
<1>1. IndInv => PitchesAudible
  <2> SUFFICES ASSUME IndInv, status = "done",
                      NEW f \in DOMAIN entries, NEW i \in DOMAIN entries[f]
               PROVE  Audible(entries[f][i])
    BY DEF PitchesAudible, Audible
  <2>1. entries \in Seq(Seq(CondactsIn(entries))) /\ e > Len(entries) /\ e \in Nat
    BY DEF IndInv, Lists, Cursor
  <2>2. Passed(f, i)
    BY <2>1, LenProperties DEF Passed
  <2>3. QED
    BY <2>2, Zenon DEF IndInv, Pitches
<1>2. QED
  BY Invariance, <1>1, PTL

-----------------------------------------------------------------------------
(* What a step may change.                                                 *)

(* Two sequences that agree up to n have the same first n elements.        *)
LEMMA SamePrefix ==
  ASSUME NEW S, NEW s \in Seq(S), NEW t \in Seq(S), NEW n \in Nat,
         n <= Len(s), n <= Len(t), \A k \in 1..n : s[k] = t[k]
  PROVE  SubSeq(s, 1, n) = SubSeq(t, 1, n)
<1> DEFINE a == SubSeq(s, 0 + 1, 0 + n)
           b == SubSeq(t, 0 + 1, 0 + n)
<1>1. a \in Seq(S) /\ Len(a) = n /\ \A k \in 1..n : a[k] = s[0 + k]
  BY Part
<1>2. b \in Seq(S) /\ Len(b) = n /\ \A k \in 1..n : b[k] = t[0 + k]
  BY Part
<1>3. a = SubSeq(s, 1, n) /\ b = SubSeq(t, 1, n)
  <2>1. 0 + 1 = 1 /\ 0 + n = n
    OBVIOUS
  <2>2. QED
    BY <2>1, Zenon
<1> HIDE DEF a, b
<1>4. \A k \in 1..n : a[k] = b[k]
  BY <1>1, <1>2
<1>5. a = b
  BY <1>1, <1>2, <1>4
<1>6. QED
  BY <1>3, <1>5

(* An arm rewrites one condact, splices one chain, or touches none.        *)
LEMMA ArmForms ==
  ASSUME IndInv, [Next]_vars
  PROVE  \/ AtCondact /\ \E k : Rewrite(k)
         \/ AtCondact /\ \E T : \E chain \in Seq(T) : Splice(chain)
         \/ NextEntry
         \/ entries' = entries /\ e' = e /\ c' = c
<1> DEFINE Result == \/ AtCondact /\ \E k : Rewrite(k)
                     \/ AtCondact /\ \E T : \E chain \in Seq(T) : Splice(chain)
                     \/ NextEntry
                     \/ entries' = entries /\ e' = e /\ c' = c
<1> SUFFICES Result
  OBVIOUS
<1>1. ASSUME Fail PROVE Result
  BY <1>1 DEF Fail
<1>2. ASSUME NEW k, AtCondact, Rewrite(k) PROVE Result
  BY <1>2
<1>3. ASSUME NEW T, NEW chain \in Seq(T), AtCondact, Splice(chain) PROVE Result
  BY <1>3
<1>4. IsJob(job)
  BY DEF IndInv, Lists
<1>5. CASE UNCHANGED vars
  BY <1>5 DEF vars
<1>6. CASE Finish \/ NextEntry
  BY <1>6 DEF Finish
<1> HIDE DEF Result
<1>7. CASE VisitXplay
  <2> DEFINE chain == Tune(String.notes, Current.src)
             at38 == [Current EXCEPT !.Opcode = AT, !.Params = <<38>>,
                                     !.Indirection1 = TRUE]
  <2>1. /\ AtCondact
        /\ Fail \/ Splice(chain) \/ Rewrite(at38)
    BY <1>7, Zenon DEF VisitXplay, At
  <2>2. String.notes \in Seq(NOTE) /\ Current.src \in Nat
    BY <1>4, <2>1, CurrentCondact DEF IsJob, String, IsCondact
  <2>3. chain \in Seq(Sounds(Current.src))
    BY <1>4, <2>2, TuneSounds
  <2> HIDE DEF chain, at38
  <2>4. QED
    BY <1>1, <1>2, <1>3, <2>1, <2>3
<1>8. CASE VisitXdata
  <2> DEFINE x == String.elements
             chain == Lets(x, Current.src)
  <2>1. AtCondact /\ (Fail \/ (~DataFails(x) /\ Splice(chain)))
    BY <1>8, Zenon DEF VisitXdata, At
  <2>2. x \in Seq(Int) /\ Current.src \in Nat
    BY <1>4, <2>1, CurrentCondact DEF IsJob, String, IsCondact
  <2> HIDE DEF x
  <2>3. ~DataFails(x) => Len(x) >= 2
    BY <2>2, LenProperties DEF DataFails
  <2>4. ~DataFails(x) => \E T : chain \in Seq(T)
    BY <2>2, <2>3, LetsAreCondacts
  <2> HIDE DEF chain
  <2>5. QED
    BY <1>1, <1>3, <2>1, <2>4
<1>9. CASE VisitBeep \/ VisitPause \/ VisitProcess \/ VisitOther
  BY <1>1, <1>2, <1>9, Zenon
     DEF VisitBeep, VisitPause, VisitProcess, VisitOther, At
<1>10. CASE VisitXmes
  <2> DEFINE a == [Current EXCEPT !.Opcode = XMES_FINAL,
                                  !.Params = <<Offset % 256, Offset \div 256>>]
             b == [Current EXCEPT !.Opcode = EXTERN,
                                  !.Params = <<Offset % 256, 3, Offset \div 256>>]
  <2>1. AtCondact /\ (Fail \/ Rewrite(IF job.v3 THEN a ELSE b))
    <3>1. /\ AtCondact
          /\ IF Offset > 65535 THEN Fail ELSE Rewrite(IF job.v3 THEN a ELSE b)
      BY <1>10 DEF VisitXmes, At
    <3> HIDE DEF a, b
    <3>2. CASE Offset > 65535
      BY <3>1, <3>2
    <3>3. CASE ~(Offset > 65535)
      BY <3>1, <3>3
    <3>4. QED
      BY <3>2, <3>3
  <2> HIDE DEF a, b
  <2>2. QED
    BY <1>1, <1>2, <2>1
<1>11. CASE VisitXundone
  <2> DEFINE a == [Current EXCEPT !.Opcode = EXTERN, !.Params = <<0, 7>>,
                                  !.Indirection1 = FALSE]
  <2>1. AtCondact /\ (Fail \/ Rewrite(a))
    BY <1>11, Zenon DEF VisitXundone, At
  <2> HIDE DEF a
  <2>2. QED
    BY <1>1, <1>2, <2>1
<1>12. CASE VisitGetkey
  <2> DEFINE a == [Current EXCEPT !.Opcode = PAUSE, !.Params = <<0>>,
                                  !.Indirection1 = FALSE]
  <2>1. AtCondact /\ (Fail \/ Rewrite(a))
    BY <1>12, Zenon DEF VisitGetkey, At
  <2> HIDE DEF a
  <2>2. QED
    BY <1>1, <1>2, <2>1
<1>13. CASE VisitXsplitscr
  <2> DEFINE a == [Current EXCEPT !.Opcode = IF job.v3 THEN GFX ELSE EXTERN,
                                  !.Params = <<@[1], IF job.v3 THEN 15 ELSE 6>>]
  <2>1. AtCondact /\ (Fail \/ Rewrite(a))
    BY <1>13, Zenon DEF VisitXsplitscr, At
  <2> HIDE DEF a
  <2>2. QED
    BY <1>1, <1>2, <2>1
<1>14. CASE VisitDeprecated
  BY <1>1, <1>14 DEF VisitDeprecated
<1>15. QED
  BY <1>5, <1>6, <1>7, <1>8, <1>9, <1>10,
     <1>11, <1>12, <1>13, <1>14, Zenon DEF Next, Returned

(* No step goes back to a condact that was passed, nor to another entry:   *)
(* what a step back of the cursor reaches is what it has just spliced in.  *)
THEOREM PassedStays == Spec => PassedIsFinal
<1> DEFINE Final ==
      /\ e' = e => c' >= c
      /\ \A f \in DOMAIN entries : f # e => entries'[f] = entries[f]
      /\ e <= Len(entries) =>
           SubSeq(entries'[e], 1, c - 1) = SubSeq(entries[e], 1, c - 1)
<1>1. IndInv /\ [Next]_vars => Final
  <2> SUFFICES ASSUME IndInv, [Next]_vars PROVE Final
    OBVIOUS
  <2>1. e \in Nat \ {0} /\ c \in Nat \ {0}
    BY DEF IndInv, Cursor
  <2>2. CASE entries' = entries /\ e' = e /\ c' = c
    BY <2>1, <2>2
  <2>3. CASE NextEntry
    BY <2>1, <2>3 DEF NextEntry
  <2>4. ASSUME AtCondact, NEW S, NEW r \in Seq(S), entries[e] \in Seq(S),
               entries' = [entries EXCEPT ![e] = r], e' = e, c' >= c,
               c - 1 <= Len(r), \A k \in 1 .. c - 1 : r[k] = entries[e][k]
        PROVE  Final
    <3>1. /\ e \in 1..Len(entries) /\ c \in 1..Len(entries[e])
          /\ entries \in Seq(Seq(CondactsIn(entries)))
      BY <2>4, CurrentCondact
    <3>2. e \in DOMAIN entries /\ Len(entries[e]) \in Nat
      BY <2>4, <3>1, LenProperties
    <3>3. entries'[e] = r /\ \A f \in DOMAIN entries : f # e => entries'[f] = entries[f]
      BY <2>4, <3>2
    <3>4. c - 1 \in Nat /\ c - 1 <= Len(entries[e])
      BY <2>1, <3>1, <3>2
    <3>5. SubSeq(r, 1, c - 1) = SubSeq(entries[e], 1, c - 1)
      <4> DEFINE s == entries[e]
                 n == c - 1
      <4>1. n \in Nat /\ n <= Len(r) /\ n <= Len(s) /\ s \in Seq(S)
            /\ \A k \in 1..n : r[k] = s[k]
        BY <2>4, <3>4
      <4> HIDE DEF s, n
      <4>2. SubSeq(r, 1, n) = SubSeq(s, 1, n)
        BY <4>1, SamePrefix
      <4>3. QED
        BY <4>2 DEF s, n
    <3>6. QED
      BY <2>4, <3>3, <3>5
  <2>5. ASSUME AtCondact, NEW k, Rewrite(k) PROVE Final
    <3> DEFINE s == entries[e]
               S == CondactsIn(entries) \cup {k}
               r == [s EXCEPT ![c] = k]
    <3>1. s \in Seq(CondactsIn(entries)) /\ c \in 1..Len(s)
      BY <2>5, CurrentCondact
    <3>2. /\ entries' = [entries EXCEPT ![e] = r] /\ e' = e /\ c' >= c
      BY <2>1, <2>5 DEF Rewrite
    <3>3. s \in Seq(S) /\ k \in S
      BY <3>1, SeqOfMore
    <3> HIDE DEF S, s
    <3>4. /\ r \in Seq(S) /\ Len(r) = Len(s)
          /\ \A i \in 1..Len(s) : r[i] = IF i = c THEN k ELSE s[i]
      BY <3>1, <3>3, Replaced
    <3> HIDE DEF r
    <3>5. c - 1 <= Len(r) /\ \A i \in 1 .. c - 1 : r[i] = s[i]
      BY <2>1, <3>1, <3>3, <3>4, LenProperties
    <3>6. QED
      BY <2>4, <2>5, <3>2, <3>3, <3>4, <3>5 DEF s
  <2>6. ASSUME AtCondact, NEW T, NEW chain \in Seq(T), Splice(chain) PROVE Final
    <3> DEFINE s == entries[e]
               S == CondactsIn(entries) \cup T
               r == SplicedIn(s, c, chain)
    <3>1. s \in Seq(CondactsIn(entries)) /\ c \in 1..Len(s)
      BY <2>6, CurrentCondact
    <3>2. /\ entries' = [entries EXCEPT ![e] = r] /\ e' = e /\ c' >= c
      BY <2>1, <2>6 DEF Splice, SplicedIn
    <3>3. s \in Seq(S) /\ chain \in Seq(S)
      BY <2>6, <3>1, SeqOfMore
    <3> HIDE DEF S, s
    <3>4. r \in Seq(S)
      BY <3>1, <3>3, Spliced
    <3>5. Len(r) = Len(s) + Len(chain) - 1
      BY <3>1, <3>3, Spliced
    <3>6. \A k \in 1 .. c - 1 : r[k] = s[k]
      BY <3>1, <3>3, Spliced
    <3> HIDE DEF r
    <3>7. Len(s) \in Nat /\ Len(chain) \in Nat
      BY <3>3, LenProperties
    <3>8. c - 1 <= Len(r)
      BY <2>1, <3>1, <3>5, <3>7
    <3>9. QED
      BY <2>4, <2>6, <3>2, <3>3, <3>4, <3>6, <3>8 DEF s
  <2> HIDE DEF Final
  <2>7. QED
    BY <2>2, <2>3, <2>5, <2>6, ArmForms
<1>2. QED
  BY Invariance, <1>1, PTL DEF Spec, PassedIsFinal
-----------------------------------------------------------------------------
(* Tunes of plain notes.                                                   *)

(* A condact rewritten where it stands: a tune that waits ahead waits on.  *)
LEMMA WaitsOn ==
  ASSUME NEW S, NEW list \in Seq(S), NEW c0 \in 1..Len(list), NEW r \in Seq(S),
         Len(r) = Len(list), NEW k, k.src = list[c0].src,
         \A i \in 1..Len(list) : r[i] = IF i = c0 THEN k ELSE list[i],
         NEW s, NEW x, x.src = s, list[c0].src # s, Waits(list, c0 - 1, s, x)
  PROVE  Waits(r, c0, s, x)
<1>1. /\ Len(list) \in Nat /\ DOMAIN list = 1..Len(list) /\ DOMAIN r = 1..Len(list)
      /\ c0 \in Nat
  BY LenProperties
<1>2. PICK d \in c0 - 1 .. Len(list) : Stretch(list, s, d, 1) /\ list[d + 1] = x
  BY DEF Waits
<1>3. d + 1 <= Len(list) /\ \A i \in 1..Len(list) : list[i].src = s <=> i \in d + 1 .. d + 1
  BY <1>1, <1>2 DEF Stretch
<1>4. d + 1 # c0
  BY <1>1, <1>2
<1>5. d \in c0..Len(r) /\ r[d + 1] = x
  BY <1>1, <1>2, <1>3, <1>4
<1>6. \A i \in 1..Len(list) : r[i].src = list[i].src
  OBVIOUS
<1>7. Stretch(r, s, d, 1)
  BY <1>1, <1>3, <1>6 DEF Stretch
<1>8. QED
  BY <1>5, <1>7 DEF Waits

(* A note that is visited lasts as long as before, whatever it becomes.    *)
LEMMA PlaysOn ==
  ASSUME NEW S, NEW list \in Seq(S), NEW c0 \in 1..Len(list), NEW r \in Seq(S),
         Len(r) = Len(list), NEW k, k.src = list[c0].src,
         \A i \in 1..Len(list) : r[i] = IF i = c0 THEN k ELSE list[i],
         NEW s, NEW notes, Len(notes) \in Nat, NEW swap,
         list[c0].src = s /\ list[c0].Opcode = BEEP /\ list[c0].DurationAdjusted
           => DurationOf(k, swap) = list[c0].Params[1],
         Plays(list, c0 - 1, s, notes, swap)
  PROVE  Plays(r, c0, s, notes, swap)
<1>1. /\ Len(list) \in Nat /\ DOMAIN list = 1..Len(list) /\ DOMAIN r = 1..Len(list)
      /\ c0 \in Nat
  BY LenProperties
<1> DEFINE Good(x, i, gone, n) ==
             IF i <= gone THEN DurationOf(x, swap) = Lasts(notes[n])
             ELSE x.Opcode = BEEP /\ x.DurationAdjusted /\ x.Params[1] = Lasts(notes[n])
<1>2. PICK d \in 0..Len(list) :
         /\ Stretch(list, s, d, Len(notes))
         /\ \A n \in 1..Len(notes) : Good(list[d + n], d + n, c0 - 1, n)
  BY DEF Plays
<1>3. /\ d + Len(notes) <= Len(list)
      /\ \A i \in 1..Len(list) : list[i].src = s <=> i \in d + 1 .. d + Len(notes)
  BY <1>1, <1>2 DEF Stretch
<1>4. \A i \in 1..Len(list) : r[i].src = list[i].src
  OBVIOUS
<1>5. Stretch(r, s, d, Len(notes))
  BY <1>1, <1>3, <1>4 DEF Stretch
<1>6. ASSUME NEW n \in 1..Len(notes) PROVE Good(r[d + n], d + n, c0, n)
  <2> DEFINE i == d + n
  <2>1. i \in 1..Len(list) /\ list[i].src = s /\ d \in Nat
    BY <1>1, <1>2, <1>3
  <2>2. Good(list[i], i, c0 - 1, n)
    BY <1>2
  <2> HIDE DEF i
  <2>3. CASE i = c0
    <3>1. ~(i <= c0 - 1) /\ i <= c0 /\ r[i] = k
      BY <1>1, <2>1, <2>3
    <3>2. DurationOf(k, swap) = Lasts(notes[n])
      BY <2>1, <2>2, <2>3, <3>1
    <3>3. Good(r[i], i, c0, n)
      BY <3>1, <3>2
    <3>4. QED
      BY <3>3 DEF i
  <2>4. CASE i # c0
    <3>1. r[i] = list[i] /\ (i <= c0 - 1 <=> i <= c0)
      BY <1>1, <2>1, <2>4
    <3>2. Good(r[i], i, c0, n)
      BY <2>2, <3>1, Zenon
    <3>3. QED
      BY <3>2 DEF i
  <2>5. QED
    BY <2>3, <2>4
<1>7. d \in 0..Len(r)
  BY <1>2
<1>8. QED
  BY <1>5, <1>6, <1>7, Zenon DEF Plays

(* Where the elements of a list with one replaced by a chain come from.    *)
LEMMA SplicedSources ==
  ASSUME NEW S, NEW list \in Seq(S), NEW chain \in Seq(S), NEW c0 \in 1..Len(list),
         \A i \in 1..Len(chain) : chain[i].src = list[c0].src,
         NEW r, r = SplicedIn(list, c0, chain)
  PROVE  /\ DOMAIN r = 1..Len(r) /\ Len(r) = Len(list) + Len(chain) - 1 /\ Len(r) \in Nat
         /\ \A i \in 1 .. c0 - 1 : r[i].src = list[i].src
         /\ \A i \in c0 .. c0 - 1 + Len(chain) : r[i].src = list[c0].src
         /\ \A i \in c0 + Len(chain) .. Len(r) : r[i].src = list[i + 1 - Len(chain)].src
<1> DEFINE m == Len(chain)
<1>1. Len(list) \in Nat /\ m \in Nat /\ c0 \in Nat
  BY LenProperties
<1>2. /\ r \in Seq(S)
      /\ Len(r) = Len(list) + Len(chain) - 1
      /\ \A i \in 1 .. c0 - 1 : r[i] = list[i]
      /\ \A i \in 1..Len(chain) : r[c0 - 1 + i] = chain[i]
      /\ \A i \in c0 + 1 .. Len(list) : r[i - 1 + Len(chain)] = list[i]
  <2> DEFINE new == SplicedIn(list, c0, chain)
  <2>0. list \in Seq(S) /\ chain \in Seq(S) /\ c0 \in 1..Len(list)
    OBVIOUS
  <2>1. new \in Seq(S)
    BY ONLY <2>0, Spliced
  <2>2. Len(new) = Len(list) + Len(chain) - 1
    BY ONLY <2>0, Spliced
  <2>3. \A i \in 1 .. c0 - 1 : new[i] = list[i]
    BY ONLY <2>0, Spliced
  <2>4. \A i \in 1..Len(chain) : new[c0 - 1 + i] = chain[i]
    BY ONLY <2>0, Spliced
  <2>5. \A i \in c0 + 1 .. Len(list) : new[i - 1 + Len(chain)] = list[i]
    BY ONLY <2>0, Spliced
  <2>6. QED
    BY <2>1, <2>2, <2>3, <2>4, <2>5, Zenon
<1>7. DOMAIN r = 1..Len(r) /\ Len(r) \in Nat
  BY <1>2, LenProperties
<1>8. ASSUME NEW i \in c0 .. c0 - 1 + m PROVE r[i].src = list[c0].src
  <2> DEFINE j == i + 1 - c0
  <2>1. j \in 1..Len(chain) /\ c0 - 1 + j = i
    BY <1>1
  <2> HIDE DEF j
  <2>2. r[c0 - 1 + j] = chain[j]
    BY <1>2, <2>1
  <2>3. QED
    BY <2>1, <2>2
<1>9. ASSUME NEW i \in c0 + m .. Len(r) PROVE r[i].src = list[i + 1 - m].src
  <2> DEFINE j == i + 1 - m
  <2>1. j \in c0 + 1 .. Len(list) /\ j - 1 + Len(chain) = i
    BY <1>1, <1>2
  <2> HIDE DEF j
  <2>2. r[j - 1 + Len(chain)] = list[j]
    BY <1>2, <2>1
  <2>3. QED
    BY <2>1, <2>2 DEF j
<1>10. QED
  BY <1>2, <1>7, <1>8, <1>9

(* A stretch of another place keeps its length when a condact becomes a    *)
(* chain, and moves when it is behind.                                     *)
LEMMA StretchMoves ==
  ASSUME NEW S, NEW list \in Seq(S), NEW chain \in Seq(S), NEW c0 \in 1..Len(list),
         Len(chain) > 0,
         \A i \in 1..Len(chain) : chain[i].src = list[c0].src,
         NEW s, list[c0].src # s, NEW d \in 0..Len(list), NEW n \in Nat \ {0},
         Stretch(list, s, d, n)
  PROVE  \/ d >= c0 /\ Stretch(SplicedIn(list, c0, chain), s, d - 1 + Len(chain), n)
         \/ d + n < c0 /\ Stretch(SplicedIn(list, c0, chain), s, d, n)
<1> DEFINE r == SplicedIn(list, c0, chain)
           m == Len(chain)
<1>1. /\ Len(list) \in Nat /\ m \in Nat /\ m > 0 /\ c0 \in Nat /\ DOMAIN list = 1..Len(list)
      /\ d \in Nat
  BY LenProperties
<1>2. /\ DOMAIN r = 1..Len(r) /\ Len(r) = Len(list) + m - 1 /\ Len(r) \in Nat
      /\ \A i \in 1 .. c0 - 1 : r[i].src = list[i].src
      /\ \A i \in c0 .. c0 - 1 + m : r[i].src = list[c0].src
      /\ \A i \in c0 + m .. Len(r) : r[i].src = list[i + 1 - m].src
  <2> HIDE DEF r
  <2>0. r = SplicedIn(list, c0, chain)
    BY DEF r
  <2>1. DOMAIN r = 1..Len(r) /\ Len(r) = Len(list) + Len(chain) - 1 /\ Len(r) \in Nat
    BY <2>0, SplicedSources
  <2>2. \A i \in 1 .. c0 - 1 : r[i].src = list[i].src
    BY <2>0, SplicedSources
  <2>3. \A i \in c0 .. c0 - 1 + Len(chain) : r[i].src = list[c0].src
    BY <2>0, SplicedSources
  <2>4. \A i \in c0 + Len(chain) .. Len(r) : r[i].src = list[i + 1 - Len(chain)].src
    BY <2>0, SplicedSources
  <2>5. QED
    BY <2>1, <2>2, <2>3, <2>4, Zenon DEF m
<1> HIDE DEF r, m
<1>3. d + n <= Len(list) /\ \A i \in 1..Len(list) : list[i].src = s <=> i \in d + 1 .. d + n
  BY <1>1 DEF Stretch
<1>4. c0 <= d \/ d + n < c0
  BY <1>1, <1>3
<1>5. CASE c0 <= d
  <2> DEFINE b == d - 1 + m
  <2>1. b + n <= Len(r) /\ b \in Nat
    BY <1>1, <1>2, <1>3, <1>5
  <2>2. ASSUME NEW i \in 1..Len(r) PROVE r[i].src = s <=> i \in b + 1 .. b + n
    <3>1. CASE i < c0
      <4>1. i \in 1 .. c0 - 1 /\ i \in 1..Len(list) /\ i < d + 1 /\ i < b + 1
        BY <1>1, <1>5, <3>1
      <4>2. r[i].src = list[i].src
        BY <1>2, <4>1
      <4>3. ~(i \in d + 1 .. d + n) /\ ~(i \in b + 1 .. b + n)
        BY <1>1, <2>1, <4>1
      <4>4. QED
        BY <1>3, <4>1, <4>2, <4>3
    <3>2. CASE i >= c0 /\ i < c0 + m
      BY <1>1, <1>2, <1>3, <1>5, <3>2
    <3>3. CASE i >= c0 + m
      <4> DEFINE j == i + 1 - m
      <4>1. j \in 1..Len(list) /\ r[i].src = list[j].src /\ i = j - 1 + m
        BY <1>1, <1>2, <3>3
      <4> HIDE DEF j
      <4>2. list[j].src = s <=> j \in d + 1 .. d + n
        BY <1>3, <4>1
      <4>3. j \in d + 1 .. d + n <=> i \in b + 1 .. b + n
        BY <1>1, <4>1
      <4>4. QED
        BY <4>1, <4>2, <4>3
    <3>4. QED
      BY <1>1, <3>1, <3>2, <3>3
  <2>3. Stretch(r, s, b, n)
    BY <1>2, <2>1, <2>2 DEF Stretch
  <2>4. QED
    BY <1>5, <2>3 DEF r, m
<1>6. CASE d + n < c0
  <2>1. d + n <= Len(r)
    BY <1>1, <1>2, <1>3, <1>6
  <2>2. ASSUME NEW i \in 1..Len(r) PROVE r[i].src = s <=> i \in d + 1 .. d + n
    <3>1. CASE i < c0
      <4>1. i \in 1 .. c0 - 1 /\ i \in 1..Len(list)
        BY <1>1, <3>1
      <4>2. r[i].src = list[i].src
        BY <1>2, <4>1
      <4>3. QED
        BY <1>3, <4>1, <4>2
    <3>2. CASE i >= c0 /\ i < c0 + m
      BY <1>1, <1>2, <1>3, <1>6, <3>2
    <3>3. CASE i >= c0 + m
      <4> DEFINE j == i + 1 - m
      <4>1. j \in 1..Len(list) /\ r[i].src = list[j].src /\ j > c0 /\ i >= j
        <5>1. j \in 1..Len(list) /\ j > c0 /\ i >= j /\ i \in c0 + m .. Len(r)
          BY <1>1, <1>2, <3>3
        <5>2. QED
          BY <1>2, <5>1
      <4> HIDE DEF j
      <4>2. ~(list[j].src = s)
        BY <1>1, <1>3, <1>6, <4>1
      <4>3. ~(i \in d + 1 .. d + n)
        BY <1>1, <1>6, <4>1
      <4>4. QED
        BY <4>1, <4>2, <4>3
    <3>4. QED
      BY <1>1, <3>1, <3>2, <3>3
  <2>3. Stretch(r, s, d, n)
    BY <1>2, <2>1, <2>2 DEF Stretch
  <2>4. QED
    BY <1>6, <2>3 DEF r
<1>7. QED
  BY <1>4, <1>5, <1>6

(* A tune elsewhere that waits, or that became notes, is not disturbed     *)
(* when a condact becomes a chain.                                         *)
LEMMA OtherTunesStay ==
  ASSUME NEW S, NEW list \in Seq(S), NEW chain \in Seq(S), NEW c0 \in 1..Len(list),
         Len(chain) > 0,
         \A i \in 1..Len(chain) : chain[i].src = list[c0].src,
         NEW s, list[c0].src # s
  PROVE  /\ \A x : Waits(list, c0 - 1, s, x)
                     => Waits(SplicedIn(list, c0, chain), c0 - 1, s, x)
         /\ \A notes, swap :
              Len(notes) \in Nat \ {0} /\ Plays(list, c0 - 1, s, notes, swap)
                => Plays(SplicedIn(list, c0, chain), c0 - 1, s, notes, swap)
<1> DEFINE r == SplicedIn(list, c0, chain)
           m == Len(chain)
<1>1. Len(list) \in Nat /\ m \in Nat /\ m > 0 /\ c0 \in Nat
  BY LenProperties
<1>2. /\ r \in Seq(S)
      /\ Len(r) = Len(list) + m - 1
      /\ \A i \in 1 .. c0 - 1 : r[i] = list[i]
      /\ \A i \in c0 + 1 .. Len(list) : r[i - 1 + m] = list[i]
  <2> DEFINE new == SplicedIn(list, c0, chain)
  <2>0. list \in Seq(S) /\ chain \in Seq(S) /\ c0 \in 1..Len(list)
    OBVIOUS
  <2>1. new \in Seq(S)
    BY ONLY <2>0, Spliced
  <2>2. Len(new) = Len(list) + Len(chain) - 1
    BY ONLY <2>0, Spliced
  <2>3. \A i \in 1 .. c0 - 1 : new[i] = list[i]
    BY ONLY <2>0, Spliced
  <2>5. \A i \in c0 + 1 .. Len(list) : new[i - 1 + Len(chain)] = list[i]
    BY ONLY <2>0, Spliced
  <2>6. QED
    BY <2>1, <2>2, <2>3, <2>5, Zenon
<1>3. \A d \in 0..Len(list) : \A n \in Nat \ {0} :
        Stretch(list, s, d, n) =>
          \/ d >= c0 /\ Stretch(r, s, d - 1 + m, n)
          \/ d + n < c0 /\ Stretch(r, s, d, n)
  BY StretchMoves
<1> HIDE DEF r, m
<1>4. ASSUME NEW x, Waits(list, c0 - 1, s, x) PROVE Waits(r, c0 - 1, s, x)
  <2>1. PICK d \in c0 - 1 .. Len(list) : Stretch(list, s, d, 1) /\ list[d + 1] = x
    BY <1>4 DEF Waits
  <2>2. d \in 0..Len(list) /\ 1 \in Nat \ {0} /\ ~(d + 1 < c0) /\ d + 1 <= Len(list)
    BY <1>1, <2>1 DEF Stretch
  <2>3. d >= c0 /\ Stretch(r, s, d - 1 + m, 1)
    BY <1>3, <2>1, <2>2
  <2>4. /\ d - 1 + m \in c0 - 1 .. Len(r) /\ d + 1 \in c0 + 1 .. Len(list)
        /\ d - 1 + m + 1 = d + 1 - 1 + m
    BY <1>1, <1>2, <2>1, <2>2, <2>3
  <2>5. r[d - 1 + m + 1] = x
    BY <1>2, <2>1, <2>4
  <2>6. QED
    BY <2>3, <2>4, <2>5, Zenon DEF Waits
<1>5. ASSUME NEW notes, NEW swap, Len(notes) \in Nat \ {0},
             Plays(list, c0 - 1, s, notes, swap)
      PROVE  Plays(r, c0 - 1, s, notes, swap)
  <2> DEFINE Good(x, i, n) ==
               IF i <= c0 - 1 THEN DurationOf(x, swap) = Lasts(notes[n])
               ELSE x.Opcode = BEEP /\ x.DurationAdjusted /\ x.Params[1] = Lasts(notes[n])
  <2>1. PICK d \in 0..Len(list) :
           /\ Stretch(list, s, d, Len(notes))
           /\ \A n \in 1..Len(notes) : Good(list[d + n], d + n, n)
    BY <1>5 DEF Plays
  <2>2. d + Len(notes) <= Len(list) /\ d \in Nat
    BY <1>1, <2>1 DEF Stretch
  <2>3. CASE d >= c0 /\ Stretch(r, s, d - 1 + m, Len(notes))
    <3> DEFINE b == d - 1 + m
    <3>1. b \in 0..Len(r)
      BY <1>1, <1>2, <1>5, <2>2, <2>3
    <3>2. ASSUME NEW n \in 1..Len(notes) PROVE Good(r[b + n], b + n, n)
      <4>1. /\ d + n \in c0 + 1 .. Len(list) /\ b + n = d + n - 1 + m
            /\ ~(d + n <= c0 - 1) /\ ~(b + n <= c0 - 1)
        BY <1>1, <1>5, <2>2, <2>3
      <4> DEFINE j == d + n
      <4>2. j \in c0 + 1 .. Len(list) /\ b + n = j - 1 + m
        BY <4>1
      <4> HIDE DEF j, b
      <4>5. r[b + n] = list[j]
        BY <1>2, <4>2
      <4>3. Good(list[j], j, n)
        BY <2>1 DEF j
      <4>4. ~(j <= c0 - 1) /\ ~(b + n <= c0 - 1)
        BY <4>1 DEF j
      <4>6. QED
        BY <4>3, <4>4, <4>5
    <3>3. Stretch(r, s, b, Len(notes))
      BY <2>3
    <3> HIDE DEF b
    <3>4. QED
      BY <3>1, <3>2, <3>3, Zenon DEF Plays
  <2>4. CASE d + Len(notes) < c0 /\ Stretch(r, s, d, Len(notes))
    <3>1. d \in 0..Len(r)
      BY <1>1, <1>2, <1>5, <2>2, <2>4
    <3>2. ASSUME NEW n \in 1..Len(notes) PROVE Good(r[d + n], d + n, n)
      <4>1. d + n \in 1 .. c0 - 1
        BY <1>1, <1>5, <2>2, <2>4
      <4>2. r[d + n] = list[d + n]
        BY <1>2, <4>1
      <4>3. Good(list[d + n], d + n, n)
        BY <2>1
      <4>4. QED
        BY <4>2, <4>3
    <3>3. QED
      BY <2>4, <3>1, <3>2, Zenon DEF Plays
  <2>5. QED
    BY <1>3, <1>5, <2>1, <2>3, <2>4
<1>6. QED
  BY <1>4, <1>5 DEF r

(* The tune the walk stands at becomes its notes.                          *)
LEMMA TuneBegins ==
  ASSUME NEW S, NEW list \in Seq(S), NEW chain \in Seq(S), NEW c0 \in 1..Len(list),
         NEW s, list[c0].src = s, NEW x, Waits(list, c0 - 1, s, x),
         NEW notes, Len(notes) \in Nat \ {0}, Len(chain) = Len(notes), NEW swap,
         \A n \in 1..Len(notes) :
           /\ chain[n].src = s /\ chain[n].Opcode = BEEP /\ chain[n].DurationAdjusted
           /\ chain[n].Params[1] = Lasts(notes[n])
  PROVE  Plays(SplicedIn(list, c0, chain), c0 - 1, s, notes, swap)
<1> DEFINE r == SplicedIn(list, c0, chain)
           m == Len(chain)
<1>1. /\ Len(list) \in Nat /\ m \in Nat /\ m > 0 /\ c0 \in Nat /\ DOMAIN list = 1..Len(list)
      /\ m = Len(notes)
  BY LenProperties
<1>2. /\ Len(r) = Len(list) + m - 1
      /\ \A i \in 1..Len(chain) : r[c0 - 1 + i] = chain[i]
  <2> DEFINE new == SplicedIn(list, c0, chain)
  <2>0. list \in Seq(S) /\ chain \in Seq(S) /\ c0 \in 1..Len(list)
    OBVIOUS
  <2>2. Len(new) = Len(list) + Len(chain) - 1
    BY ONLY <2>0, Spliced
  <2>3. \A i \in 1..Len(chain) : new[c0 - 1 + i] = chain[i]
    BY ONLY <2>0, Spliced
  <2>4. QED
    BY <2>2, <2>3, Zenon
<1>3. /\ DOMAIN r = 1..Len(r) /\ Len(r) \in Nat
      /\ \A i \in 1 .. c0 - 1 : r[i].src = list[i].src
      /\ \A i \in c0 .. c0 - 1 + m : r[i].src = list[c0].src
      /\ \A i \in c0 + m .. Len(r) : r[i].src = list[i + 1 - m].src
  <2> HIDE DEF r
  <2>0. /\ list \in Seq(S) /\ chain \in Seq(S) /\ c0 \in 1..Len(list)
        /\ r = SplicedIn(list, c0, chain) /\ \A i \in 1..Len(chain) : chain[i].src = list[c0].src
    BY DEF r
  <2>1. DOMAIN r = 1..Len(r) /\ Len(r) \in Nat
    BY ONLY <2>0, SplicedSources
  <2>2. \A i \in 1 .. c0 - 1 : r[i].src = list[i].src
    BY ONLY <2>0, SplicedSources
  <2>3. \A i \in c0 .. c0 - 1 + Len(chain) : r[i].src = list[c0].src
    BY ONLY <2>0, SplicedSources
  <2>4. \A i \in c0 + Len(chain) .. Len(r) : r[i].src = list[i + 1 - Len(chain)].src
    BY ONLY <2>0, SplicedSources
  <2>5. QED
    BY <2>1, <2>2, <2>3, <2>4, Zenon DEF m
<1>4. PICK d \in c0 - 1 .. Len(list) : Stretch(list, s, d, 1)
  BY DEF Waits
<1>5. \A i \in 1..Len(list) : list[i].src = s <=> i \in d + 1 .. d + 1
  BY <1>1, <1>4 DEF Stretch
<1>6. \A i \in 1..Len(list) : list[i].src = s <=> i = c0
  BY <1>1, <1>4, <1>5
<1> HIDE DEF r, m
<1>7. Stretch(r, s, c0 - 1, m)
  <2>1. c0 - 1 + m <= Len(r)
    BY <1>1, <1>2
  <2>2. ASSUME NEW i \in 1..Len(r) PROVE r[i].src = s <=> i \in c0 - 1 + 1 .. c0 - 1 + m
    <3>1. CASE i < c0
      <4>1. i \in 1 .. c0 - 1 /\ i \in 1..Len(list) /\ i # c0
        BY <1>1, <3>1
      <4>2. QED
        BY <1>1, <1>3, <1>6, <4>1
    <3>2. CASE i >= c0 /\ i < c0 + m
      <4>1. i \in c0 .. c0 - 1 + m
        BY <1>1, <3>2
      <4>2. QED
        BY <1>1, <1>3, <4>1
    <3>3. CASE i >= c0 + m
      <4> DEFINE j == i + 1 - m
      <4>1. j \in 1..Len(list) /\ j # c0 /\ i \in c0 + m .. Len(r)
        BY <1>1, <1>2, <1>3, <3>3
      <4>2. r[i].src = list[j].src
        BY <1>3, <4>1
      <4> HIDE DEF j
      <4>3. QED
        BY <1>1, <1>6, <3>3, <4>1, <4>2
    <3>4. QED
      BY <1>1, <3>1, <3>2, <3>3
  <2>3. QED
    BY <1>3, <2>1, <2>2 DEF Stretch
<1>8. ASSUME NEW n \in 1..Len(notes)
      PROVE  LET y == r[c0 - 1 + n]
             IN  IF c0 - 1 + n <= c0 - 1 THEN DurationOf(y, swap) = Lasts(notes[n])
                 ELSE y.Opcode = BEEP /\ y.DurationAdjusted /\ y.Params[1] = Lasts(notes[n])
  <2>1. ~(c0 - 1 + n <= c0 - 1) /\ n \in 1..Len(chain)
    BY <1>1
  <2>2. r[c0 - 1 + n] = chain[n]
    BY <1>2, <2>1
  <2>3. QED
    BY <2>1, <2>2
<1>9. c0 - 1 \in 0..Len(r)
  BY <1>1, <1>2
<1>10. Stretch(r, s, c0 - 1, Len(notes))
  BY <1>1, <1>7
<1>11. Plays(r, c0 - 1, s, notes, swap)
  BY <1>8, <1>9, <1>10, Zenon DEF Plays
<1>12. QED
  BY <1>11 DEF r

(* One element after the other, from the last on.                          *)
IsRow(g, x, n, S) ==
  /\ \A i \in 1..n : x[i] \in S
  /\ g[n + 1] = <<>>
  /\ \A i \in 1..n : g[i] = <<x[i]>> \o g[i + 1]

(* It makes the whole row.                                                 *)
LEMMA RowOfSingles ==
  ASSUME NEW n \in Nat, NEW S, NEW x, NEW g, IsRow(g, x, n, S)
  PROVE  /\ g[1] \in Seq(S) /\ Len(g[1]) = n
         /\ \A k \in 1..n : g[1][k] = x[k]
<1>0. /\ \A i \in 1..n : x[i] \in S
      /\ g[n + 1] = <<>>
      /\ \A i \in 1..n : g[i] = <<x[i]>> \o g[i + 1]
  BY DEF IsRow
<1> DEFINE Good(m) == LET t == g[n + 1 - m]
                      IN  /\ t \in Seq(S) /\ Len(t) = m
                          /\ \A k \in 1..m : t[k] = x[n - m + k]
           T == {m \in Nat : m <= n => Good(m)}
<1>1. 0 \in T
  <2> DEFINE t == g[n + 1 - 0]
  <2>1. t = <<>> /\ 1..0 = {}
    BY <1>0
  <2> HIDE DEF t
  <2>2. t \in Seq(S) /\ Len(t) = 0 /\ \A k \in 1..0 : t[k] = x[n - 0 + k]
    BY <2>1
  <2>3. Good(0)
    BY <2>2 DEF t
  <2> HIDE DEF Good
  <2>4. QED
    BY <2>3
<1>2. ASSUME NEW m \in T PROVE m + 1 \in T
  <2> SUFFICES ASSUME m + 1 <= n PROVE Good(m + 1)
    BY <1>2
  <2> DEFINE i == n - m
             t == g[i + 1]
  <2>1. /\ i \in 1..n /\ i + 1 = n + 1 - m /\ n + 1 - (m + 1) = i /\ m \in Nat
    BY <1>2
  <2>2. t \in Seq(S) /\ Len(t) = m /\ \A k \in 1..m : t[k] = x[n - m + k]
    BY <1>2, <2>1
  <2>3. g[i] = <<x[i]>> \o t /\ x[i] \in S
    BY <1>0, <2>1
  <2> DEFINE a == <<x[i]>>
  <2>4. a \in Seq(S) /\ Len(a) = 1 /\ a[1] = x[i]
    BY <2>3
  <2> HIDE DEF t, a
  <2>5. /\ a \o t \in Seq(S) /\ Len(a \o t) = Len(a) + Len(t)
        /\ \A k \in 1..Len(a) : (a \o t)[k] = a[k]
        /\ \A k \in 1..Len(t) : (a \o t)[Len(a) + k] = t[k]
    <3>1. a \in Seq(S) /\ t \in Seq(S)
      BY <2>2, <2>4
    <3>2. QED
      BY ONLY <3>1, Concat
  <2> DEFINE u == a \o t
  <2>6. u \in Seq(S) /\ Len(u) = m + 1 /\ u[1] = x[i] /\ \A k \in 1..m : u[1 + k] = t[k]
    BY <2>1, <2>2, <2>4, <2>5
  <2> HIDE DEF u
  <2>7. ASSUME NEW k \in 1..m + 1 PROVE u[k] = x[n - (m + 1) + k]
    <3>1. CASE k = 1
      <4>1. n - (m + 1) + k = i
        BY <2>1, <3>1
      <4>2. QED
        BY <2>6, <3>1, <4>1
    <3>2. CASE k # 1
      <4> DEFINE j == k - 1
      <4>1. j \in 1..m /\ 1 + j = k /\ n - m + j = n - (m + 1) + k
        BY <2>1, <3>2
      <4> HIDE DEF j
      <4>2. u[1 + j] = t[j] /\ t[j] = x[n - m + j]
        BY <2>2, <2>6, <4>1
      <4>3. QED
        BY <4>1, <4>2
    <3>3. QED
      BY <3>1, <3>2
  <2>8. g[n + 1 - (m + 1)] = u
    BY <2>1, <2>3 DEF u, a
  <2>9. QED
    BY <2>6, <2>7, <2>8
<1> HIDE DEF Good
<1>3. T = Nat
  <2>1. T \subseteq Nat
    OBVIOUS
  <2> HIDE DEF T
  <2>2. QED
    BY <1>1, <1>2, <2>1, Induction
<1>4. Good(n)
  BY <1>3
<1>5. n + 1 - n = 1 /\ \A k \in 1..n : n - n + k = k
  OBVIOUS
<1>6. QED
  BY <1>4, <1>5 DEF Good

(* A tune of plain notes leaves the octave, the length and the tempo alone.*)
LEMMA ValuesStay ==
  ASSUME NEW notes \in Seq(NOTE), OnlyNotes(notes), NEW n \in 1..Len(notes)
  PROVE  ValuesBefore(notes)[n] = InitialValues
<1> DEFINE values == ValuesBefore(notes)
           T == {m \in Nat : m + 1 <= Len(notes) => values[m + 1] = InitialValues}
<1>1. /\ values[1] = InitialValues
      /\ \A i \in 1..Len(notes) : values[i + 1] = NoteValues(notes[i], values[i])
  BY ValuesSteps, Zenon
<1>2. Len(notes) \in Nat /\ DOMAIN notes = 1..Len(notes)
  BY LenProperties
<1>3. ASSUME NEW i \in 1..Len(notes), NEW v PROVE NoteValues(notes[i], v) = v
  <2>1. notes[i].cmd = "note"
    BY <1>2 DEF OnlyNotes
  <2>2. QED
    BY <2>1 DEF NoteValues
<1> HIDE DEF values
<1>4. 0 \in T
  BY <1>1
<1>5. ASSUME NEW m \in T PROVE m + 1 \in T
  <2> SUFFICES ASSUME m + 1 + 1 <= Len(notes) PROVE values[m + 1 + 1] = InitialValues
    OBVIOUS
  <2>1. m + 1 \in 1..Len(notes) /\ m + 1 <= Len(notes)
    BY <1>2
  <2>2. values[m + 1] = InitialValues
    BY <1>5, <2>1
  <2>3. values[m + 1 + 1] = NoteValues(notes[m + 1], values[m + 1])
    BY <1>1, <2>1
  <2>4. QED
    BY <1>3, <2>1, <2>2, <2>3
<1>6. T = Nat
  <2>1. T \subseteq Nat
    OBVIOUS
  <2> HIDE DEF T
  <2>2. QED
    BY <1>4, <1>5, <2>1, Induction
<1>7. n - 1 \in Nat /\ n - 1 + 1 = n /\ n <= Len(notes)
  BY <1>2
<1>8. n - 1 \in T
  BY <1>6, <1>7
<1>9. values[n - 1 + 1] = InitialValues
  BY <1>7, <1>8
<1>10. QED
  BY <1>7, <1>9 DEF values

(* So each of its notes becomes one BEEP that lasts what the tune says.    *)
LEMMA NotesOfTune ==
  ASSUME IsJob(job), NEW notes \in Seq(NOTE), OnlyNotes(notes), NEW src \in Nat
  PROVE  /\ Len(Tune(notes, src)) = Len(notes) /\ Len(notes) \in Nat \ {0}
         /\ \A n \in 1..Len(notes) :
              LET k == Tune(notes, src)[n]
              IN  /\ k.src = src /\ k.Opcode = BEEP /\ k.DurationAdjusted
                  /\ k.Params[1] = Lasts(notes[n])
<1> DEFINE n == Len(notes)
           g == TuneFrom(notes, src)
           Pitch(i) == 4 * 24 + notes[i].num * 2 + job.target.pitch
           Beep(i) == New(BEEP, <<Lasts(notes[i]), Pitch(i)>>, TRUE, src)
           x == [i \in 1..n |-> Beep(i)]
           S == {Beep(i) : i \in 1..n}
<1>1. n \in Nat /\ DOMAIN notes = 1..n
  BY LenProperties
<1>2. n # 0
  BY EmptySeq DEF OnlyNotes
<1>3. ASSUME NEW i \in 1..n PROVE NoteCondacts(notes[i], ValuesBefore(notes)[i], src) = <<Beep(i)>>
  <2>1. notes[i].cmd = "note"
    BY <1>1 DEF OnlyNotes
  <2>2. ValuesBefore(notes)[i] = InitialValues
    BY ValuesStay
  <2>3. NoteLength(notes[i], InitialValues) = IF notes[i].given THEN notes[i].len ELSE 4
    BY DEF NoteLength, InitialValues
  <2>4. InitialValues.octave = 4 /\ InitialValues.tempo = 120
    BY DEF InitialValues
  <2>5. NoteCondacts(notes[i], InitialValues, src)
          = <<New(BEEP, <<NoteDuration(InitialValues.tempo,
                                        NoteLength(notes[i], InitialValues), notes[i].dots),
                           InitialValues.octave * 24 + notes[i].num * 2 + job.target.pitch>>,
                   TRUE, src)>>
    BY <2>1 DEF NoteCondacts
  <2>6. QED
    BY <2>2, <2>3, <2>4, <2>5 DEF Lasts
<1>4. /\ g[n + 1] = <<>>
      /\ \A i \in 1..n : g[i] = NoteCondacts(notes[i], ValuesBefore(notes)[i], src) \o g[i + 1]
  BY TuneSteps, Zenon
<1>5. \A i \in 1..n : x[i] = Beep(i) /\ x[i] \in S
  OBVIOUS
<1>6. \A i \in 1..n : g[i] = <<x[i]>> \o g[i + 1]
  <2> HIDE DEF g, x, Beep
  <2>1. QED
    BY <1>3, <1>4, <1>5
<1>7. Len(g[1]) = n /\ \A k \in 1..n : g[1][k] = x[k]
  <2> HIDE DEF g, x, S, n
  <2>1. \A i \in 1..n : x[i] \in S
    BY <1>5
  <2>2. g[n + 1] = <<>> /\ n \in Nat
    BY <1>1, <1>4
  <2>3. IsRow(g, x, n, S)
    BY <1>6, <2>1, <2>2, Zenon DEF IsRow
  <2>4. QED
    BY <2>2, <2>3, RowOfSingles
<1>8. \A i \in 1..n : /\ Beep(i).src = src /\ Beep(i).Opcode = BEEP /\ Beep(i).DurationAdjusted
                      /\ Beep(i).Params[1] = Lasts(notes[i])
  <2> HIDE DEF Pitch
  <2>1. QED
    BY DEF New
<1>9. Tune(notes, src) = g[1]
  BY DEF Tune
<1> HIDE DEF g, x, Beep
<1>10. QED
  BY <1>1, <1>2, <1>5, <1>7, <1>8, <1>9

(* A tune ahead, or its notes.                                             *)
Kept(list, gone, s, k, notes, swap) ==
  Waits(list, gone, s, k) \/ Plays(list, gone, s, notes, swap)

(* What a tune of the source is: a condact of its place, with some notes.  *)
IsTune(s, k, notes) ==
  /\ k.src = s /\ k.Opcode = XPLAY
  /\ notes = StringOf(k).notes /\ notes \in Seq(NOTE) /\ OnlyNotes(notes)

(* The string a condact names is a tune, or empty.                         *)
LEMMA StringNotes ==
  ASSUME IsJob(job), NEW k
  PROVE  StringOf(k).notes \in Seq(NOTE)
<1> DEFINE i == k.Params[1] + 1
<1> HIDE DEF i
<1>1. CASE i \in DOMAIN job.strings
  <2>1. job.strings[i].notes \in Seq(NOTE)
    BY <1>1 DEF IsJob
  <2>2. StringOf(k) = job.strings[i]
    BY <1>1 DEF StringOf, i
  <2>3. QED
    BY <2>1, <2>2
<1>2. CASE ~(i \in DOMAIN job.strings)
  <2>1. StringOf(k) = [notes |-> <<>>, elements |-> <<>>]
    BY <1>2 DEF StringOf, i
  <2>2. StringOf(k).notes = <<>>
    BY <2>1
  <2>3. QED
    BY <2>2
<1>3. QED
  BY <1>1, <1>2

(* Every tune of the source is one.                                        *)
LEMMA TunesOfSource ==
  ASSUME IndInv, NEW f \in DOMAIN entries, NEW s \in DOMAIN job.entries[f],
         job.entries[f][s].Opcode = XPLAY, OnlyNotes(StringOf(job.entries[f][s]).notes)
  PROVE  IsTune(s, job.entries[f][s], StringOf(job.entries[f][s]).notes)
<1>1. IsJob(job) /\ entries \in Seq(Seq(CondactsIn(entries))) /\ Len(entries) = Len(job.entries)
  BY DEF IndInv, Lists
<1>2. f \in DOMAIN job.entries
  <2>1. job.entries \in Seq(Seq(CONDACT))
    BY <1>1 DEF IsJob
  <2>2. QED
    BY <1>1, <2>1, LenProperties
<1>3. job.entries[f][s].src = s
  BY <1>1, <1>2 DEF IsJob
<1>4. StringOf(job.entries[f][s]).notes \in Seq(NOTE)
  BY <1>1, StringNotes
<1>5. QED
  BY <1>3, <1>4 DEF IsTune

(* How far a tune has come, before and after a step that leaves the job.   *)
LEMMA KeptNext ==
  ASSUME job' = job, NEW f, NEW s
  PROVE  Kept(entries[f], Gone(f), s, job.entries[f][s],
              StringOf(job.entries[f][s]).notes, job.target.swap)'
           <=> Kept(entries'[f], Gone(f)', s, job.entries[f][s],
                    StringOf(job.entries[f][s]).notes, job.target.swap)
<1> DEFINE ns == StringOf(job.entries[f][s]).notes
<1>1. Waits(entries[f], Gone(f), s, job.entries[f][s])'
        <=> Waits(entries'[f], Gone(f)', s, job.entries[f][s])
  BY Zenon DEF Waits, Stretch
<1>2. ns' = ns
  BY DEF StringOf
<1>3. \A note : Lasts(note)' = Lasts(note)
  BY DEF Lasts, NoteDuration
<1>4. job.target.swap' = job.target.swap
  OBVIOUS
<1> HIDE DEF ns
<1>5. Plays(entries[f], Gone(f), s, ns, job.target.swap)'
        <=> Plays(entries'[f], Gone(f)', s, ns, job.target.swap)
  BY <1>2, <1>3, <1>4, Zenon DEF Plays, Stretch, DurationOf
<1>6. Kept(entries[f], Gone(f), s, job.entries[f][s], ns, job.target.swap)'
        <=> Kept(entries'[f], Gone(f)', s, job.entries[f][s], ns, job.target.swap)
  BY <1>1, <1>5, Zenon DEF Kept
<1>7. QED
  BY <1>6 DEF ns

(* The tunes of the other entries are not touched by a step in one.        *)
LEMMA TunesOfOthers ==
  ASSUME IndInv, Tunes, AtCondact, NEW S, NEW r \in Seq(S),
         entries' = [entries EXCEPT ![e] = r], job' = job, e' = e,
         NEW gone, gone = c' - 1,
         \A s, k, notes : IsTune(s, k, notes) /\ Kept(entries[e], c - 1, s, k, notes, job.target.swap)
            => Kept(r, gone, s, k, notes, job.target.swap)
  PROVE  Tunes'
<1>1. /\ entries \in Seq(Seq(CondactsIn(entries))) /\ e \in 1..Len(entries)
      /\ DOMAIN entries = 1..Len(entries) /\ Len(entries) \in Nat
  BY CurrentCondact, LenProperties
<1>2. /\ DOMAIN entries' = DOMAIN entries
      /\ \A f \in DOMAIN entries : entries'[f] = IF f = e THEN r ELSE entries[f]
  BY <1>1
<1>3. SUFFICES ASSUME NEW f \in DOMAIN entries, NEW s \in DOMAIN job.entries[f],
                      job.entries[f][s].Opcode = XPLAY,
                      OnlyNotes(StringOf(job.entries[f][s]).notes)
               PROVE  Kept(entries'[f], Gone(f)', s, job.entries[f][s],
                           StringOf(job.entries[f][s]).notes, job.target.swap)
  <2>1. \A k : StringOf(k)' = StringOf(k)
    BY DEF StringOf
  <2> DEFINE P(f, s) == job.entries[f][s].Opcode = XPLAY
                          /\ OnlyNotes(StringOf(job.entries[f][s]).notes)
             Q(f, s) == Kept(entries[f], Gone(f), s, job.entries[f][s],
                             StringOf(job.entries[f][s]).notes, job.target.swap)
             Q2(f, s) == Kept(entries'[f], Gone(f)', s, job.entries[f][s],
                              StringOf(job.entries[f][s]).notes, job.target.swap)
  <2>2. \A f \in DOMAIN entries : \A s \in DOMAIN job.entries[f] : P(f, s) => Q2(f, s)
    BY <1>3
  <2>3. \A f, s : P(f, s)' <=> P(f, s)
    BY <2>1
  <2>4. ASSUME NEW f, NEW s PROVE Q(f, s)' <=> Q2(f, s)
    BY KeptNext, Zenon
  <2>5. Tunes' <=> (\A f \in DOMAIN entries : \A s \in DOMAIN job.entries[f] : P(f, s) => Q(f, s))'
    BY Zenon DEF Tunes, Kept
  <2> HIDE DEF P, Q, Q2
  <2>6. QED
    BY <1>2, <2>2, <2>3, <2>4, <2>5
<1> DEFINE k == job.entries[f][s]
           notes == StringOf(k).notes
<1>4. IsTune(s, k, notes)
  BY <1>3, TunesOfSource
<1>5. Kept(entries[f], Gone(f), s, k, notes, job.target.swap)
  BY <1>3, Zenon DEF Tunes, Kept
<1> HIDE DEF k, notes
<1>6. CASE f = e
  <2>1. Gone(f) = c - 1 /\ Gone(f)' = gone /\ entries'[f] = r
    BY <1>1, <1>2, <1>6 DEF Gone
  <2>2. Kept(r, gone, s, k, notes, job.target.swap)
    BY <1>4, <1>5, <1>6, <2>1
  <2>3. QED
    BY <2>1, <2>2 DEF k, notes
<1>7. CASE f # e
  <2>1. Gone(f)' = Gone(f) /\ entries'[f] = entries[f]
    BY <1>1, <1>2, <1>7 DEF Gone
  <2>2. QED
    BY <1>5, <2>1 DEF k, notes
<1>8. QED
  BY <1>6, <1>7

(* A condact rewritten in place: the notes keep their durations.           *)
LEMMA RewriteKeepsTunes ==
  ASSUME IndInv, Tunes, AtCondact, NEW k, Rewrite(k), k.src = Current.src,
         Current.Opcode = XPLAY => ~OnlyNotes(String.notes),
         Current.Opcode = BEEP /\ Current.DurationAdjusted
           => DurationOf(k, job.target.swap) = Current.Params[1]
  PROVE  Tunes'
<1> DEFINE S == CondactsIn(entries) \cup {k}
           list == entries[e]
           r == [list EXCEPT ![c] = k]
<1>1. /\ e \in 1..Len(entries) /\ c \in 1..Len(list)
      /\ list \in Seq(CondactsIn(entries))
      /\ Current = list[c]
  BY CurrentCondact DEF Current
<1>2. list \in Seq(S) /\ k \in S
  BY <1>1, SeqOfMore
<1>3. /\ entries' = [entries EXCEPT ![e] = r] /\ c' = c + 1
      /\ job' = job /\ e' = e
  BY DEF Rewrite
<1>4. Len(list) \in Nat /\ DOMAIN list = 1..Len(list) /\ c \in Nat
  BY <1>1, LenProperties
<1> HIDE DEF S, list
<1>5. /\ r \in Seq(S) /\ Len(r) = Len(list)
      /\ \A i \in 1..Len(list) : r[i] = IF i = c THEN k ELSE list[i]
  BY <1>1, <1>2, Replaced
<1> HIDE DEF r
<1>6. c' - 1 = c
  BY <1>3, <1>4
<1>7. ASSUME NEW s, NEW x, NEW notes, IsTune(s, x, notes),
             Kept(list, c - 1, s, x, notes, job.target.swap)
      PROVE  Kept(r, c, s, x, notes, job.target.swap)
  <2>1. x.src = s /\ x.Opcode = XPLAY /\ OnlyNotes(notes) /\ notes = StringOf(x).notes
    BY <1>7 DEF IsTune
  <2>2. CASE Waits(list, c - 1, s, x)
    <3>1. list[c].src # s
      <4> SUFFICES ASSUME list[c].src = s PROVE FALSE
        OBVIOUS
      <4>1. PICK d \in c - 1 .. Len(list) : Stretch(list, s, d, 1) /\ list[d + 1] = x
        BY <2>2 DEF Waits
      <4>2. c \in d + 1 .. d + 1
        BY <1>1, <1>4, <4>1 DEF Stretch
      <4>3. Current = x
        BY <1>1, <1>4, <4>1, <4>2
      <4>4. String = StringOf(x)
        BY <4>3 DEF String, StringOf, Param1
      <4>5. QED
        BY <2>1, <4>3, <4>4
    <3>2. Waits(r, c, s, x)
      BY <1>1, <1>2, <1>5, <2>1, <2>2, <3>1, WaitsOn
    <3>3. QED
      BY <3>2 DEF Kept
  <2>3. CASE Plays(list, c - 1, s, notes, job.target.swap)
    <3>1. Len(notes) \in Nat
      BY <1>7, LenProperties DEF IsTune
    <3>2. Plays(r, c, s, notes, job.target.swap)
      BY <1>1, <1>2, <1>5, <2>3, <3>1, PlaysOn
    <3>3. QED
      BY <3>2 DEF Kept
  <2>4. QED
    BY <1>7, <2>2, <2>3 DEF Kept
<1>8. QED
  BY <1>3, <1>5, <1>6, <1>7, TunesOfOthers DEF list

(* A condact that becomes a chain: a tune becomes its notes.               *)
LEMMA SpliceKeepsTunes ==
  ASSUME IndInv, Tunes, AtCondact, NEW T, NEW chain \in Seq(T), Len(chain) > 0, Splice(chain),
         \A i \in 1..Len(chain) : chain[i].src = Current.src,
         Current.Opcode # BEEP,
         Current.Opcode = XPLAY /\ OnlyNotes(String.notes) =>
           /\ Len(chain) = Len(String.notes)
           /\ \A n \in 1..Len(chain) :
                /\ chain[n].Opcode = BEEP /\ chain[n].DurationAdjusted
                /\ chain[n].Params[1] = Lasts(String.notes[n])
  PROVE  Tunes'
<1> DEFINE S == CondactsIn(entries) \cup T
           list == entries[e]
           r == SplicedIn(list, c, chain)
           swap == job.target.swap
<1>1. /\ e \in 1..Len(entries) /\ c \in 1..Len(list)
      /\ list \in Seq(CondactsIn(entries))
      /\ Current = list[c]
  BY CurrentCondact DEF Current
<1>2. list \in Seq(S) /\ chain \in Seq(S)
  BY <1>1, SeqOfMore
<1>3. /\ entries' = [entries EXCEPT ![e] = r] /\ c' = c
      /\ job' = job /\ e' = e
  BY DEF Splice, SplicedIn
<1>4. Len(list) \in Nat /\ DOMAIN list = 1..Len(list) /\ c \in Nat
  BY <1>1, LenProperties
<1> HIDE DEF S, list
<1>5. r \in Seq(S)
  BY ONLY <1>1, <1>2, Spliced
<1> HIDE DEF r, swap
<1>6. \A i \in 1..Len(chain) : chain[i].src = list[c].src
  BY <1>1
<1>7. ASSUME NEW s, NEW x, NEW notes, IsTune(s, x, notes),
             Kept(list, c - 1, s, x, notes, swap)
      PROVE  Kept(r, c - 1, s, x, notes, swap)
  <2>1. /\ x.src = s /\ x.Opcode = XPLAY /\ OnlyNotes(notes) /\ notes = StringOf(x).notes
        /\ notes \in Seq(NOTE)
    BY <1>7 DEF IsTune
  <2>2. Len(notes) \in Nat \ {0}
    BY <2>1, LenProperties, EmptySeq DEF OnlyNotes
  <2>3. CASE list[c].src # s
    <3>1. /\ Waits(list, c - 1, s, x) => Waits(r, c - 1, s, x)
          /\ Plays(list, c - 1, s, notes, swap) => Plays(r, c - 1, s, notes, swap)
      <4>1. /\ \A y : Waits(list, c - 1, s, y) => Waits(SplicedIn(list, c, chain), c - 1, s, y)
            /\ \A ns, sw : Len(ns) \in Nat \ {0} /\ Plays(list, c - 1, s, ns, sw)
                             => Plays(SplicedIn(list, c, chain), c - 1, s, ns, sw)
        BY <1>1, <1>2, <1>6, <2>3, OtherTunesStay
      <4>2. QED
        BY <2>2, <4>1, Zenon DEF r
    <3>2. QED
      BY <1>7, <3>1, Zenon DEF Kept
  <2>4. CASE list[c].src = s /\ Waits(list, c - 1, s, x)
    <3>1. PICK d \in c - 1 .. Len(list) : Stretch(list, s, d, 1) /\ list[d + 1] = x
      BY <2>4 DEF Waits
    <3>2. c \in d + 1 .. d + 1
      BY <1>1, <1>4, <2>4, <3>1 DEF Stretch
    <3>3. Current = x
      BY <1>1, <1>4, <3>1, <3>2
    <3>4. String = StringOf(x)
      BY <3>3 DEF String, StringOf, Param1
    <3>5. /\ Len(chain) = Len(notes)
          /\ \A n \in 1..Len(notes) :
               /\ chain[n].src = s /\ chain[n].Opcode = BEEP /\ chain[n].DurationAdjusted
               /\ chain[n].Params[1] = Lasts(notes[n])
      BY <1>1, <2>1, <2>4, <3>3, <3>4
    <3>6. Plays(SplicedIn(list, c, chain), c - 1, s, notes, swap)
      BY <1>1, <1>2, <2>2, <2>4, <3>5, TuneBegins
    <3>7. QED
      BY <3>6 DEF Kept, r
  <2>5. CASE list[c].src = s /\ Plays(list, c - 1, s, notes, swap)
    <3>1. PICK d \in 0..Len(list) :
            /\ Stretch(list, s, d, Len(notes))
            /\ \A n \in 1..Len(notes) : ~(d + n <= c - 1) => list[d + n].Opcode = BEEP
      BY <2>5 DEF Plays
    <3>2. c \in d + 1 .. d + Len(notes)
      BY <1>1, <1>4, <2>5, <3>1 DEF Stretch
    <3> DEFINE n == c - d
    <3>3. n \in 1..Len(notes) /\ d + n = c /\ ~(d + n <= c - 1)
      BY <1>4, <2>2, <3>1, <3>2
    <3> HIDE DEF n
    <3>4. Current.Opcode = BEEP
      BY <1>1, <3>1, <3>3
    <3>5. QED
      BY <3>4
  <2>6. QED
    BY <1>7, <2>3, <2>4, <2>5 DEF Kept
<1>8. c' - 1 = c - 1
  BY <1>3
<1>9. QED
  BY <1>3, <1>5, <1>7, <1>8, TunesOfOthers DEF list, swap

-----------------------------------------------------------------------------
(* The tunes from step to step.                                            *)

(* At first each tune waits at its own place.                              *)
LEMMA TunesInit == Init => Tunes
<1> SUFFICES ASSUME Init PROVE Tunes
  OBVIOUS
<1>1. /\ IsJob(job) /\ entries = job.entries /\ e = 1 /\ c = 1
      /\ entries \in Seq(Seq(CONDACT))
  BY JobsAssumption DEF Init, IsJob
<1>2. SUFFICES ASSUME NEW f \in DOMAIN entries, NEW s \in DOMAIN entries[f]
               PROVE  Waits(entries[f], Gone(f), s, entries[f][s])
  BY <1>1, Zenon DEF Tunes
<1>3. f \in Nat \ {0}
  BY <1>1, LenProperties
<1> DEFINE list == entries[f]
<1>4. list \in Seq(CONDACT)
  BY <1>1, ElementOfSeq
<1>5. Len(list) \in Nat /\ DOMAIN list = 1..Len(list)
  BY <1>4, LenProperties
<1>6. \A i \in DOMAIN list : list[i].src = i
  BY <1>1 DEF IsJob
<1>7. Gone(f) = 0
  BY <1>1, <1>3 DEF Gone
<1> HIDE DEF list
<1>8. s \in 1..Len(list)
  BY <1>5 DEF list
<1>9. Stretch(list, s, s - 1, 1)
  BY <1>5, <1>6, <1>8 DEF Stretch
<1>10. s - 1 \in 0..Len(list) /\ (s - 1) + 1 = s
  BY <1>5, <1>8
<1>11. Waits(list, 0, s, list[s])
  BY <1>9, <1>10 DEF Waits
<1>12. QED
  BY <1>7, <1>11 DEF list

(* A visited BEEP that was a note keeps the note's duration.               *)
LEMMA BeepKeepsTunes ==
  ASSUME IndInv, Tunes, VisitBeep
  PROVE  Tunes'
<1> DEFINE k == AdjustedOnce(Current)
           pitch == k.Params[2]
           low == [k EXCEPT !.Opcode = PAUSE, !.Params = <<k.Params[1]>>]
           swapped == [k EXCEPT !.Params = <<pitch, k.Params[1]>>]
           r == IF pitch < 48 \/ pitch > 238 THEN low
                ELSE IF job.target.swap THEN swapped ELSE k
<1>1. AtCondact /\ Current.Opcode = BEEP /\ Rewrite(r)
  BY Zenon DEF VisitBeep, At
<1>2. IsCondact(Current) /\ HasPitch(Current)
  BY <1>1, CurrentCondact
<1>3. IsCondact(k) /\ k.src = Current.src /\ k.Opcode = BEEP
  BY <1>1, <1>2, AdjustedKeepsPlace
<1>4. Current.DurationAdjusted => k = Current
  BY DEF AdjustedOnce
<1> HIDE DEF k
<1>5. r.src = k.src /\ DurationOf(r, job.target.swap) = k.Params[1]
  <2>1. CASE pitch < 48 \/ pitch > 238
    <3>1. low.src = k.src /\ low.Opcode = PAUSE /\ low.Params[1] = k.Params[1]
      BY <1>3 DEF IsCondact
    <3>2. r = low
      BY <2>1
    <3> HIDE DEF low, r
    <3>3. r.Opcode # BEEP
      BY <3>1, <3>2 DEF PAUSE, BEEP
    <3>4. QED
      BY <3>1, <3>2, <3>3 DEF DurationOf
  <2>2. CASE ~(pitch < 48 \/ pitch > 238) /\ job.target.swap
    <3>1. swapped.src = k.src /\ swapped.Opcode = BEEP /\ swapped.Params[2] = k.Params[1]
      BY <1>3 DEF IsCondact
    <3>2. r = swapped
      BY <2>2
    <3>3. QED
      BY <2>2, <3>1, <3>2 DEF DurationOf
  <2>3. CASE ~(pitch < 48 \/ pitch > 238) /\ ~job.target.swap
    BY <1>3, <2>3 DEF DurationOf
  <2>4. QED
    BY <2>1, <2>2, <2>3
<1> HIDE DEF r
<1>6. Current.DurationAdjusted => DurationOf(r, job.target.swap) = Current.Params[1]
  BY <1>4, <1>5
<1>7. Current.Opcode # XPLAY
  BY <1>1 DEF BEEP, XPLAY
<1>8. QED
  BY <1>1, <1>3, <1>5, <1>6, <1>7, RewriteKeepsTunes

(* A tune of notes is never left to the AT 38: its sounds are its notes.   *)
LEMMA XplayKeepsTunes ==
  ASSUME IndInv, Tunes, VisitXplay
  PROVE  Tunes' \/ Fail
<1> DEFINE notes == String.notes
           chain == Tune(notes, Current.src)
           at38 == [Current EXCEPT !.Opcode = AT, !.Params = <<38>>, !.Indirection1 = TRUE]
<1>1. /\ AtCondact /\ Current.Opcode = XPLAY
      /\ Fail \/ (chain # <<>> /\ Splice(chain)) \/ (chain = <<>> /\ Rewrite(at38))
  BY Zenon DEF VisitXplay, At
<1>2. IsCondact(Current) /\ Current.src \in Nat
  BY <1>1, CurrentCondact DEF IsCondact
<1>3. IsJob(job)
  BY DEF IndInv, Lists
<1>4. notes \in Seq(NOTE)
  BY <1>3 DEF IsJob, String
<1>5. OnlyNotes(notes) =>
        /\ Len(chain) = Len(notes) /\ Len(notes) \in Nat \ {0}
        /\ \A n \in 1..Len(chain) :
             /\ chain[n].Opcode = BEEP /\ chain[n].DurationAdjusted
             /\ chain[n].Params[1] = Lasts(notes[n])
  <2> SUFFICES ASSUME OnlyNotes(notes)
               PROVE  /\ Len(chain) = Len(notes) /\ Len(notes) \in Nat \ {0}
                      /\ \A n \in 1..Len(chain) :
                           /\ chain[n].Opcode = BEEP /\ chain[n].DurationAdjusted
                           /\ chain[n].Params[1] = Lasts(notes[n])
    OBVIOUS
  <2> HIDE DEF notes
  <2>1. QED
    BY <1>2, <1>3, <1>4, NotesOfTune
<1> DEFINE S == Sounds(Current.src)
<1>6. chain \in Seq(S)
  BY <1>2, <1>3, <1>4, TuneSounds
<1>7. \A k \in S : k.src = Current.src
  BY <1>2, SoundsAreCondacts
<1> HIDE DEF S, chain
<1>8. CASE chain # <<>> /\ Splice(chain)
  <2>1. Len(chain) > 0 /\ \A i \in 1..Len(chain) : chain[i] \in S
    BY <1>6, <1>8
  <2>2. \A i \in 1..Len(chain) : chain[i].src = Current.src
    BY <1>7, <2>1
  <2>3. Current.Opcode # BEEP
    BY <1>1 DEF BEEP, XPLAY
  <2>4. QED
    BY <1>1, <1>5, <1>6, <1>8, <2>1, <2>2, <2>3, SpliceKeepsTunes
<1>9. CASE chain = <<>> /\ Rewrite(at38)
  <2>1. ~OnlyNotes(notes)
    BY <1>5, <1>9, EmptySeq
  <2>2. at38.src = Current.src
    BY <1>2 DEF IsCondact
  <2>3. Current.Opcode # BEEP
    BY <1>1 DEF BEEP, XPLAY
  <2> HIDE DEF at38
  <2>4. QED
    BY <1>1, <1>9, <2>1, <2>2, <2>3, RewriteKeepsTunes
<1>10. QED
  BY <1>1, <1>8, <1>9

(* The LETs of an XDATA move the tunes behind them.                        *)
LEMMA XdataKeepsTunes ==
  ASSUME IndInv, Tunes, VisitXdata
  PROVE  Tunes' \/ Fail
<1> DEFINE x == String.elements
           chain == Lets(x, Current.src)
<1>1. AtCondact /\ Current.Opcode = XDATA /\ (Fail \/ (~DataFails(x) /\ Splice(chain)))
  BY Zenon DEF VisitXdata, At
<1>2. IsCondact(Current) /\ Current.src \in Nat
  BY <1>1, CurrentCondact DEF IsCondact
<1>3. CASE ~DataFails(x) /\ Splice(chain)
  <2>1. x \in Seq(Int)
    BY DEF IndInv, Lists, IsJob, String
  <2> HIDE DEF x
  <2>2. Len(x) >= 2
    <3>1. ~(Len(x) < 2) /\ Len(x) \in Nat
      BY <1>3, <2>1, LenProperties DEF DataFails
    <3>2. QED
      BY <3>1
  <2>3. /\ \E T : chain \in Seq(T)
        /\ Len(chain) > 0
        /\ \A i \in 1..Len(chain) : chain[i].src = Current.src
    BY <1>2, <2>1, <2>2, LetsAreCondacts
  <2>4. Current.Opcode # BEEP /\ Current.Opcode # XPLAY
    BY <1>1 DEF XDATA, BEEP, XPLAY
  <2> HIDE DEF chain
  <2>5. QED
    BY <1>1, <1>3, <2>3, <2>4, SpliceKeepsTunes
<1>4. QED
  BY <1>1, <1>3

(* The arms that make no sound leave every tune as it is.                  *)
LEMMA OthersKeepTunes ==
  ASSUME IndInv, Tunes,
         \/ VisitProcess \/ VisitXmes \/ VisitXundone \/ VisitGetkey
         \/ VisitXsplitscr \/ VisitOther \/ VisitPause
  PROVE  Tunes' \/ Fail
<1>1. /\ AtCondact
      /\ Current.Opcode # BEEP /\ Current.Opcode # XPLAY
  BY DEF VisitProcess, VisitXmes, VisitXundone, VisitGetkey, VisitXsplitscr,
         VisitOther, VisitPause, At, PROCESS, XMES, XUNDONE, GETKEY, XSPLITSCR, PAUSE,
         BEEP, XPLAY
<1>2. CASE VisitPause
  <2> DEFINE r == AdjustedOnce(Current)
  <2>1. Rewrite(r)
    BY <1>2, Zenon DEF VisitPause
  <2>2. r.src = Current.src
    BY <1>1, CurrentCondact, AdjustedKeepsPlace
  <2> HIDE DEF r
  <2>3. QED
    BY <1>1, <2>1, <2>2, RewriteKeepsTunes
<1>3. CASE \/ VisitProcess \/ VisitXmes \/ VisitXundone \/ VisitGetkey
           \/ VisitXsplitscr \/ VisitOther
  <2>1. ~Fail => \E r : Rewrite(r) /\ r.src = Current.src
    BY <1>3, OtherRewritten
  <2>2. QED
    BY <1>1, <2>1, RewriteKeepsTunes
<1>4. QED
  BY <1>2, <1>3

(* The steps that touch no condact leave the tunes, and what is passed.    *)
LEMMA RestKeepsTunes ==
  ASSUME IndInv, Tunes, NextEntry \/ Finish \/ Fail \/ UNCHANGED vars
  PROVE  Tunes'
<1>1. entries' = entries /\ job' = job
  BY DEF NextEntry, Finish, Fail, vars
<1>2. \A f \in DOMAIN entries : Gone(f)' = Gone(f)
  <2>1. CASE NextEntry
    <3>1. /\ e \in Nat \ {0} /\ c \in Nat \ {0} /\ e <= Len(entries)
          /\ c = Len(entries[e]) + 1 /\ e' = e + 1 /\ c' = 1
      <4>1. /\ e \in Nat \ {0} /\ c \in Nat \ {0} /\ e <= Len(entries)
            /\ c <= Len(entries[e]) + 1 /\ c > Len(entries[e]) /\ e' = e + 1 /\ c' = 1
        BY <2>1 DEF NextEntry, IndInv, Cursor
      <4>2. entries \in Seq(Seq(CondactsIn(entries))) /\ e \in DOMAIN entries
        BY <4>1, LenProperties DEF IndInv, Lists
      <4>3. Len(entries[e]) \in Nat
        BY <4>2, ElementOfSeq, LenProperties
      <4>4. QED
        BY <4>1, <4>3
    <3>2. \A f \in DOMAIN entries : f \in Nat
      BY LenProperties DEF IndInv, Lists
    <3>3. ASSUME NEW f \in DOMAIN entries PROVE Gone(f)' = Gone(f)
      <4>1. /\ Gone(f) = IF f < e THEN Len(entries[f]) ELSE IF f = e THEN c - 1 ELSE 0
            /\ Gone(f)' = IF f < e + 1 THEN Len(entries[f])
                          ELSE IF f = e + 1 THEN 1 - 1 ELSE 0
        BY <1>1, <3>1 DEF Gone
      <4>2. f \in Nat
        BY <3>2
      <4>3. QED
        BY <3>1, <4>1, <4>2
    <3>4. QED
      BY <3>3
  <2>2. CASE Finish \/ Fail \/ UNCHANGED vars
    BY <2>2 DEF Finish, Fail, vars, Gone
  <2>3. QED
    BY <2>1, <2>2
<1> DEFINE P(f, s) == job.entries[f][s].Opcode = XPLAY
                        /\ OnlyNotes(StringOf(job.entries[f][s]).notes)
           Q(f, s) == Kept(entries[f], Gone(f), s, job.entries[f][s],
                           StringOf(job.entries[f][s]).notes, job.target.swap)
<1>3. \A f, s : P(f, s)' <=> P(f, s)
  BY <1>1 DEF StringOf
<1>4. ASSUME NEW f \in DOMAIN entries, NEW s PROVE Q(f, s)' <=> Q(f, s)
  <2>1. Q(f, s)' <=> Kept(entries'[f], Gone(f)', s, job.entries[f][s],
                          StringOf(job.entries[f][s]).notes, job.target.swap)
    BY <1>1, KeptNext, Zenon
  <2>2. Gone(f)' = Gone(f) /\ entries'[f] = entries[f]
    BY <1>1, <1>2
  <2>3. QED
    BY <2>1, <2>2
<1>5. Tunes <=> (\A f \in DOMAIN entries : \A s \in DOMAIN job.entries[f] : P(f, s) => Q(f, s))
  BY Zenon DEF Tunes, Kept
<1>6. Tunes' <=> (\A f \in DOMAIN entries : \A s \in DOMAIN job.entries[f] : P(f, s) => Q(f, s))'
  BY Zenon DEF Tunes, Kept
<1> HIDE DEF P, Q
<1>7. QED
  BY <1>1, <1>3, <1>4, <1>5, <1>6

(* Every step keeps every tune as its source or as its notes.              *)
LEMMA TunesStep == IndInv /\ Tunes /\ [Next]_vars => Tunes'
<1> SUFFICES ASSUME IndInv, Tunes, [Next]_vars PROVE Tunes'
  OBVIOUS
<1>1. CASE VisitBeep
  BY <1>1, BeepKeepsTunes
<1>2. CASE VisitXplay
  BY <1>2, XplayKeepsTunes, RestKeepsTunes
<1>3. CASE VisitXdata
  BY <1>3, XdataKeepsTunes, RestKeepsTunes
<1>4. CASE \/ VisitProcess \/ VisitXmes \/ VisitXundone \/ VisitGetkey
           \/ VisitXsplitscr \/ VisitOther \/ VisitPause
  BY <1>4, OthersKeepTunes, RestKeepsTunes
<1>5. CASE VisitDeprecated \/ NextEntry \/ Finish \/ Returned \/ UNCHANGED vars
  BY <1>5, RestKeepsTunes DEF VisitDeprecated, Returned
<1>6. QED
  BY <1>1, <1>2, <1>3, <1>4, <1>5, Zenon DEF Next

(* A tune of notes is, when the pass is done, its notes in a row, each with*)
(* the duration the tune gives it: no visit scaled it again, and no splice *)
(* before or behind it tore it apart.                                      *)
THEOREM NotesKeepTime == Spec => []NotesLastAsWritten
<1>1. Spec => [](IndInv /\ Tunes)
  BY IndInvInit, IndInvStep, TunesInit, TunesStep, PTL DEF Spec
<1>2. IndInv /\ Tunes => NotesLastAsWritten
  <2> SUFFICES ASSUME IndInv, Tunes, status = "done",
                      NEW f \in DOMAIN entries, NEW s \in DOMAIN job.entries[f],
                      job.entries[f][s].Opcode = XPLAY,
                      OnlyNotes(StringOf(job.entries[f][s]).notes)
               PROVE  LET notes == StringOf(job.entries[f][s]).notes
                      IN  \E d \in 0..Len(entries[f]) :
                            /\ Stretch(entries[f], s, d, Len(notes))
                            /\ \A n \in 1..Len(notes) :
                                 DurationOf(entries[f][d + n], job.target.swap) = Lasts(notes[n])
    BY DEF NotesLastAsWritten
  <2> DEFINE k == job.entries[f][s]
             notes == StringOf(k).notes
             list == entries[f]
             swap == job.target.swap
  <2>1. entries \in Seq(Seq(CondactsIn(entries))) /\ e > Len(entries) /\ e \in Nat
    BY DEF IndInv, Lists, Cursor
  <2>2. f \in 1..Len(entries) /\ Len(entries) \in Nat
    BY <2>1, LenProperties
  <2>3. Len(list) \in Nat
    BY <2>1, ElementOfSeq, LenProperties
  <2>4. Gone(f) = Len(list)
    BY <2>1, <2>2 DEF Gone
  <2>5. Waits(list, Len(list), s, k) \/ Plays(list, Len(list), s, notes, swap)
    BY <2>4, Zenon DEF Tunes
  <2>6. Len(notes) \in Nat
    BY StringNotes, LenProperties DEF IndInv, Lists
  <2> HIDE DEF list, notes, k, swap
  <2>7. ~Waits(list, Len(list), s, k)
    BY <2>3 DEF Waits, Stretch
  <2>8. PICK d \in 0..Len(list) :
          /\ Stretch(list, s, d, Len(notes))
          /\ \A n \in 1..Len(notes) :
               IF d + n <= Len(list) THEN DurationOf(list[d + n], swap) = Lasts(notes[n])
               ELSE list[d + n].Opcode = BEEP
    BY <2>5, <2>7 DEF Plays
  <2>9. \A n \in 1..Len(notes) : DurationOf(list[d + n], swap) = Lasts(notes[n])
    <3>1. d + Len(notes) <= Len(list)
      BY <2>8 DEF Stretch
    <3>2. \A n \in 1..Len(notes) : d + n <= Len(list)
      BY <2>3, <2>6, <2>8, <3>1
    <3>3. QED
      BY <2>8, <3>2
  <2>10. QED
    BY <2>8, <2>9 DEF list, notes, k, swap
<1>3. QED
  BY <1>1, <1>2, PTL

=============================================================================
