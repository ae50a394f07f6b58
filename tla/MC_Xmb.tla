------------------------------- MODULE MC_Xmb -------------------------------
(* Small calls for Xmb: Gap = 2, MaxCoded = 4, DataLimit = 7 stand for 512,*)
(* 8192 and 65535; a size of 8 is then the 64K file, 4 the 2K one, 5 the   *)
(* 16K page.                                                               *)
EXTENDS Xmb, TLC

Lens(S) == UNION {[1..n -> S] : n \in 0..4}

CallsFor(target, size, format2, S) ==
  {[lens |-> l, size |-> size, target |-> target, format2 |-> format2] :
     l \in Lens(S)}

MCCalls ==
  CallsFor("plain", 8, FALSE, {0, 1, 3, 6, 7, 9})      \* 9: above a file
    \cup CallsFor("plain", 4, FALSE, {0, 1, 2, 3, 5})
    \cup CallsFor("plain", 0, FALSE, {1})
    \cup CallsFor("amiga", 8, FALSE, {0, 2, 4, 5, 7})
    \cup UNION {CallsFor(t, 5, FALSE, {0, 1, 2, 3, 4}) :
                  t \in {"plus3", "128k", "msx2"}}
    \cup CallsFor("plain", 8, TRUE, {1, 2, 3, 4, 5})
==============================================================================
