---------------------------- MODULE Conditionals ----------------------------
(* What #ifdef, #ifndef, #else and #endif promise the author of a source   *)
(* (scan and skip_block, src/src/front/sintactic.c, implement it with two  *)
(* counters): blocks nest, a token is obeyed exactly when every block it   *)
(* stands in is live, an #else turns its block over, and no source is      *)
(* accepted with a block left open.                                        *)
EXTENDS Sequences, Integers

VARIABLES
  branches,   \* the open blocks, outermost first: is the branch taken?
  parsed,     \* all that obeyed tokens have built
  accepted    \* the source was accepted

vars == <<branches, parsed, accepted>>

AllTaken(s) == \A i \in DOMAIN s : s[i]
Live == AllTaken(branches)
Outer == SubSeq(branches, 1, Len(branches) - 1)

Init == branches = <<>> /\ accepted = FALSE

Open(taken) ==
  /\ branches' = Append(branches, Live /\ taken)
  /\ UNCHANGED <<parsed, accepted>>

Else ==
  /\ branches # <<>>
  /\ branches' = Append(Outer, AllTaken(Outer) /\ ~branches[Len(branches)])
  /\ UNCHANGED <<parsed, accepted>>

Close ==
  /\ branches # <<>>
  /\ branches' = Outer
  /\ UNCHANGED <<parsed, accepted>>

Obey ==
  /\ Live
  /\ accepted' => branches = <<>>
  /\ UNCHANGED branches

Next == (\E taken \in BOOLEAN : Open(taken)) \/ Else \/ Close \/ Obey

Spec == Init /\ [][Next]_vars
=============================================================================
