------------------------------ MODULE Placement -----------------------------
(***************************************************************************)
(* What every emitter of the back end promises, without addresses, sharing,*)
(* padding or pages: each item becomes readable where the tables point,    *)
(* one item at a time, and stays readable.                                 *)
(***************************************************************************)
VARIABLES
  meaning,   \* item -> the bytes it stands for, never empty
  found      \* item -> the bytes where its offset points; <<>>: none yet

vars == <<meaning, found>>

Init == found = [x \in DOMAIN meaning |-> <<>>]

Place(x) ==
  /\ found[x] = <<>>
  /\ found' = [found EXCEPT ![x] = meaning[x]]
  /\ UNCHANGED meaning

Next == \E x \in DOMAIN meaning : Place(x)

Spec == Init /\ [][Next]_vars /\ WF_vars(Next)
=============================================================================
