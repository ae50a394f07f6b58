----------------------------- MODULE MC_MsgTable -----------------------------
(* Small calls for MsgTable: up to four texts, three of them distinct.     *)
EXTENDS MsgTable, TLC

Texts == {<<>>, <<7>>, <<7, 8>>}
TextSeqs == UNION {[1..n -> Texts] : n \in 0..4}

Flags(dump, stx, isRegion, padding, forced, big) ==
  [dump |-> dump, stx |-> stx, region |-> isRegion, padding |-> padding,
   forced |-> forced, bigEndian |-> big]

(* RAM on a plain and on a padding target, -X with and without the system  *)
(* messages' exception, -X with -p, and format 2.                          *)
FlagSets ==
  { Flags(FALSE, FALSE, FALSE, FALSE, FALSE, FALSE),
    Flags(FALSE, TRUE, FALSE, TRUE, FALSE, TRUE),
    Flags(TRUE, TRUE, FALSE, FALSE, FALSE, FALSE),
    Flags(TRUE, TRUE, FALSE, TRUE, FALSE, FALSE),
    Flags(TRUE, FALSE, FALSE, FALSE, TRUE, FALSE),
    Flags(FALSE, FALSE, TRUE, FALSE, FALSE, FALSE) }

(* Format 2 streams are never empty: each has its end code.                *)
MCTables ==
  {t \in {f @@ [msgs |-> m, share |-> s, base |-> b, xmbBase |-> 300,
                regionBase |-> 20] :
            f \in FlagSets, m \in TextSeqs, s \in BOOLEAN, b \in {258, 511}} :
     t.region => <<>> \notin {t.msgs[k] : k \in DOMAIN t.msgs}}
==============================================================================
