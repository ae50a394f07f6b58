----------------------------- MODULE MC_Tokens -----------------------------
(* Small compilations for Tokens: four references besides entry 0 stand    *)
(* for 128, tokens of up to four bytes for twelve, three evaluations for   *)
(* 500.  Texts are put together from pieces, so that tokens repeat,        *)
(* overlap and contain each other.                                         *)
EXTENDS Tokens, TLC

a == 97
b == 98
c == 99

Joined(pieces, n) == {FlattenSeq(f) : f \in [1..n -> pieces]}
UnitCosts == [x \in {a, b, c, SPACE, DOT, UNDERSCORE} |-> 1]

Job(encoder, toks, corpus, objects) ==
  [encoder |-> encoder, tokens |-> toks, texts |-> corpus, objects |-> objects,
   classic |-> FALSE, pad |-> FALSE, maxtok |-> MAXTOK, maxlen |-> 4,
   lit |-> UnitCosts, ref |-> 1, tab |-> 1]

(* Selection from two texts of overlapping words.                          *)
Overlaps ==
  {Job("optimal", <<>>, <<s, t>>, 0) :
     s \in Joined({<<a, b>>, <<a, b, c>>, <<c, a>>}, 3),
     t \in Joined({<<a, b, c>>, <<b, c>>, <<c, c>>}, 2)}

(* Many short texts: a token chosen early is left without use by longer    *)
(* ones chosen later.                                                      *)
Copies(n, s) == [i \in 1..n |-> s]
Nested ==
  {Job("optimal", <<>>, Copies(n[1], <<c, a, b>>) \o Copies(n[2], <<DOT, a, b>>)
                          \o Copies(n[3], <<a, b, c, a>>) \o Copies(n[4], <<a, b>>), 0) :
     n \in [1..4 -> {0, 2, 3, 4}]}

(* A text and two object texts of a classic target, its table filled up.   *)
Objects ==
  {[Job("optimal", <<>>, <<s, o, p>>, 2) EXCEPT !.classic = TRUE, !.pad = TRUE] :
     s \in Joined({<<a, SPACE, SPACE>>, <<SPACE, b>>, <<b, DOT>>, <<UNDERSCORE>>}, 3),
     o \in Joined({<<a, SPACE, SPACE>>, <<SPACE, b>>, <<b, DOT>>}, 2),
     p \in {<<a, SPACE, b, b>>, <<a, b, a, b>>}}

(* A marked .tok with more tokens than the texts have use for, or than     *)
(* references can name.                                                    *)
Marked ==
  {[Job("optimal", <<<<0>>>> \o t, <<s, s, r>>, 0) EXCEPT !.pad = TRUE] :
     t \in {t \o <<<<c, c>>, <<c, a, b>>>> :
             t \in [1..3 -> {<<a, b>>, <<b, a>>, <<b, c>>, <<a>>}]},
     s \in {<<a, b, c, c, a, b>>, <<b, a, b, c, c, c>>}, r \in {<<>>, <<c, a, b, a, b, c>>}}
  \cup {LET pairs == <<<<a, a>>, <<b, b>>, <<c, c>>, <<DOT, DOT>>, <<SPACE, SPACE>>>>
        IN  Job("optimal", <<<<0>>>> \o pairs, [i \in 1..5 |-> pairs[i] \o pairs[i]], 0)}

(* The second selection of format 2 counts in bits and has its own limits. *)
Costed ==
  {[j EXCEPT !.encoder = "costed", !.maxtok = 2, !.maxlen = 3, !.ref = 6, !.tab = 8,
             !.lit = (a :> 5 @@ b :> 7 @@ c :> 6 @@ DOT :> 9)] : j \in Nested}

(* Tables applied one token after the other, and none.                     *)
Replacing ==
  {[Job("sequential", <<<<z>>>> \o t, <<s, r>>, 0) EXCEPT !.pad = p] :
     z \in {0, 127}, p \in BOOLEAN,
     t \in UNION {[1..n -> {<<a, b>>, <<b, a, SPACE>>, <<SPACE, a>>, <<c>>}] : n \in 0..2},
     s \in Joined({<<a, b, a>>, <<SPACE, a>>, <<b, c>>}, 2), r \in {<<SPACE, a, b, a, SPACE>>}}
  \cup {Job("none", <<>>, <<<<a, b>>>>, 0)}

MCJobs == Overlaps \cup Nested \cup Objects \cup Marked \cup Costed \cup Replacing
=============================================================================
