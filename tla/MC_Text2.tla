----------------------------- MODULE MC_Text2 ------------------------------
(* Small games for Text2.  A literal is below 12 instead of 128, a byte of *)
(* an entry names four tokens instead of 128, the large alphabet has seven *)
(* instead of 383, and a code has at most four bits instead of fifteen:    *)
(* six symbols are enough to need the repair.                              *)
EXTENDS Text2

x == 1
y == 2
z == 3

(* Longest first, as the selection returns them; each can be written with  *)
(* others, and more of them may be used than a byte can name.              *)
Pool == <<<<x, y, x, y, z, z>>, <<x, y, x, y>>, <<z, x, y>>, <<x, y>>, <<y, x>>, <<z, z>>>>
Dictionaries == {SelectSeq(Pool, LAMBDA t : t \in s) : s \in SUBSET ToSet(Pool)}
Longest(toks) == SubSeq(toks, 1, Min({REFMAX, Len(toks)}))
Shortest(toks) == SubSeq(toks, Max({1, Len(toks) - REFMAX + 1}), Len(toks))

Game(texts, group, first, small, large, limit) ==
  [texts |-> texts, group |-> group, limit |-> limit,
   first |-> [small |-> Longest(first), large |-> first],
   second |-> [small |-> small, large |-> large]]

Repeat(n, s) == FlattenSeq([k \in 1..n |-> s])
All == FlattenSeq(Pool)
Long == Repeat(3, Pool[1])
Corpora ==
  {<<All, <<y, x, z, z>>, <<z, z, y, x>>, <<z, z>>, <<x, y>>>>,
   <<Repeat(2, <<y, x>>) \o All, <<>>, <<z, x, y>>, <<z, x, y>>, <<z, x, y>>>>,
   <<<<x>> \o All \o <<x, y, x, y>>, All, All, <<y>>, <<>>>>,
   <<All, Long \o <<x>>, Long \o <<z, z>>, <<z>>, Long>>,
   <<<<z>> \o Long, <<z>>, <<z>>, <<z>>, Long>>}

(* Two texts of one table, two of another and an XMESSAGE.                 *)
Games ==
  {Game(t, <<0, 0, 4, 4, -1>>, Pool, Longest(d), d, limit) :
     t \in Corpora, d \in Dictionaries, limit \in {48, 56, 65535}}
  \cup {Game(t, <<0, 0, 4, 4, -1>>, f, Shortest(d), d, limit) :
     t \in Corpora, f \in {<<>>, Pool}, d \in {Pool, Tail(Pool)}, limit \in {48, 52, 56, 60, 64}}

(* Counts that make deep trees, no dictionary: n[k] times letter k.        *)
Skewed ==
  {Game(<<FlattenSeq([k \in 1..6 |-> [m \in 1..n[k] |-> k]]), <<>>>>, <<0, -1>>,
        <<>>, <<>>, <<>>, 65535) :
     n \in {n \in [1..6 -> {0, 1, 2, 3, 5, 8}] :
              Sum(n) <= 24 /\ \A k \in 1..5 : n[k] <= n[k + 1]}}

MCJobs ==
  Games \cup Skewed
  \cup {Game(<<<<x, 200>>>>, <<0>>, <<>>, <<>>, <<>>, 65535),
        Game(<<<<x, y, x, y>>>>, <<1>>, <<<<x, y>>>>, <<<<x, y>>>>, <<<<x, y>>>>, 65535)}
=============================================================================
