------------------------------- MODULE Tokens -------------------------------
(***************************************************************************)
(* Compression of the game's texts.  The optimal encoder (tokselect.c)     *)
(* selects tokens greedily from the texts, or takes those of a marked      *)
(* .tok, drops the ones that do not pay, orders them by use and codes each *)
(* text with the cheapest parse.  The sequential one (tokens.c) replaces   *)
(* one token after the other, twice.  A behaviour is one compilation.      *)
(* Tables and texts count from 1 here, so the code's entry j is token j+1. *)
(***************************************************************************)
EXTENDS Integers, SequencesExt

CONSTANTS
  Jobs,     \* the compilations a run explores
  MAXTOK,   \* the tokens a reference can name besides entry 0 (128)
  BUDGET    \* TOKSEL_EVAL_BUDGET, evaluations before the best is taken (500)

MINLEN == 2
SPACE == 32
DOT == 46
AT == 64
UNDERSCORE == 95
Literals == 1..126   \* a text's bytes; 0 and 127 only stand in entry 0
Blank == {<<0>>, <<127>>}   \* entry 0 of the builtin tables and of a .tok

(* A job is a record                                                       *)
(*   encoder   "none", "sequential", "optimal", or "costed" for the        *)
(*             selection of format 2, which codes the texts elsewhere      *)
(*   tokens    the builtin or .tok table; <<>> when they are selected      *)
(*   texts     the compressable texts, locations first, objects last       *)
(*   objects   how many of them are object texts                           *)
(*   classic   the interpreter scans stored bytes: not NEXTDAAD            *)
(*   pad       classic mode, the table is filled up                        *)
(*   maxtok, maxlen  how many tokens, and how long, are selected           *)
(*   lit, ref, tab   the costs of a literal, a reference, a table byte     *)
Unit(j) == j.ref = 1 /\ j.tab = 1 /\ \A b \in DOMAIN j.lit : j.lit[b] = 1

IsJob(j) ==
  /\ j.encoder \in {"none", "sequential", "optimal", "costed"}
  /\ j.tokens \in Seq(Seq(0..127))
  /\ j.tokens # <<>> => j.tokens[1] \in Blank
  /\ j.texts \in Seq(Seq(Literals))
  /\ j.objects \in 0..Len(j.texts)
  /\ {j.classic, j.pad} \subseteq BOOLEAN
  /\ j.maxtok \in Nat /\ j.maxlen \in Nat /\ j.maxlen >= MINLEN
  /\ \A i \in DOMAIN j.texts : ToSet(j.texts[i]) \subseteq DOMAIN j.lit
  /\ j.lit \in [DOMAIN j.lit -> Nat] /\ j.ref \in Nat /\ j.tab \in Nat
  /\ j.encoder \in {"none", "sequential"} => j.objects = 0
  /\ j.encoder = "optimal" => Unit(j) /\ j.maxtok = MAXTOK
  /\ j.encoder = "costed" => ~j.classic /\ j.tokens = <<>>
  /\ j.encoder = "sequential" => Len(j.tokens) \in 1..MAXTOK + 1

ASSUME JobsAssumption == \A j \in Jobs : IsJob(j)
ASSUME LimitsAssumption ==
  MAXTOK \in Nat /\ BUDGET \in Nat \ {0}

VARIABLES
  job,       \* what is compiled
  phase,     \* where the compilation is
  tokens,    \* chosen, then final_tokens
  heap,      \* candidates with the gain last computed, or its bound
  cache,     \* cache[i], cost of text i under the tokens chosen so far
  fresh,     \* candidates evaluated since the last pick
  evals,     \* how many evaluations that took
  best,      \* the best of them
  sweep,     \* 1 or 2, the prune's sweep
  at,        \* the token the prune or the sequential pass is at
  removed,   \* a token was dropped in this sweep
  cur,       \* cost of all texts under tokens, as the prune keeps it
  texts,     \* the texts as they are stored
  copies,    \* the sequential encoder's working copies
  savings    \* token_savings

select == <<heap, cache, fresh, evals, best>>
prune == <<sweep, at, removed, cur>>
coded == <<texts, copies, savings>>
vars == <<job, phase, tokens, select, prune, coded>>

Ref(j) == 126 + j             \* the byte that stands for token j
None == [tok |-> <<>>, gain |-> 0]
-----------------------------------------------------------------------------
(* Parsing                                                                 *)

IsAt(t, s, p) == p + Len(t) - 1 <= Len(s) /\ SubSeq(s, p, p + Len(t) - 1) = t
Occurs(t, s) == \E p \in DOMAIN s : IsAt(t, s, p)
Bytes(toks) == SumFunction([j \in DOMAIN toks |-> Len(toks[j])])

ObjectRule(i) == job.classic /\ i > Len(job.texts) - job.objects

(* Only the first space after the first word is kept.                      *)
MutantProtected(s) ==
  IF SPACE \notin ToSet(s) THEN Len(s)
  ELSE SelectInSeq(s, LAMBDA c : c = SPACE) - 1

(* The first word of an object text and the spaces after it.               *)
Protected(s) ==
  IF SPACE \notin ToSet(s) THEN Len(s)
  ELSE LET sp == SelectInSeq(s, LAMBDA c : c = SPACE)
       IN  Max({n \in sp..Len(s) : \A p \in sp..n : s[p] = SPACE})

(* The tokens a parse may use at position p of text i.                     *)
Usable(toks, i, p) ==
  LET s == job.texts[i]
  IN  {j \in DOMAIN toks :
         /\ toks[j] # <<>> /\ IsAt(toks[j], s, p)
         /\ ObjectRule(i) => p > Protected(s) /\ DOT \notin ToSet(toks[j])}

(* The cheapest way to code text i from each position on, last to first.   *)
Costs(toks, i) ==
  LET s == job.texts[i]
      Before(from, p) ==       \* from is what the positions after p cost
        <<Min({job.lit[s[p]] + from[1]} \cup
              {job.ref + from[Len(toks[j])] : j \in Usable(toks, i, p)})>> \o from
  IN  FoldLeft(Before, <<0>>, [k \in DOMAIN s |-> Len(s) + 1 - k])

ParseCost(toks, i) == Costs(toks, i)[1]
Total(toks) == SumFunction([i \in DOMAIN job.texts |-> ParseCost(toks, i)])
-----------------------------------------------------------------------------
(* Selection                                                               *)

(* A candidate never holds what an interpreter must see in the stored      *)
(* text: a placeholder, and in an object text a full stop.                 *)
Hidden(i) == IF ObjectRule(i) THEN {UNDERSCORE, AT, DOT} ELSE {UNDERSCORE, AT}

CandidatesOf(i) ==
  LET s == job.texts[i]
      From(p) == IF p <= (IF ObjectRule(i) THEN Protected(s) ELSE 0) THEN <<>>
                 ELSE [k \in 1..Max({0, Min({job.maxlen, Len(s) - p + 1}) - MINLEN + 1})
                         |-> SubSeq(s, p, p + k + MINLEN - 2)]
  IN  SelectSeq(FlattenSeq([p \in DOMAIN s |-> From(p)]),
                LAMBDA c : job.classic => ToSet(c) \cap Hidden(i) = {})

(* Every occurrence, in the order the texts are scanned.                   *)
Occurrences == FlattenSeq([i \in DOMAIN job.texts |-> CandidatesOf(i)])

Plain(s) == SumFunction([p \in DOMAIN s |-> job.lit[s[p]]])

(* A candidate enters the heap with what it would gain if every occurrence *)
(* of it could be used.                                                    *)
Candidates ==
  LET occ == Occurrences
      Count(c) == Cardinality({n \in DOMAIN occ : occ[n] = c})
      Bound(c) == Count(c) * (Plain(c) - job.ref) - Len(c) * job.tab
  IN  {[tok |-> c, idx |-> SelectInSeq(occ, LAMBDA o : o = c),
        bound |-> Bound(c)] :
         c \in {c \in ToSet(occ) : Count(c) >= 2 /\ Bound(c) > 0}}

Top == CHOOSE e \in heap : \A f \in heap :
         e.bound > f.bound \/ (e.bound = f.bound /\ e.idx <= f.idx)

(* The selection goes on while candidates pay and there is room.          *)
InRound == Len(tokens) < job.maxtok /\ heap # {} /\ evals < BUDGET

(* The gain of a candidate: only the texts that hold it are parsed again.  *)
Gain(t) ==
  MapThenSumSet(LAMBDA i : cache[i] - ParseCost(Append(tokens, t), i),
                {i \in DOMAIN job.texts : Occurs(t, job.texts[i])})
  - Len(t) * job.tab

(* tokselect_run: the heap is filled.                                      *)
Extract ==
  /\ phase = "start" /\ job.tokens = <<>>
  /\ job.encoder \in {"optimal", "costed"}
  /\ heap' = Candidates
  /\ cache' = [i \in DOMAIN job.texts |-> Plain(job.texts[i])]
  /\ phase' = "select"
  /\ UNCHANGED <<job, tokens, fresh, evals, best, prune, coded>>

(* A token taken as the best of a round is still in the heap.              *)
PopTaken ==
  /\ phase = "select" /\ InRound /\ Top.tok \in ToSet(tokens)
  /\ heap' = heap \ {Top}
  /\ UNCHANGED <<job, phase, tokens, cache, fresh, evals, best, prune, coded>>

(* A gain from before the last pick is computed again; a candidate that    *)
(* has nothing left to gain is dropped for good.                           *)
EvalTop ==
  /\ phase = "select" /\ InRound
  /\ Top.tok \notin ToSet(tokens) \cup fresh
  /\ LET net == Gain(Top.tok)
     IN  IF net > 0
         THEN /\ heap' = (heap \ {Top}) \cup {[Top EXCEPT !.bound = net]}
              /\ fresh' = fresh \cup {Top.tok}
              /\ best' = IF best = None \/ net > best.gain
                         THEN [tok |-> Top.tok, gain |-> net] ELSE best
         ELSE heap' = heap \ {Top} /\ UNCHANGED <<fresh, best>>
  /\ evals' = evals + 1
  /\ UNCHANGED <<job, phase, tokens, cache, prune, coded>>

(* The cached costs are left as they were.                                 *)
MutantPick(t) ==
  /\ tokens' = Append(tokens, t)
  /\ cache' = cache
  /\ evals' = 0 /\ fresh' = {} /\ best' = None
  /\ UNCHANGED <<job, phase, prune, coded>>

Pick(t) ==
  /\ tokens' = Append(tokens, t)
  /\ cache' = [i \in DOMAIN cache |-> IF Occurs(t, job.texts[i])
                                      THEN ParseCost(tokens', i) ELSE cache[i]]
  /\ evals' = 0 /\ fresh' = {} /\ best' = None
  /\ UNCHANGED <<job, phase, prune, coded>>

(* The top's gain is up to date: nothing below it can be worth more than   *)
(* its own bound.                                                          *)
TakeTop ==
  /\ phase = "select" /\ InRound /\ Top.tok \in fresh
  /\ heap' = heap \ {Top}
  /\ Pick(Top.tok)

(* The budget ran out before such a top was seen.                          *)
TakeBest ==
  /\ phase = "select" /\ ~InRound /\ best # None
  /\ Pick(best.tok)
  /\ UNCHANGED heap

StopSelect ==
  /\ phase = "select" /\ ~InRound /\ best = None
  /\ phase' = "prune"
  /\ sweep' = 1 /\ at' = Len(tokens) /\ removed' = FALSE
  /\ cur' = SumFunction(cache)
  /\ UNCHANGED <<job, tokens, select, coded>>
-----------------------------------------------------------------------------
(* Pruning, of what was selected and of the table that is used             *)

(* Entry 0 of a table stays.                                               *)
Lowest == IF phase = "prune" THEN 1 ELSE 2

Pruning == phase \in {"prune", "drop"}

(* A token goes when the texts grow by less than it takes in the table.    *)
TryDrop ==
  /\ Pruning /\ at >= Lowest
  /\ LET trial == RemoveAt(tokens, at)
         tot == Total(trial)
     IN  IF tot - cur < Len(tokens[at]) * job.tab
         THEN tokens' = trial /\ cur' = tot /\ removed' = TRUE
         ELSE UNCHANGED <<tokens, cur, removed>>
  /\ at' = at - 1
  /\ UNCHANGED <<job, phase, select, sweep, coded>>

NextSweep ==
  /\ Pruning /\ at < Lowest /\ sweep = 1 /\ removed
  /\ sweep' = 2 /\ at' = Len(tokens) /\ removed' = FALSE
  /\ UNCHANGED <<job, phase, tokens, select, cur, coded>>

Pruned == at < Lowest /\ (sweep = 2 \/ ~removed)

(* Heaviest first, the order kept among equals.                            *)
Ordered(toks, weight) ==
  LET order == SortSeq([j \in DOMAIN toks |-> j],
                       LAMBDA a, b : \/ weight[a] > weight[b]
                                     \/ weight[a] = weight[b] /\ a < b)
  IN  [j \in DOMAIN toks |-> toks[order[j]]]

SortChosen ==
  /\ phase = "prune" /\ Pruned
  /\ tokens' = Ordered(tokens, [j \in DOMAIN tokens |-> Len(tokens[j])])
  /\ phase' = IF job.encoder = "costed" THEN "done" ELSE "load"
  /\ UNCHANGED <<job, select, prune, coded>>
-----------------------------------------------------------------------------
(* tokselect_compress                                                      *)

Load ==
  /\ \/ phase = "load" /\ tokens' = <<<<0>>>> \o tokens
     \/ /\ phase = "start" /\ job.encoder = "optimal"
        /\ job.tokens # <<>> /\ tokens' = job.tokens
  /\ phase' = "drop"
  /\ sweep' = 1 /\ at' = Len(tokens') /\ removed' = FALSE
  /\ cur' = Total(tokens')
  /\ UNCHANGED <<job, select, coded>>

(* Only a .tok can hold more tokens than references can name.              *)
TooMany ==
  /\ phase = "drop" /\ Pruned /\ Len(tokens) > MAXTOK + 1
  /\ phase' = "failed"
  /\ UNCHANGED <<job, tokens, select, prune, coded>>

(* The first of the cheapest tokens, where it beats the literal.           *)
Encoded(toks, i) ==
  LET s == job.texts[i]
      from == Costs(toks, i)
      Cheapest(p) == {j \in Usable(toks, i, p) :
                        /\ from[p] = job.ref + from[p + Len(toks[j])]
                        /\ from[p] < job.lit[s[p]] + from[p + 1]}
      code[p \in 1..Len(s) + 1] ==
        IF p > Len(s) THEN <<>>
        ELSE IF Cheapest(p) = {} THEN <<s[p]>> \o code[p + 1]
        ELSE LET j == Min(Cheapest(p))
             IN  <<Ref(j)>> \o code[p + Len(toks[j])]
  IN  code[1]

(* Classic interpreters have a table of 128 entries.                       *)
Filled(toks) ==
  IF job.pad THEN toks \o [j \in 1..Max({0, MAXTOK - Len(toks)}) |-> <<SPACE>>]
  ELSE toks

Order ==
  /\ phase = "drop" /\ Pruned /\ Len(tokens) <= MAXTOK + 1
  /\ LET all == FlattenSeq([i \in DOMAIN job.texts |-> Encoded(tokens, i)])
         uses == [j \in 1..Len(tokens) - 1 |->
                    Cardinality({n \in DOMAIN all : all[n] = Ref(j + 1)})]
     IN  tokens' = Filled(<<tokens[1]>> \o Ordered(Tail(tokens), uses))
  /\ phase' = "encode"
  /\ UNCHANGED <<job, select, prune, coded>>

Encode ==
  /\ phase = "encode"
  /\ texts' = [i \in DOMAIN texts |-> Encoded(tokens, i)]
  /\ phase' = "verify"
  /\ UNCHANGED <<job, tokens, select, prune, copies, savings>>

(* backend_run decodes every text before it goes on.                       *)
Verify ==
  /\ phase = "verify"
  /\ LET Expand(b) == IF b < 128 THEN <<b>> ELSE tokens[b - 126]
         Expanded(s) == FlattenSeq([p \in DOMAIN s |-> Expand(s[p])])
         Decodes(i) == /\ \A p \in DOMAIN texts[i] : texts[i][p] <= Ref(Len(tokens))
                       /\ Expanded(texts[i]) = job.texts[i]
     IN  phase' = IF \A i \in DOMAIN texts : Decodes(i) THEN "done" ELSE "failed"
  /\ UNCHANGED <<job, tokens, select, prune, coded>>
-----------------------------------------------------------------------------
(* tokens_compress                                                         *)

(* Where a token starts when it is replaced from left to right.            *)
Starts(t, s) ==
  LET from[p \in 1..Len(s) + Len(t)] ==
        IF p > Len(s) THEN {}
        ELSE IF IsAt(t, s, p) THEN {p} \cup from[p + Len(t)]
        ELSE from[p + 1]
  IN  IF t = <<>> THEN {} ELSE from[1]

Replaced(t, s, b) ==
  LET starts == Starts(t, s)
      Covered(p) == \E q \in starts : q < p /\ p < q + Len(t)
  IN  FlattenSeq([p \in DOMAIN s |-> IF p \in starts THEN <<b>>
                                     ELSE IF Covered(p) THEN <<>> ELSE <<s[p]>>])

NoTokens ==
  /\ phase = "start" /\ job.encoder = "none"
  /\ phase' = "done"
  /\ UNCHANGED <<job, tokens, select, prune, coded>>

StartSequential ==
  /\ phase = "start" /\ job.encoder = "sequential"
  /\ phase' = "first"
  /\ at' = 1 /\ copies' = job.texts
  /\ savings' = [j \in DOMAIN job.tokens |-> 0]
  /\ UNCHANGED <<job, tokens, select, sweep, removed, cur, texts>>

(* The first replacement of a token is a byte lost to the table, each      *)
(* further one saves what it shortens.                                     *)
FirstPass ==
  /\ phase = "first" /\ at <= Len(job.tokens)
  /\ LET t == job.tokens[at]
         n == SumFunction([i \in DOMAIN copies |-> Cardinality(Starts(t, copies[i]))])
     IN  /\ savings' = [savings EXCEPT ![at] =
                          IF n = 0 THEN 0 ELSE (n - 1) * (Len(t) - 1) - 1]
         /\ copies' = [i \in DOMAIN copies |-> Replaced(t, copies[i], Ref(at))]
  /\ at' = at + 1
  /\ UNCHANGED <<job, phase, tokens, select, sweep, removed, cur, texts>>

(* The second pass names tokens by their place among those that are left.  *)
Survivors ==
  /\ phase = "first" /\ at > Len(job.tokens)
  /\ LET kept == SelectSeq([j \in DOMAIN job.tokens |-> j],
                           LAMBDA j : j = 1 \/ savings[j] > 0)
     IN  tokens' = Filled([k \in DOMAIN kept |-> job.tokens[kept[k]]])
  /\ phase' = "second" /\ at' = 1
  /\ UNCHANGED <<job, select, sweep, removed, cur, coded>>

(* The byte of the token's place in the table that was loaded.             *)
MutantSecondPass ==
  /\ phase = "second" /\ at <= Len(tokens)
  /\ texts' = [i \in DOMAIN texts |->
                 Replaced(tokens[at], texts[i],
                          IF tokens[at] \in ToSet(job.tokens)
                          THEN Ref(SelectInSeq(job.tokens, LAMBDA t : t = tokens[at]))
                          ELSE Ref(at))]
  /\ at' = at + 1
  /\ UNCHANGED <<job, phase, tokens, select, sweep, removed, cur, copies, savings>>

SecondPass ==
  /\ phase = "second" /\ at <= Len(tokens)
  /\ texts' = [i \in DOMAIN texts |-> Replaced(tokens[at], texts[i], Ref(at))]
  /\ at' = at + 1
  /\ UNCHANGED <<job, phase, tokens, select, sweep, removed, cur, copies, savings>>

EndSequential ==
  /\ phase = "second" /\ at > Len(tokens)
  /\ phase' = "done"
  /\ UNCHANGED <<job, tokens, select, prune, coded>>
-----------------------------------------------------------------------------
Init ==
  /\ job \in Jobs
  /\ phase = "start" /\ tokens = <<>>
  /\ heap = {} /\ cache = <<>> /\ fresh = {} /\ evals = 0 /\ best = None
  /\ sweep = 1 /\ at = 0 /\ removed = FALSE /\ cur = 0
  /\ texts = job.texts /\ copies = <<>> /\ savings = <<>>

Select == Extract \/ PopTaken \/ EvalTop \/ TakeTop \/ TakeBest \/ StopSelect
Prune == TryDrop \/ NextSweep \/ SortChosen
Compress == Load \/ TooMany \/ Order \/ Encode \/ Verify
Sequential == NoTokens \/ StartSequential \/ FirstPass \/ Survivors
                \/ SecondPass \/ EndSequential
Finished == phase \in {"done", "failed"} /\ UNCHANGED vars

Next == Select \/ Prune \/ Compress \/ Sequential \/ Finished

Spec == Init /\ [][Next]_vars
-----------------------------------------------------------------------------
(* The bytes tokens_emit writes: each token's last has bit 7 set.          *)
Table ==
  IF tokens = <<>> THEN <<0>>
  ELSE FlattenSeq([j \in DOMAIN tokens |->
                     [p \in DOMAIN tokens[j] |->
                        IF p < Len(tokens[j]) THEN tokens[j][p]
                        ELSE tokens[j][p] + 128]])

(* How an interpreter finds an entry (decode_at): a reference b skips      *)
(* b - 127 bytes with bit 7 set, and the entry runs to the next one.       *)
Entry(b) ==
  LET ends == <<0>> \o SelectSeq([p \in DOMAIN Table |-> p], LAMBDA p : Table[p] >= 128)
  IN  IF Len(ends) < b - 125 THEN <<>>
      ELSE [p \in 1..ends[b - 125] - ends[b - 126] |-> Table[ends[b - 126] + p] % 128]

(* Every text, expanded through the table as it is written to the          *)
(* database, is the text of the source: tokens are named by where they     *)
(* end up after pruning, ordering, filtering and filling.  On the optimal  *)
(* encoder this holds before the self-check that would refuse it.          *)
TextsDecode ==
  phase \in {"verify", "done"} /\ job.encoder # "costed" =>
    \A i \in DOMAIN texts :
      FlattenSeq([p \in DOMAIN texts[i] |->
                    IF texts[i][p] < 128 THEN <<texts[i][p]>>
                    ELSE Entry(texts[i][p])]) = job.texts[i]

(* Each token selected, and each one pruned, makes texts and table         *)
(* together cheaper: the gains read off the heap and the totals the prune  *)
(* carries along are those of the tokens there are now (select_greedy,     *)
(* tokselect_compress).                                                    *)
StepsPay ==
  [][phase' = phase /\ phase \in {"select", "prune", "drop"} /\ tokens' # tokens
       => Total(tokens') + Bytes(tokens') * job.tab
            < Total(tokens) + Bytes(tokens) * job.tab]_vars

(* An interpreter that scans the stored bytes of an object text sees the   *)
(* source's first word, the spaces after it and every full stop            *)
(* (docs/cli.md:169-173).                                                  *)
ObjectsKeepWords ==
  phase \in {"verify", "done"} =>
    \A i \in DOMAIN texts :
      ObjectRule(i) =>
        LET s == job.texts[i]
            Dots(x) == Cardinality({p \in DOMAIN x : x[p] = DOT})
            Word == Max({n \in 0..Len(s) : \A p, q \in 1..n :
                           p < q /\ s[p] = SPACE => s[q] = SPACE})
        IN  /\ \A p \in 1..Word : p \in DOMAIN texts[i] /\ texts[i][p] = s[p]
            /\ Dots(texts[i]) = Dots(s)
=============================================================================
