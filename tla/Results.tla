------------------------------ MODULE Results ------------------------------
(***************************************************************************)
(* From answered requests to the comparison table: what the eval script    *)
(* (bench/bench.py) computes for one configuration, and the table that     *)
(* internal/bench/results.go builds of a run.  Times are milliseconds,     *)
(* rates are per second, and rounding is to whole numbers.  The order of   *)
(* the rows and their wording are left out: a table is a function from     *)
(* rows to their cells.                                                    *)
(***************************************************************************)
EXTENDS Integers, SequencesExt

-----------------------------------------------------------------------------
(* bench.py.  A sample is what came of a series of requests: the answers,  *)
(* each with its time to first token (ttft), the time after it (decode),   *)
(* and its tokens and prompt tokens, and how many requests had errors.     *)

Total(measure, answers) == FoldSeq(LAMBDA a, sum : a[measure] + sum, 0, answers)

Rate(amount, time) == IF time > 0 THEN (amount * 1000) \div time ELSE 0

(* Interpolated between the two nearest ranks; 0 of no values.             *)
Percentile(values, pct) ==
  IF values = <<>> THEN 0
  ELSE LET sorted == SortSeq(values, <)
           k == (Len(values) - 1) * pct
           lo == k \div 100 + 1
           hi == IF lo < Len(values) THEN lo + 1 ELSE lo
       IN  sorted[lo] + ((sorted[hi] - sorted[lo]) * (k % 100)) \div 100

Ttfts(answers) == [i \in 1 .. Len(answers) |-> answers[i].ttft]

(* Zeros all over when no request was answered.                            *)
SingleStream(sample) ==
  [tok      |-> Rate(Total("tokens", sample.answers), Total("decode", sample.answers)),
   p50      |-> Percentile(Ttfts(sample.answers), 50),
   p95      |-> Percentile(Ttfts(sample.answers), 95),
   requests |-> Len(sample.answers), errors |-> sample.errors]

ConcurrencyLevel(sample) ==
  LET latencies == [i \in 1 .. Len(sample.answers) |->
                      sample.answers[i].ttft + sample.answers[i].decode]
  IN  [tok      |-> Rate(Total("tokens", sample.answers), sample.wall),
       p50      |-> Percentile(latencies, 50),
       p95      |-> Percentile(latencies, 95),
       requests |-> Len(sample.answers), errors |-> sample.errors]

EvalTokens(sample) ==
  [prefill    |-> Rate(Total("prompt", sample.answers), Total("ttft", sample.answers)),
   decode     |-> Rate(Total("tokens", sample.answers), Total("decode", sample.answers)),
   p50        |-> Percentile(Ttfts(sample.answers), 50),
   p95        |-> Percentile(Ttfts(sample.answers), 95),
   prompt     |-> Total("prompt", sample.answers),
   completion |-> Total("tokens", sample.answers),
   requests   |-> Len(sample.answers), errors |-> sample.errors]

(* Scores are percentages.  A row without an answer is not correct.        *)
EvalJsonl(graded) ==
  [score |-> IF graded.total > 0 THEN (100 * graded.correct) \div graded.total ELSE 0,
   tasks |-> <<>>]

Mean(score, names) ==
  FoldFunction(LAMBDA v, sum : v + sum, 0, [t \in names |-> score[t]]) \div Cardinality(names)

(* The requested tasks count, or all that were reported if none of those   *)
(* was: groups report their subtasks too.                                  *)
EvalLmeval(requested, score) ==
  LET reported == DOMAIN score
      top == requested \intersect reported
  IN  [score |-> IF top # {} THEN Mean(score, top)
                 ELSE IF reported # {} THEN Mean(score, reported) ELSE 0,
       tasks |-> score]

(* main: the sections of the result; an accuracy pass that raises an error *)
(* or whose dataset is not found has none.  The runner adds the resources  *)
(* it has sampled.                                                         *)
RunEval(eval, out) ==
  [single |-> SingleStream(out.single),
   levels |-> [n \in DOMAIN out.levels |-> ConcurrencyLevel(out.levels[n])],
   resources |-> out.resources]
  @@ CASE out.raised             -> <<>>
       [] eval.kind = "jsonl"    -> [accuracy |-> EvalJsonl(out.graded)]
       [] eval.kind = "tokens"   -> [tokens |-> EvalTokens(out.replayed)]
       [] eval.kind = "lmeval"   -> [accuracy |-> EvalLmeval(eval.tasks, out.scores)]
       [] OTHER                  -> <<>>

-----------------------------------------------------------------------------
(* results.go.  A result is [startup, metrics]; metrics that are nil have  *)
(* no sections.                                                            *)

Unmeasured == [startup |-> 0, metrics |-> <<>>]

(* Every section a result of the run reports adds its rows.                *)
Sections(results, part) ==
  {results[i].metrics[part] :
     i \in {j \in 1 .. Len(results) : part \in DOMAIN results[j].metrics}}

Levels(results) == UNION {DOMAIN levels : levels \in Sections(results, "levels")}

TaskNames(results) == UNION {DOMAIN accuracy.tasks : accuracy \in Sections(results, "accuracy")}

Rows(results) ==
  {<<"startup">>, <<"accuracy">>}
    \union ({"single"} \X {"tok", "p50", "p95"})
    \union ({"levels"} \X Levels(results) \X {"tok", "p50", "p95"})
    \union ({"tokens"} \X {"prefill", "decode", "p50", "p95", "prompt", "completion"})
    \union ({"accuracy"} \X TaskNames(results))
    \union ({"resources"} \X {"vram", "util"})

NotReported == -1

(* get: the value a result has in a row.                                   *)
Value(row, result) ==
  LET m == result.metrics
      part == row[1]
  IN  CASE part = "startup" ->
             IF result.startup > 0 THEN result.startup ELSE NotReported
        [] part # "startup" /\ part \notin DOMAIN m -> NotReported
        [] part = "single" /\ part \in DOMAIN m -> m.single[row[2]]
        [] part = "levels" /\ part \in DOMAIN m ->
             IF row[2] \in DOMAIN m.levels THEN m.levels[row[2]][row[3]] ELSE NotReported
        [] part = "tokens" /\ part \in DOMAIN m ->
             IF m.tokens.requests > 0 THEN m.tokens[row[2]] ELSE NotReported
        [] part = "accuracy" /\ part \in DOMAIN m ->
             IF Len(row) = 1 THEN m.accuracy.score
             ELSE IF row[2] \in DOMAIN m.accuracy.tasks THEN m.accuracy.tasks[row[2]]
             ELSE NotReported
        [] part = "resources" /\ part \in DOMAIN m ->
             IF row[2] = "vram"
             THEN IF m.resources.vram > 0 THEN m.resources.vram ELSE NotReported
             ELSE IF m.resources.samples > 0 THEN m.resources.util ELSE NotReported

Reports(row, result) == Value(row, result) # NotReported

(* What a result reports are numbers (types.go). *)
Numeric(result) ==
  LET m == result.metrics
  IN  /\ result.startup \in Int
      /\ "single" \in DOMAIN m => \A f \in {"tok", "p50", "p95"} : m.single[f] \in Int
      /\ "levels" \in DOMAIN m =>
           \A n \in DOMAIN m.levels, f \in {"tok", "p50", "p95"} : m.levels[n][f] \in Int
      /\ "tokens" \in DOMAIN m =>
           \A f \in {"prefill", "decode", "p50", "p95", "prompt", "completion"} : m.tokens[f] \in Int
      /\ "accuracy" \in DOMAIN m =>
           m.accuracy.score \in Int /\ \A t \in DOMAIN m.accuracy.tasks : m.accuracy.tasks[t] \in Int
      /\ "resources" \in DOMAIN m => m.resources.vram \in Int /\ m.resources.util \in Int

LowerIsBetter(row) ==
  \/ row[1] = "startup" \/ row = <<"resources", "vram">>
  \/ Len(row) > 1 /\ row[1] # "accuracy" /\ row[Len(row)] \in {"p50", "p95"}
NotRated(row) ==
  row \in {<<"tokens", "prompt">>, <<"tokens", "completion">>, <<"resources", "util">>}

Beats(row, v, w) ==
  ~NotRated(row) /\ IF LowerIsBetter(row) THEN v < w ELSE v > w

(* Mutant: a configuration that does not report the row takes part in it.  *)
BestIdxOfAll(row, results) ==
  LET best[i \in 0 .. Len(results)] ==
        IF i = 0 THEN 0
        ELSE LET b == best[i - 1]
             IN  IF b = 0 \/ Beats(row, Value(row, results[i]), Value(row, results[b]))
                 THEN i ELSE b
  IN  best[Len(results)]

(* The loop that looks for bestIdx; 0 stands for -1.                       *)
BestIdx(row, results) ==
  LET best[i \in 0 .. Len(results)] ==
        IF i = 0 THEN 0
        ELSE LET b == best[i - 1]
             IN  IF /\ Reports(row, results[i])
                    /\ b = 0 \/ Beats(row, Value(row, results[i]), Value(row, results[b]))
                 THEN i ELSE b
  IN  best[Len(results)]

(* Only when there is something to compare.                                *)
Highlight(row, results) ==
  ~NotRated(row) /\ Cardinality({i \in 1 .. Len(results) : Reports(row, results[i])}) > 1

(* The page and the CSV export show this table.                            *)
BuildTable(results) ==
  [row \in {r \in Rows(results) : BestIdx(r, results) # 0} |->
     [i \in 1 .. Len(results) |->
        [value |-> Value(row, results[i]),
         best  |-> Highlight(row, results) /\ i = BestIdx(row, results)]]]
=============================================================================
