--------------------------- MODULE BenchmarkReport ---------------------------
(***************************************************************************)
(* What a benchmark run reports while its samples still change: the        *)
(* aggregations of app/benchmarks/statistics.py, the winner policy of      *)
(* winners.py, the failure taxonomy of reliability.py and the export of    *)
(* exporting.py, which reads the run in one session and its result rows in *)
(* another.                                                                *)
(*                                                                         *)
(* How samples get their outcomes is module BenchmarkSamples; here each    *)
(* transaction that changes what a report can see is one action. Means are *)
(* exact fractions, where the code has floats; costs, tokens, latencies,   *)
(* confidence intervals and AI scores are descriptive fields that decide   *)
(* nothing and are left out.                                               *)
(***************************************************************************)
EXTENDS Integers, FiniteSets, Sequences, FiniteSetsExt, SequencesExt, Ranking

CONSTANTS
  Configs,     \* model configurations, numbered in the order of their fingerprints
  Tasks,       \* tasks of the dataset
  Indices,     \* sample indices of a task, as many as samples_per_task
  Weight,      \* task weights
  Scores,      \* deterministic scores an evaluation may have
  Codes,       \* failure codes the provider may answer with
  Unit,        \* a common denominator of the means of up to samples_per_task scores
  MaxExports   \* bound on the exports taken

ASSUME PlanAssumption ==
  /\ IsFiniteSet(Configs) /\ Configs \subseteq Nat /\ IsFiniteSet(Tasks) /\ Tasks # {}
  /\ IsFiniteSet(Indices) /\ Indices # {} /\ Weight \in [Tasks -> Nat \ {0}]
  /\ Unit \in Nat \ {0} /\ \A n \in 1..Cardinality(Indices) : Unit % n = 0
  /\ Scores \subseteq 0..100 /\ MaxExports \in Nat
  /\ IsFiniteSet(Codes) /\ Codes \cap {"none", "worker_failure", "worker_lease_expired"} = {}

VARIABLES
  rows,      \* result_rows: samples joined with their artifact and evaluation
  run,       \* benchmark_runs.status
  reader,    \* the export in progress
  published, \* the documents exported so far
  exports

vars == <<rows, run, reader, published, exports>>

Samples == Configs \X Tasks \X Indices
Repeats == Cardinality(Indices)
None == -1
Terminal == {"completed", "generation_failed", "evaluation_failed", "skipped"}
_TERMINAL_RUNS == {"completed", "partial"}

NewRow == [status |-> "queued", artifact |-> FALSE, score |-> None, correct |-> FALSE, code |-> "none"]

-----------------------------------------------------------------------------
(* Which rows a statistic is taken over. *)

Of(c) == {c} \X Tasks \X Indices
OfTask(c, t) == {c} \X {t} \X Indices
Evaluated(rs, S) == {s \in S : rs[s].score # None}
Generated(rs, S) == {s \in S : rs[s].artifact}
Failed(rs, S) == {s \in S : rs[s].status = "generation_failed"}
is_correct_evaluation(row) == row.correct
Correct(rs, S) == {s \in Evaluated(rs, S) : is_correct_evaluation(rs[s])}
EndToEnd(rs, S) == {s \in Correct(rs, S) : rs[s].artifact}

ScoreSum(rs, S) == SumFunction([s \in Evaluated(rs, S) |-> rs[s].score])
SquareSum(rs, S) == SumFunction([s \in Evaluated(rs, S) |-> rs[s].score * rs[s].score])
Weights(T) == SumFunction([t \in T |-> Weight[t]])

\* Fractions: [num, den] with a positive denominator; None is below every score.
Fraction(n, d) == [num |-> n, den |-> d]
Unknown == Fraction(None, 1)
Less(a, b) == a.num * b.den < b.num * a.den
Equal(a, b) == a.num * b.den = b.num * a.den

\* The score at a place, when the scores of a task or a model are sorted.
ScoreAt(rs, S, place) ==
  LET done == Evaluated(rs, S)
      UpTo(x) == {s \in done : rs[s].score <= x}
  IN Min({x \in {rs[s].score : s \in done} : Cardinality(UpTo(x)) >= place})

metric_median(rs, S) ==
  LET n == Cardinality(Evaluated(rs, S))
  IN IF n = 0 THEN Unknown
     ELSE Fraction(ScoreAt(rs, S, (n + 1) \div 2) + ScoreAt(rs, S, n \div 2 + 1), 2)

-----------------------------------------------------------------------------
(* statistics.py *)

MeasuredTasks(rs, c) == {t \in Tasks : Evaluated(rs, OfTask(c, t)) # {}}

\* Completed scores are averaged inside a task, the task mean is weighted once.
weighted_mean(rs, c) ==
  LET measured == MeasuredTasks(rs, c)
      TaskMean(t) == (Unit \div Cardinality(Evaluated(rs, OfTask(c, t)))) * ScoreSum(rs, OfTask(c, t))
  IN IF measured = {} THEN Unknown
     ELSE Fraction(SumFunction([t \in measured |-> Weight[t] * TaskMean(t)]), Unit * Weights(measured))

\* Mutant: a task is divided by its completed samples.
coverage_adjusted_CompletedOnly(rs, c) ==
  LET measured == MeasuredTasks(rs, c) IN
  IF measured = {} THEN Fraction(0, 1)
  ELSE Fraction(SumFunction([t \in measured |-> Weight[t] * ScoreSum(rs, OfTask(c, t))]),
                Max({Cardinality(Evaluated(rs, OfTask(c, t))) : t \in measured}) * Weights(measured))

\* Missing samples count as zero, over the weight of every planned task.
coverage_adjusted(rs, c) ==
  Fraction(SumFunction([t \in Tasks |-> Weight[t] * ScoreSum(rs, OfTask(c, t))]), Repeats * Weights(Tasks))

_task_consistency(rs, S) ==
  LET done == Evaluated(rs, S) IN
  CASE done = {} -> "no_completed_evaluations"
    [] done # {} /\ Correct(rs, S) = {} -> "never_correct"
    [] Correct(rs, S) # {} /\ Correct(rs, S) # done -> "sometimes_correct"
    [] done # {} /\ Correct(rs, S) = done /\ done = S -> "consistently_correct"
    [] OTHER -> "incomplete_coverage"

\* The sample variance, n - 1 in the denominator; 5 and 15 points are the bounds of the deviation.
_stability_label(rs, c) ==
  LET n == Cardinality(Evaluated(rs, Of(c)))
      spread == n * SquareSum(rs, Of(c)) - ScoreSum(rs, Of(c)) * ScoreSum(rs, Of(c))
  IN CASE Repeats < 2 \/ n < 2 -> "not_enough_samples"
       [] Repeats >= 2 /\ n >= 2 /\ spread <= 25 * n * (n - 1) -> "high"
       [] Repeats >= 2 /\ n >= 2 /\ spread > 25 * n * (n - 1) /\ spread <= 225 * n * (n - 1) -> "moderate"
       [] OTHER -> "low"

\* Mutant: evaluations are compared with the generations that succeeded.
evaluate_winner_eligibility_OfGenerated(planned, successful, completed) ==
  planned > 0 /\ successful > 0 /\ completed = successful

evaluate_winner_eligibility(planned, successful, completed) ==
  planned > 0 /\ successful = planned /\ completed = planned

_entry(rs, c) ==
  [config |-> c,
   mean |-> weighted_mean(rs, c),
   adjusted |-> coverage_adjusted(rs, c),
   completed |-> Cardinality(Evaluated(rs, Of(c))),
   median |-> metric_median(rs, Of(c)),
   stability |-> _stability_label(rs, c),
   consistency |-> [t \in Tasks |-> _task_consistency(rs, OfTask(c, t))],
   eligible |-> evaluate_winner_eligibility(Cardinality(Of(c)), Cardinality(Generated(rs, Of(c))),
                                            Cardinality(Evaluated(rs, Of(c))))]

\* Every entry plans the same number of samples, so completed orders as coverage does.
_rank_key(a, b) ==
  \/ Less(b.mean, a.mean)
  \/ Equal(a.mean, b.mean) /\ a.completed > b.completed
  \/ Equal(a.mean, b.mean) /\ a.completed = b.completed /\ Less(b.median, a.median)
  \/ Equal(a.mean, b.mean) /\ a.completed = b.completed /\ Equal(a.median, b.median) /\ a.config < b.config

build_leaderboard(rs) == InOrder({_entry(rs, c) : c \in Configs}, _rank_key)

\* The entries of a board, by their places, that have a score.
Measured(board) == {i \in DOMAIN board : board[i].mean # Unknown}

\* The configuration of the first of some entries of a board, as a set: {} is no winner.
First(board, places) == IF places = {} THEN {} ELSE {board[Min(places)].config}

select_winners(board, final) ==
  IF ~final THEN [observed |-> {}, eligible |-> {}, final |-> FALSE]
  ELSE [observed |-> First(board, Measured(board)),
        eligible |-> First(board, {i \in Measured(board) : board[i].eligible}),
        final |-> TRUE]

-----------------------------------------------------------------------------
(* reliability.py *)

_NORMALIZED_FAILURE_CODES ==
  [provider_rate_limited |-> "rate_limited", provider_unauthorized |-> "unauthorized",
   provider_forbidden |-> "forbidden", provider_not_found |-> "not_found",
   provider_unavailable |-> "provider_unavailable", provider_timeout |-> "provider_timeout",
   provider_error |-> "provider_error", provider_request_rejected |-> "provider_error",
   provider_refusal |-> "provider_error", provider_not_configured |-> "provider_error",
   malformed_provider_response |-> "invalid_response", provider_output_too_large |-> "invalid_response",
   output_too_large |-> "invalid_response", malformed_output |-> "malformed_output",
   empty_output |-> "malformed_output"]

normalize_generation_failure(code) ==
  IF code \in DOMAIN _NORMALIZED_FAILURE_CODES THEN _NORMALIZED_FAILURE_CODES[code] ELSE "unknown"

Categories == Range(_NORMALIZED_FAILURE_CODES) \cup {"unknown"}

\* Mutant: a failure is counted in the default category as well.
generation_failure_category_counts_Twice(rs, S) ==
  [k \in Categories |-> Cardinality({s \in Failed(rs, S) : k \in {"unknown", normalize_generation_failure(rs[s].code)}})]

generation_failure_category_counts(rs, S) ==
  [k \in Categories |-> Cardinality({s \in Failed(rs, S) : normalize_generation_failure(rs[s].code) = k})]

\* The counters of single codes are taken over all rows, whatever their status.
failure_codes(rs, S, codes) == Cardinality({s \in S : rs[s].code \in codes})

-----------------------------------------------------------------------------
(* The transactions that change what a report sees. *)

Waiting(s) == rows[s].status \in {"queued", "generated"}

\* _finish_run_if_terminal, in the transaction of the sample.
FinishRun(rs) ==
  run' = IF \E s \in Samples : rs[s].status \notin Terminal THEN "running"
         ELSE IF \E s \in Samples : rs[s].status = "skipped" THEN "partial" ELSE "completed"

Set(s, row) == rows' = [rows EXCEPT ![s] = row] /\ FinishRun(rows') /\ UNCHANGED <<reader, published, exports>>

\* With the artifact the sample is on its way to its evaluation.
store_artifact(s) ==
  /\ rows[s].status = "queued"
  /\ Set(s, [rows[s] EXCEPT !.status = "generated", !.artifact = TRUE])

\* The evaluation and the status become visible together; an earlier failure code is cleared.
complete(s) ==
  /\ rows[s].status = "generated"
  /\ \E x \in Scores, ok \in BOOLEAN :
       /\ x = 100 => ok
       /\ Set(s, [rows[s] EXCEPT !.status = "completed", !.score = x, !.correct = ok, !.code = "none"])

\* A failure is recorded with its code and retried, or it is the last one. Only the provider
\* fails a generation. Any other exception, of the infrastructure or of the worker itself, has
\* the code "worker_failure" here, may come before the artifact as well as after it, and is the
\* last one as a failed evaluation.
record_failure(s) ==
  /\ Waiting(s)
  /\ \/ ~rows[s].artifact /\ \E code \in Codes :
          \/ Set(s, [rows[s] EXCEPT !.code = code])
          \/ Set(s, [rows[s] EXCEPT !.code = code, !.status = "generation_failed"])
     \/ Set(s, [rows[s] EXCEPT !.code = "worker_failure"])
     \/ Set(s, [rows[s] EXCEPT !.code = "worker_failure", !.status = "evaluation_failed"])

recover_stale(s) ==
  /\ Waiting(s)
  /\ \/ Set(s, [rows[s] EXCEPT !.code = "worker_lease_expired"])
     \/ Set(s, [rows[s] EXCEPT !.code = "worker_lease_expired", !.status = "skipped"])

-----------------------------------------------------------------------------
(* What a document says of each model and of the run as a whole. *)

OfStatus(rs, S, status) == Cardinality({s \in S : rs[s].status = status})

_model_document(rs, c) ==
  LET S == Of(c) IN
  [planned |-> Cardinality(S),
   successful |-> Cardinality(Generated(rs, S)),
   completed |-> Cardinality(Evaluated(rs, S)),
   correct |-> Cardinality(Correct(rs, S)),
   end_to_end |-> Cardinality(EndToEnd(rs, S)),
   generation_failures |-> OfStatus(rs, S, "generation_failed"),
   evaluation_failures |-> OfStatus(rs, S, "evaluation_failed")]

_totals(rs) ==
  [recorded |-> Cardinality(Samples),
   completed |-> OfStatus(rs, Samples, "completed"),
   generation_failures |-> OfStatus(rs, Samples, "generation_failed"),
   evaluation_failures |-> OfStatus(rs, Samples, "evaluation_failed")]

\* The snapshot is written with the status, in one transaction, for the identities of the
\* sample: of a completed row it exists and passes the comparison.
_snapshot(row) == row.status = "completed"

\* No leaderboard, and so no winner, is made of a run without results.
Board(rs) == IF \E s \in Samples : _snapshot(rs[s]) THEN build_leaderboard(rs) ELSE <<>>

\* Rows are counted under the code they carry, whatever their status. Configurations of one
\* provider and model share an entry of the document, the sum of theirs here.
WorkerCodes == {"worker_failure", "worker_lease_expired"}
AllCodes == Codes \cup WorkerCodes
_failure_documents(rs, c) == [code \in AllCodes |-> Cardinality({s \in Of(c) : rs[s].code = code})]

\* The query of the readers: samples joined with configuration, artifact and evaluation as committed.
result_rows == rows

\* Mutant: the winners are final once no sample is waiting to be generated.
Document_Early(status) ==
  LET board == Board(result_rows) IN
  [kind |-> "export", status |-> status,
   winners |-> select_winners(board, \A s \in Samples : result_rows[s].status # "queued"),
   models |-> [c \in Configs |-> _model_document(result_rows, c)],
   leaderboard |-> [i \in DOMAIN board |-> [config |-> board[i].config, mean |-> board[i].mean]],
   totals |-> _totals(result_rows)]

Document(status) ==
  LET board == Board(result_rows) IN
  [kind |-> "export", status |-> status,
   winners |-> select_winners(board, status \in _TERMINAL_RUNS),
   models |-> [c \in Configs |-> _model_document(result_rows, c)],
   leaderboard |-> [i \in DOMAIN board |-> [config |-> board[i].config, mean |-> board[i].mean]],
   totals |-> _totals(result_rows)]

Summary(status) == [kind |-> "summary", status |-> status, totals |-> _totals(result_rows)]

\* Mutant: every generation need only have succeeded.
eligibility_from_model_document_Generated(model) == model.successful = model.planned

eligibility_from_model_document(model) ==
  evaluate_winner_eligibility(model.planned, model.successful, model.completed)

\* The winners of a document: as recorded or, in one of an older schema, of its leaderboard by
\* its model documents.
_export_document_winners(document, recorded) ==
  IF recorded THEN document.winners
  ELSE IF document.status \notin _TERMINAL_RUNS THEN [observed |-> {}, eligible |-> {}, final |-> FALSE]
  ELSE LET board == document.leaderboard
       IN [observed |-> First(board, Measured(board)),
           eligible |-> First(board, {i \in Measured(board) :
                                        eligibility_from_model_document(document.models[board[i].config])}),
           final |-> TRUE]

\* The models the Markdown report prints as observed and as eligible winner.
_winners_section(document, recorded) ==
  LET w == _export_document_winners(document, recorded) IN
  IF ~w.final \/ w.observed = {} THEN <<{}, {}>> ELSE <<w.observed, w.eligible>>

-----------------------------------------------------------------------------
(* Readers take the run in one session and the result rows in another. *)

Idle == [pc |-> "idle", run |-> "none"]

\* An export of a run that is not terminal is refused unless it is asked for explicitly.
get_run ==
  /\ reader = Idle /\ exports < MaxExports /\ exports' = exports + 1
  /\ reader' \in [pc : {"export", "summary"}, run : {run}]
  /\ UNCHANGED <<rows, run, published>>

build ==
  /\ reader.pc = "export" /\ reader' = Idle
  /\ published' = Append(published, Document(reader.run))
  /\ UNCHANGED <<rows, run, exports>>

get ==
  /\ reader.pc = "summary" /\ reader' = Idle
  /\ published' = Append(published, Summary(reader.run))
  /\ UNCHANGED <<rows, run, exports>>

Init ==
  /\ rows = [s \in Samples |-> NewRow] /\ run = "queued"
  /\ reader = Idle /\ published = <<>> /\ exports = 0

Next ==
  \/ \E s \in Samples : store_artifact(s) \/ complete(s) \/ record_failure(s) \/ recover_stale(s)
  \/ get_run \/ build \/ get

Spec == Init /\ [][Next]_vars

-----------------------------------------------------------------------------
\* Types. The codes of a row are the ones the failure paths write.
TypeOK ==
  /\ rows \in [Samples -> [status : {"queued", "generated"} \cup Terminal, artifact : BOOLEAN,
                           score : Scores \cup {None}, correct : BOOLEAN,
                           code : AllCodes \cup {"none"}]]
  /\ run \in {"queued", "running"} \cup _TERMINAL_RUNS
  /\ reader.pc \in {"idle", "export", "summary"} /\ exports \in 0..MaxExports /\ Len(published) <= exports

Exports == {i \in DOMAIN published : published[i].kind = "export"}

\* The winners that an export calls final are those of the rows for ever after,
\* although the run is read before its rows and both may
\* change in between (exporting.py, build; winners.py, select_winners).
WinnersAreFinal ==
  \A i \in Exports :
    published[i].winners.final => published[i].winners = select_winners(Board(rows), TRUE)

\* The eligible winner has a generated and evaluated sample for every one that was
\* planned, and no other complete model has a better mean. The observed leader has
\* the best mean of all, so it never ranks behind the eligible winner.
WinnersAreBest ==
  \A i \in Exports :
    LET w == published[i].winners
        Complete(c) == \A s \in Of(c) : rows[s].status = "completed" /\ rows[s].artifact
    IN /\ \A e \in w.eligible :
            /\ Complete(e)
            /\ \A c \in Configs : Complete(c) => ~Less(weighted_mean(rows, e), weighted_mean(rows, c))
       /\ \A o \in w.observed : \A c \in Configs : ~Less(weighted_mean(rows, o), weighted_mean(rows, c))
       /\ w.eligible # {} => w.observed # {}
       /\ w.final /\ w.eligible = {} => \A c \in Configs : ~Complete(c)

\* The report of an export prints its winners, also when it has to derive them from an
\* export that does not record them (exporting.py, _export_document_winners): the model
\* documents and the leaderboard, counted separately from the same rows, agree. The totals
\* are the sums of the model documents, and every correct evaluation is of a stored artifact.
DocumentsAgree ==
  \A i \in Exports :
    LET d == published[i]
    IN /\ \A recorded \in BOOLEAN : _winners_section(d, recorded) = <<d.winners.observed, d.winners.eligible>>
       /\ d.totals.completed = SumFunction([c \in Configs |-> d.models[c].completed])
       /\ d.totals.generation_failures = SumFunction([c \in Configs |-> d.models[c].generation_failures])
       /\ \A c \in Configs : d.models[c].end_to_end = d.models[c].correct

\* A report that calls the run completed accounts for every planned sample, one that
\* calls it partial does not, and neither is ever outdated, although the status was
\* read before the samples were counted (service.py, get).
ReportsAddUp ==
  \A i \in DOMAIN published :
    LET t == published[i].totals
        accounted == t.completed + t.generation_failures + t.evaluation_failures
    IN /\ published[i].status = "completed" => accounted = t.recorded
       /\ published[i].status = "partial" => accounted < t.recorded
       /\ published[i].status \in _TERMINAL_RUNS => t = _totals(rows) /\ published[i].status = run

\* Missing samples never help: the coverage-adjusted score is at most the primary
\* score, equal to it once every planned sample is evaluated, and would be no higher
\* without any one of the evaluations: failing is never better than a low score.
MissingNeverHelps ==
  \A c \in Configs :
    LET mean == weighted_mean(rows, c)  adjusted == coverage_adjusted(rows, c) IN
    /\ mean # Unknown => ~Less(mean, adjusted)
    /\ Evaluated(rows, Of(c)) = Of(c) => Equal(mean, adjusted)
    /\ \A s \in Evaluated(rows, Of(c)) : ~Less(adjusted, coverage_adjusted([rows EXCEPT ![s] = NewRow], c))

\* In a finished run the failed generations are samples without an artifact, and the
\* counters of single provider codes, which look at all rows, count them and no others,
\* although a row keeps the code of an attempt that was retried. What is neither
\* generated nor a failed generation was given up by the worker before it asked the
\* provider, and its code says so (reliability.py; worker.py, _process_claimed).
FailuresAreApart ==
  run \in _TERMINAL_RUNS =>
    \A c \in Configs :
      LET S == Of(c)
          failed == Failed(rows, S)
      IN /\ failed \cap Generated(rows, S) = {}
         /\ failure_codes(rows, S, Codes) = Cardinality(failed)
         /\ \A s \in S \ (Generated(rows, S) \cup failed) : rows[s].code \in WorkerCodes

\* Besides, every generation failure is counted in exactly one category, and the table
\* of failures lists every sample that did not complete once, and no other.
FailuresAddUp ==
  /\ FailuresAreApart
  /\ run \in _TERMINAL_RUNS =>
       \A c \in Configs :
         LET S == Of(c)
             counts == generation_failure_category_counts(rows, S)
             listed == _failure_documents(rows, c)
         IN /\ SumFunction(counts) = Cardinality(Failed(rows, S))
            /\ SumFunction(listed) = Cardinality(S) - OfStatus(rows, S, "completed")

\* A task is called consistently correct exactly when every planned sample passed its
\* complete suite; an evaluated failure or success always shows in the label, and what
\* is missing never counts as either (statistics.py, _task_metrics).
ConsistencyIsEarned ==
  \A c \in Configs, t \in Tasks :
    LET S == OfTask(c, t)
        label == _task_consistency(rows, S)
    IN /\ label = "consistently_correct" <=> \A s \in S : rows[s].status = "completed" /\ rows[s].artifact /\ rows[s].correct
       /\ \A s \in S : rows[s].status = "completed" =>
            \/ label = "sometimes_correct"
            \/ rows[s].correct /\ label \in {"consistently_correct", "incomplete_coverage"}
            \/ ~rows[s].correct /\ label = "never_correct"

\* What an export or a summary calls final is never outdated: its winners, its
\* status and its totals are those of the rows for ever after (exporting.py, build;
\* service.py, get).
FinalReportsStay == WinnersAreFinal /\ ReportsAddUp

\* A planned sample that is missing is credited to no model: neither in the
\* coverage-adjusted score nor in the label of its task (statistics.py).
MissingIsNeverCredited == MissingNeverHelps /\ ConsistencyIsEarned

\* The scores that rank the models credit nothing that is missing, and the models
\* named as winners are the best by them (statistics.py; winners.py, select_winners).
WinnersAreEarned == WinnersAreBest /\ MissingIsNeverCredited

\* Everything an export counts, in its totals, its model documents and its table of
\* failures, is counted once and alike (exporting.py, build; statistics.py).
CountsAddUp == DocumentsAgree /\ FailuresAddUp

\* docs/benchmarks/statistics.md: "variation between different tasks is not
\* mislabeled as repeat stability." A model whose repeats agree in every task is
\* never called unstable.
StabilityIsAboutRepeats ==
  \A c \in Configs :
    _stability_label(rows, c) \in {"moderate", "low"} =>
      \E t \in Tasks : \E s, u \in Evaluated(rows, OfTask(c, t)) : rows[s].score # rows[u].score

=============================================================================
