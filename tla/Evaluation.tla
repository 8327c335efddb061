----------------------------- MODULE Evaluation -----------------------------
(***************************************************************************)
(* One synchronous evaluation: app/evaluator/service.py (evaluate) around  *)
(* app/evaluator/engine.py, the runner's result, the four static analyzers *)
(* of app/analysis run one after the other, each a child process whose two *)
(* pipes are drained concurrently into one bounded capture, the score of   *)
(* app/evaluator/scoring.py, the findings of findings.py and the row that  *)
(* app/db/repositories.py stores.                                          *)
(*                                                                         *)
(* Scores are in hundredths of a point. A Python round() of a value midway *)
(* between two hundredths falls on either side, as binary floats do. What  *)
(* happens inside a container is module SandboxRunner, the AI assessment   *)
(* that follows the score is module AIAssessment, and the identity stored  *)
(* beside it module RuntimeIdentity.                                       *)
(***************************************************************************)
EXTENDS Integers, Sequences, FiniteSets, SequencesExt

CONSTANTS
  Instances,     \* the settings and bounds that one evaluation runs under
  MaxFaults      \* bound on infrastructure faults

\* One test of 20000 is the finest share of correctness that hundredths of a point show;
\* the tasks have at most 17 (trusted_harness.py, OFFICIAL_TEST_CASE_COUNTS).
ASSUME Bounds ==
  /\ MaxFaults \in Nat
  /\ \A i \in Instances : /\ i.tests \in Nat \ {0} /\ i.tests < 20000
                          /\ i.limit \in Nat \ {0} /\ i.output \in Nat
                          /\ i.backends \subseteq {"docker", "local"}
                          /\ i.counts \subseteq Nat \ {0} /\ i.complexities \subseteq Nat
                          /\ i.nuls \subseteq {"none", "source", "quoted"}

VARIABLES
  config,      \* backend, static analysis enabled, repository configured, and the instance
  request,     \* what prepare_request and the tools tell apart about the request
  pc,
  runner,      \* RunnerResult
  tool,        \* index of the analyzer that is running
  proc, exit_code, timed_out,      \* its process, AnalyzerCommandResult
  pipe, written, kept, truncated,  \* bytes in each pipe, written, _BoundedCapture
  findings, complexity,            \* StaticAnalysisResult so far
  evidence,    \* history: what each tool's report was read from
  result,      \* EvaluationResult
  stored,      \* the row of evaluation_records
  answer, faults

commandVars == <<proc, exit_code, timed_out, pipe, written, kept, truncated>>
analysisVars == <<tool, findings, complexity, evidence>>
vars == <<config, request, pc, runner, commandVars, analysisVars, result, stored, answer, faults>>

MaxTests == config.instance.tests           \* official tests of the task
Counts == config.instance.counts            \* how many findings of one kind a tool may report
Complexities == config.instance.complexities  \* maximum complexities radon may measure
Limit == config.instance.limit              \* static_analysis_output_limit_bytes
MaxOutput == config.instance.output         \* bound on the bytes one analyzer writes

Tools == <<"ruff", "mypy", "bandit", "radon">>
Streams == {"stdout", "stderr"}
Severities == {"error", "warning", "info"}
Confidences == {"low", "medium", "high"}
Absent == -1  \* a dimension that was not measured, a source radon cannot measure

-----------------------------------------------------------------------------
(* The runner's results: candidate-caused ends carry no counts. *)

Ended(kind, cut) == [kind |-> kind, passed |-> 0, failed |-> 0, total |-> 0, truncated |-> cut, flaw |-> "none"]
Counted(p, f, cut, flaw) == [kind |-> "report", passed |-> p, failed |-> f, total |-> p + f, truncated |-> cut, flaw |-> flaw]

Flaws == {"none", "syntax", "import"}

\* The harness counts every case, or none after a startup error. Whatever a candidate
\* that starts prints may read like a flaw, as findings.py looks for one in the output.
DockerResults ==
  {Ended("infrastructure_error", FALSE)}
    \cup {Ended(k, cut) : k \in {"timed_out", "oom_killed", "sandbox_error"}, cut \in BOOLEAN}
    \cup {Counted(0, 0, cut, f) : cut \in BOOLEAN, f \in IF request.parses THEN Flaws ELSE {"syntax"}}
    \cup {Counted(p, MaxTests - p, cut, f) : p \in IF request.parses THEN 0..MaxTests ELSE {},
                                            cut \in BOOLEAN, f \in Flaws}

\* pytest counts what it collected, an error of collection as a failure.
LocalResults ==
  {Ended("infrastructure_error", FALSE), Ended("timed_out", FALSE)}
    \cup IF request.parses
         THEN {r \in {Counted(p, f, FALSE, w) : p \in 0..MaxTests, f \in 0..MaxTests, w \in Flaws} :
                 r.total <= MaxTests}
         ELSE {Counted(0, 1, FALSE, "syntax")}

NoRunner == Ended("none", FALSE)
NoResult == [status |-> "none", score |-> 0, breakdown |-> <<>>, findings |-> <<>>]

-----------------------------------------------------------------------------
(* What the analyzers report about the source, normalised. *)

Finding(category, severity, confidence, n) ==
  [category |-> category, severity |-> severity, confidence |-> confidence, count |-> n]

FindingsOf(category, confidences) ==
  {<<Finding(category, s, c, n)>> : s \in Severities, c \in confidences, n \in Counts}

\* A severity is read off the first letter of the code: invalid-syntax is an info.
RuffReports ==
  FindingsOf("quality", {"none"})
    \cup IF request.parses THEN {<<>>} ELSE {<<Finding("quality", "info", "none", 1)>>}

MypyReports ==
  IF request.parses THEN FindingsOf("type_safety", {"none"}) \cup {<<>>}
  ELSE {<<Finding("type_safety", "error", "none", 1)>>}

BanditReports ==
  IF request.parses THEN FindingsOf("security", Confidences) \cup {<<>>}
  ELSE {<<Finding("security", "error", "none", 1)>>}

RadonReports == IF request.parses THEN {<<>>} ELSE {<<Finding("complexity", "error", "none", 1)>>}

Reports(t) ==
  CASE t = "ruff" -> RuffReports [] t = "mypy" -> MypyReports
    [] t = "bandit" -> BanditReports [] t = "radon" -> RadonReports

Measured == IF request.parses THEN Complexities ELSE {Absent}

-----------------------------------------------------------------------------
(* app/evaluator/scoring.py *)

Rounded(n, d) ==
  LET twice == 2 * (n % d) IN
  {n \div d : x \in IF twice <= d THEN {1} ELSE {}} \cup {n \div d + 1 : x \in IF twice >= d THEN {1} ELSE {}}

Score == 0..10000  \* from 0 to 100 points

_clamp(value) == IF value < 0 THEN 0 ELSE IF value > 10000 THEN 10000 ELSE value

QUALITY_PENALTIES == [error |-> 1000, warning |-> 500, info |-> 200]
TYPE_SAFETY_PENALTIES == [error |-> 800, warning |-> 400, info |-> 0]
SECURITY_SEVERITY_PENALTIES == [error |-> 2500, warning |-> 1000, info |-> 300]
SECURITY_CONFIDENCE_MULTIPLIERS == [none |-> 50, low |-> 50, medium |-> 75, high |-> 100]

\* The findings of one category, by their place in the report.
In(fs, category) == {i \in DOMAIN fs : fs[i].category = category}

Penalty(f, penalties) == f.count * penalties[f.severity]

_penalty_score(fs, category, penalties) ==
  _clamp(10000 - SumFunctionOnSet([i \in DOMAIN fs |-> Penalty(fs[i], penalties)], In(fs, category)))

SecurityPenalty(f) ==
  f.count * ((SECURITY_SEVERITY_PENALTIES[f.severity] * SECURITY_CONFIDENCE_MULTIPLIERS[f.confidence]) \div 100)

\* Mutant: = instead of +=, the last finding alone counts.
SecurityPenalties_Last(fs) ==
  IF In(fs, "security") = {} THEN 0 ELSE SecurityPenalty(fs[Max(In(fs, "security"))])

SecurityPenalties(fs) == SumFunctionOnSet([i \in DOMAIN fs |-> SecurityPenalty(fs[i])], In(fs, "security"))

_security_score(fs) == _clamp(10000 - SecurityPenalties(fs))

_complexity_score(maximum) ==
  CASE maximum = Absent -> 0
    [] maximum \in 0..5 -> 10000
    [] maximum \in 6..10 -> 9000
    [] maximum \in 11..15 -> 7000
    [] maximum \in 16..20 -> 5000
    [] OTHER -> 2500

\* The breakdowns calculate_score may answer: correctness is rounded.
calculate_score(r, fs, c) ==
  {[correctness |-> x,
    code_quality |-> IF config.analysis THEN _penalty_score(fs, "quality", QUALITY_PENALTIES) ELSE Absent,
    type_safety |-> IF config.analysis THEN _penalty_score(fs, "type_safety", TYPE_SAFETY_PENALTIES) ELSE Absent,
    security |-> IF config.analysis THEN _security_score(fs) ELSE Absent,
    complexity |-> IF config.analysis THEN _complexity_score(c) ELSE Absent] :
      x \in IF r.total = 0 THEN {0} ELSE Rounded(r.passed * 10000, r.total)}

Weighted(b) == 60 * b.correctness + 15 * b.code_quality + 10 * b.type_safety + 10 * b.security + 5 * b.complexity

calculate_final_score(b) ==
  IF Absent \in {b.code_quality, b.type_safety, b.security, b.complexity} THEN {b.correctness}
  ELSE Rounded(Weighted(b), 100)

\* Mutant: a report without tests is not remarked on.
build_findings_SilentOnNoTests(r) ==
  IF r.kind # "report" THEN <<r.kind>> ELSE IF r.failed > 0 THEN <<"failed">> ELSE <<>>

\* app/evaluator/findings.py: an end without counts hides what the counts would say.
build_findings(r) ==
  LET OutputFinding == IF r.truncated THEN <<"truncated">> ELSE <<>>
      Flaw == IF r.flaw # "none" THEN <<r.flaw>> ELSE <<>>
      Tests == IF r.failed > 0 THEN <<"failed">> ELSE IF r.total = 0 THEN <<"no_tests">> ELSE <<>>
  IN IF r.kind # "report" THEN <<r.kind>> \o OutputFinding ELSE Flaw \o OutputFinding \o Tests

-----------------------------------------------------------------------------
Idle == [s \in Streams |-> 0]
Total(f) == f["stdout"] + f["stderr"]
Fault == faults < MaxFaults /\ faults' = faults + 1

Init ==
  /\ \E i \in Instances :
       config \in [backend : i.backends, analysis : BOOLEAN, repository : BOOLEAN, instance : {i}]
  /\ request \in {r \in [fits : BOOLEAN, known : BOOLEAN, language : BOOLEAN, parses : BOOLEAN,
                          nul : config.instance.nuls] : r.nul = "source" => ~r.parses}
  /\ pc = "prepare" /\ runner = NoRunner
  /\ proc = "none" /\ exit_code = 0 /\ timed_out = FALSE
  /\ pipe = Idle /\ written = 0 /\ kept = Idle /\ truncated = FALSE
  /\ tool = 1 /\ findings = <<>> /\ complexity = <<>>
  /\ evidence = [t \in Range(Tools) |-> "none"]
  /\ result = NoResult /\ stored = NoResult /\ answer = "none" /\ faults = 0

\* The request leaves the service with an answer or an exception.
End(a) == pc' = "done" /\ answer' = a

prepare_request ==
  /\ pc = "prepare"
  /\ \/ ~(request.fits /\ request.known /\ request.language) /\ End("rejected")
     \/ request.fits /\ request.known /\ request.language /\ pc' = "test" /\ UNCHANGED answer
  /\ UNCHANGED <<config, request, runner, commandVars, analysisVars, result, stored, faults>>

\* The runner's evaluate, one step here; an infrastructure error ends the evaluation.
evaluate ==
  /\ pc = "test"
  /\ runner' \in IF config.backend = "docker" THEN DockerResults ELSE LocalResults
  /\ IF runner'.kind = "infrastructure_error" THEN Fault /\ End("infrastructure_error")
     ELSE pc' = (IF config.analysis THEN "spawn" ELSE "score") /\ UNCHANGED <<answer, faults>>
  /\ UNCHANGED <<config, request, commandVars, analysisVars, result, stored>>

-----------------------------------------------------------------------------
(* AnalyzerCommandRunner.run for the current tool. *)

Name == Tools[tool]

\* The command is over: its result and its capture are dropped, its process is not touched.
ResetCommand ==
  /\ proc' = (IF proc = "running" THEN proc ELSE "none") /\ exit_code' = 0 /\ timed_out' = FALSE
  /\ pipe' = Idle /\ written' = 0 /\ kept' = Idle /\ truncated' = FALSE

spawn ==
  /\ pc = "spawn" /\ ~(Name = "mypy" /\ ~request.parses)
  /\ \/ proc' = "running" /\ pc' = "command" /\ UNCHANGED <<answer, faults>>
     \/ Fault /\ End("infrastructure_error") /\ UNCHANGED proc  \* OSError: no exit code
  /\ UNCHANGED <<config, request, runner, exit_code, timed_out, pipe, written, kept, truncated, analysisVars, result, stored>>

\* The analyzer process: it writes to its pipes and exits.
Write(s) ==
  /\ proc = "running" /\ written < MaxOutput
  /\ written' = written + 1 /\ pipe' = [pipe EXCEPT ![s] = @ + 1]
  /\ UNCHANGED <<config, request, pc, runner, proc, exit_code, timed_out, kept, truncated, analysisVars, result, stored, answer, faults>>

Exit(code) ==
  /\ proc = "running" /\ proc' = "exited" /\ exit_code' = code
  /\ UNCHANGED <<config, request, pc, runner, timed_out, pipe, written, kept, truncated, analysisVars, result, stored, answer, faults>>

\* Mutant: a limit for each stream instead of one for both.
drain_PerStream(s) ==
  /\ pc \in {"command", "drain", "unwind"}
  /\ \E n \in 1..pipe[s] :
       LET remaining == Limit - kept[s] IN
       /\ kept' = [kept EXCEPT ![s] = @ + (IF n < remaining THEN n ELSE remaining)]
       /\ truncated' = (truncated \/ n > remaining)
       /\ pipe' = [pipe EXCEPT ![s] = @ - n]
  /\ UNCHANGED <<config, request, pc, runner, proc, exit_code, timed_out, written, analysisVars, result, stored, answer, faults>>

\* One read of _BoundedCapture.drain: both streams share what remains of the limit.
drain(s) ==
  /\ pc \in {"command", "drain", "unwind"}
  /\ \E n \in 1..pipe[s] :
       LET remaining == Limit - Total(kept) IN
       /\ kept' = [kept EXCEPT ![s] = @ + (IF n < remaining THEN n ELSE remaining)]
       /\ truncated' = (truncated \/ n > remaining)
       /\ pipe' = [pipe EXCEPT ![s] = @ - n]
  /\ UNCHANGED <<config, request, pc, runner, proc, exit_code, timed_out, written, analysisVars, result, stored, answer, faults>>

\* process.wait returned in time.
wait ==
  /\ pc = "command" /\ proc = "exited" /\ pc' = "drain"
  /\ UNCHANGED <<config, request, runner, commandVars, analysisVars, result, stored, answer, faults>>

\* Mutant: the process is left to finish by itself.
_terminate_LeavesIt == UNCHANGED proc

_terminate == proc' = IF proc = "running" THEN "killed" ELSE proc

\* wait_for timed out, also when the process has just exited; the group is killed.
time_out ==
  /\ pc = "command" /\ timed_out' = TRUE /\ _terminate /\ pc' = "drain"
  /\ UNCHANGED <<config, request, runner, exit_code, pipe, written, kept, truncated, analysisVars, result, stored, answer, faults>>

-----------------------------------------------------------------------------
(* The analyzer's verdict on its command, and the engine's loop. *)

\* Both drains met the end of their stream: nothing is left and the writer is gone.
AtEof == pipe = Idle /\ proc # "running"
Gathered == pc = "drain" /\ AtEof
\* Mutant: what was captured of a truncated output is parsed.
Trusted_IgnoresTruncation == ~timed_out
Trusted == ~timed_out /\ ~truncated
ExitCodes == IF Name = "radon" /\ request.parses THEN {0} ELSE {0, 1}

\* AnalyzerFailure: the whole evaluation fails closed.
analyzer_fails ==
  /\ Gathered
  /\ IF Trusted /\ exit_code \in ExitCodes THEN Fault  \* malformed output
     ELSE UNCHANGED faults
  /\ End("infrastructure_error")
  /\ ResetCommand
  /\ UNCHANGED <<config, request, runner, analysisVars, result, stored>>

\* A report joins the findings; only radon's carries a complexity.
Reported(read) ==
  /\ \E report \in Reports(Name) : findings' = findings \o report
  /\ IF Name = "radon" THEN \E c \in Measured : complexity' = <<c>> ELSE UNCHANGED complexity
  /\ evidence' = [evidence EXCEPT ![Name] = read]
  /\ IF tool < Len(Tools) THEN tool' = tool + 1 /\ pc' = "spawn"
     ELSE pc' = "score" /\ UNCHANGED tool
  /\ UNCHANGED <<config, request, runner, result, stored, answer, faults>>

analyze ==
  /\ Gathered /\ Trusted /\ exit_code \in ExitCodes
  /\ Reported(IF proc = "exited" /\ Total(kept) = written THEN "whole" ELSE "partial")
  /\ ResetCommand

\* MypyAnalyzer parses the source itself first and reports a syntax error without mypy.
analyze_unparsable ==
  /\ pc = "spawn" /\ Name = "mypy" /\ ~request.parses
  /\ Reported("source")
  /\ UNCHANGED commandVars

-----------------------------------------------------------------------------
(* The score, the row and the answer. *)

score ==
  /\ pc = "score"
  /\ \E b \in calculate_score(runner, findings, IF complexity = <<>> THEN Absent ELSE complexity[1]) :
       \E x \in calculate_final_score(b) :
         result' = [status |-> IF runner.kind = "report" THEN "completed" ELSE "failed",
                    score |-> x, breakdown |-> b, findings |-> build_findings(runner)]
  /\ IF config.repository THEN pc' = "persist" /\ UNCHANGED answer ELSE End("result")
  /\ UNCHANGED <<config, request, runner, commandVars, analysisVars, stored, faults>>

\* U+0000, which no text or JSONB column of PostgreSQL holds, is in the source itself,
\* or in what a tool quotes of one of its literals (an entry of __all__, say).
HoldsNul == request.nul = "source" \/ (request.nul = "quoted" /\ findings # <<>>)

\* What the table takes: texts without U+0000, and counts and scores that satisfy its
\* CHECK constraints.
Storable ==
  /\ ~HoldsNul
  /\ runner.passed >= 0 /\ runner.failed >= 0 /\ runner.passed + runner.failed = runner.total
  /\ result.score \in Score /\ result.breakdown.correctness \in Score
  /\ \A d \in DOMAIN result.breakdown : result.breakdown[d] \in Score \cup {Absent}

\* Mutant: the result is answered although the row could not be written.
create_AnswersAnyway ==
  /\ pc = "persist" /\ End("result")
  /\ \/ stored' = result /\ UNCHANGED faults
     \/ Fault /\ stored' \in {NoResult, result}
  /\ UNCHANGED <<config, request, runner, commandVars, analysisVars, result>>

\* A transaction that is broken off was committed before, if the table takes it, or not.
BrokenOff == stored' \in {NoResult} \cup IF Storable THEN {result} ELSE {}

\* repository.create: one transaction, which the table may refuse; its failure may
\* come after the commit.
create ==
  /\ pc = "persist"
  /\ \/ /\ stored' = IF Storable THEN result ELSE NoResult
        /\ End(IF Storable THEN "result" ELSE "infrastructure_error")
        /\ UNCHANGED faults
     \/ Fault /\ BrokenOff /\ End("infrastructure_error")
  /\ UNCHANGED <<config, request, runner, commandVars, analysisVars, result>>

\* The caller's task is cancelled at an await. A command in progress is killed
\* and drained before the exception leaves; a cancelled gather leaves at once.
cancel ==
  /\ \/ pc \in {"test", "spawn", "drain", "unwind"} /\ End("cancelled") /\ ResetCommand /\ UNCHANGED stored
     \/ pc = "persist" /\ BrokenOff /\ End("cancelled") /\ UNCHANGED commandVars
     \/ /\ pc = "command" /\ _terminate /\ pc' = "unwind"
        /\ UNCHANGED <<exit_code, timed_out, pipe, written, kept, truncated, stored, answer>>
  /\ UNCHANGED <<config, request, runner, analysisVars, result, faults>>

unwind ==
  /\ pc = "unwind" /\ AtEof /\ End("cancelled") /\ ResetCommand
  /\ UNCHANGED <<config, request, runner, analysisVars, result, stored, faults>>

Done == pc = "done" /\ UNCHANGED vars

Engine == prepare_request \/ evaluate \/ spawn \/ wait \/ analyzer_fails \/ analyze \/ analyze_unparsable
            \/ score \/ create \/ unwind
Next ==
  \/ Engine \/ time_out \/ cancel \/ Done
  \/ \E s \in Streams : Write(s) \/ drain(s)
  \/ \E code \in 0..2 : Exit(code)

Spec == Init /\ [][Next]_vars

\* The event loop runs what is ready, drains included, and wait_for's timer fires.
FairSpec == Spec /\ WF_vars(Engine) /\ WF_vars(time_out) /\ \A s \in Streams : WF_vars(drain(s))

-----------------------------------------------------------------------------
Statuses == {"none", "completed", "failed"}

\* Every variable has its type.
TypeOK ==
  /\ pc \in {"prepare", "test", "spawn", "command", "drain", "unwind", "score", "persist", "done"}
  /\ proc \in {"none", "running", "exited", "killed"} /\ exit_code \in 0..2
  /\ pipe \in [Streams -> 0..MaxOutput] /\ kept \in [Streams -> 0..Limit]
  /\ written \in 0..MaxOutput /\ truncated \in BOOLEAN /\ timed_out \in BOOLEAN
  /\ tool \in 1..Len(Tools) /\ faults \in 0..MaxFaults
  /\ \A r \in {result, stored} : r.status \in Statuses /\ r.score \in Int
  /\ answer \in {"none", "rejected", "result", "infrastructure_error", "cancelled"}

\* The capture keeps the first Limit bytes read, whatever the interleaving of
\* the two drains and the size of their reads, and truncated says exactly
\* whether more was read than kept (command.py, _BoundedCapture.drain).
CaptureIsExact ==
  LET read == written - Total(pipe) IN
  /\ Total(kept) = IF read < Limit THEN read ELSE Limit
  /\ truncated <=> read > Limit

\* An evaluation scored with static analysis was scored on the reports of all
\* four tools, each read from the whole output of a process that exited by
\* itself (or from the source, for mypy's syntax check): a timeout, a truncated
\* or malformed output never turns into a dimension (docs/evaluation/static-analysis.md).
EvidenceIsComplete ==
  result # NoResult =>
    /\ Absent \in {result.breakdown[d] : d \in DOMAIN result.breakdown} <=> ~config.analysis
    /\ config.analysis => \A t \in DOMAIN evidence : evidence[t] \in {"whole", "source"}
    /\ ~config.analysis => result.score = result.breakdown.correctness

\* command.py, engine.py: a score rests on all reports, and each report on
\* everything its analyzer wrote, within a capture that never exceeds its limit
\* and never hides that it lost something.
EvidenceIsWhole == CaptureIsExact /\ EvidenceIsComplete

\* No analyzer process runs once its command has ended, however it ended:
\* answered, timed out, failed or cancelled (command.py, run and _terminate).
NoProcessOutlivesItsCommand == proc = "running" => pc = "command"

\* A result that lost correctness points says why in its own findings, not only
\* that output was cut (findings.py, build_findings).
LostPointsAreExplained ==
  result # NoResult /\ result.breakdown.correctness < 10000 =>
    Range(result.findings) \ {"truncated", "syntax", "import"} # {}

FindingsLike(category, confidences) == {Finding(category, s, c, 1) : s \in Severities, c \in confidences}

\* Adding a finding to an analysis never raises the score, by more than the
\* half hundredth that rounding may move it (scoring.py).
MoreFindingsNeverHelp ==
  answer = "result" /\ config.analysis =>
    \A more \in FindingsLike("quality", {"none"}) \cup FindingsLike("type_safety", {"none"})
                  \cup FindingsLike("security", Confidences) :
      \A b \in calculate_score(runner, Append(findings, more), complexity[1]) :
        b.correctness = result.breakdown.correctness => Weighted(b) <= 100 * result.score + 50

\* A perfect score means that every official test ran and passed and that no
\* tool found anything the policy penalises, and the other way round
\* (docs/evaluation/correctness.md: exactly score == 100).
PerfectMeansClean ==
  result # NoResult =>
    (result.score = 10000 <=>
       /\ runner.kind = "report" /\ runner.total > 0 /\ runner.failed = 0
       /\ config.analysis => /\ \A f \in Range(findings) : f.category = "type_safety" /\ f.severity = "info"
                             /\ complexity[1] \in 0..5)

\* Every score of a result lies between 0 and 100 points, as EvaluationResult and
\* ScoreBreakdown demand: penalties that add up beyond a dimension stop at zero
\* (scoring.py, _clamp).
ScoresOnScale ==
  result # NoResult =>
    /\ result.score \in Score
    /\ \A d \in DOMAIN result.breakdown : result.breakdown[d] \in Score \cup {Absent}

\* A score says what it is made of: it lies on its scale, has full marks exactly
\* for a clean run of every test, a finding wherever correctness was lost, and no
\* finding that could be added would raise it (scoring.py, findings.py).
ScoreIsExplained ==
  ScoresOnScale /\ LostPointsAreExplained /\ PerfectMeansClean /\ MoreFindingsNeverHelp

\* The client is answered with a result only when the row that holds the same
\* result is committed, and a failed or cancelled request leaves either no row
\* or the whole one (service.py, evaluate; repositories.py, create).
StoredBeforeAnswered ==
  /\ answer = "result" /\ config.repository => stored = result
  /\ stored \in {NoResult, result}

\* Besides, whatever was scored and counted, the table refuses it for a U+0000 in its
\* texts alone: EvaluationRequest admits one in the source, which is then tested,
\* analysed and scored, and never stored (models.py, EvaluationRequest and
\* EvaluationRecord).
AnsweredIsStored ==
  /\ StoredBeforeAnswered
  /\ answer = "infrastructure_error" /\ result # NoResult => faults > 0 \/ HoldsNul
  /\ HoldsNul => stored = NoResult

\* Every evaluation ends: analyzers that hang are killed by their timer and
\* drains read what is left in the pipes.
EvaluationAnswered == <>(pc = "done")

\* docs/evaluation/scoring.md: "When zero tests execute, correctness is `0` and
\* the result includes an explicit finding that correctness could not be measured."
ZeroTestsAreExplicit ==
  result # NoResult /\ runner.total = 0 => "no_tests" \in Range(result.findings)

\* docs/evaluation/correctness.md: invalid structured reports "fail closed and
\* are not silently converted into a candidate score."
InvalidReportsFailClosed == result # NoResult => runner.kind # "sandbox_error"

=============================================================================
