----------------------------- MODULE AIAssessment -----------------------------
(***************************************************************************)
(* The optional AI assessment of one evaluation: several judge models are  *)
(* asked concurrently through one provider, then a model proposes          *)
(* adversarial tests, which are deduplicated, checked against the          *)
(* reference solution in the sandbox and only then run on the candidate.   *)
(* Whatever fails, the assessment ends with a status of its own and is     *)
(* never raised into the deterministic evaluation.  It is then stored with *)
(* the snapshot, under the constraints of the table, and read back.        *)
(*                                                                         *)
(* A provider call is attempted at most MaxAttempts times; a request holds *)
(* one of the provider's slots, the pause between two attempts none.       *)
(* Scores are integers in hundredths of a point.  Of the texts that models *)
(* write only one thing matters here, what PostgreSQL refuses of them: nul *)
(* says whether U+0000 is in one of them, and "long_value_error" is an     *)
(* error code that does not fit its column.                                *)
(***************************************************************************)
EXTENDS Integers, Sequences, FiniteSets, SequencesExt, FiniteSetsExt, Ranking

CONSTANTS
    JudgeCount,      \* number of configured judge models
    Slots,           \* provider requests at a time
    MaxAttempts,     \* llm_max_attempts
    JudgeAnswers,    \* what judges may answer: a score, and whether a text holds U+0000
    Threshold,       \* llm_disagreement_threshold, in hundredths
    Drafts,          \* the lists of tests the generator may propose
    MaxAdversarialTests  \* llm_max_adversarial_tests

VARIABLES
    setup,      \* what assess finds: see Setups
    phase,      \* "judges", "generate", "cases", "conclude", "done", then
                \* "stored" or "refused" by the database, and "read"
    at,         \* at[k]: where provider call k is
    attempt,    \* attempt[k]: its current attempt
    outcome,    \* outcome[k]: "ok" with its contents, or the code of a ProviderError
    order,      \* the calls in the order in which they ended
    tests,      \* the proposals that are still to be run, in their order
    counts,     \* the counters of AdversarialService.evaluate
    adversarial,\* its result
    assessment, \* what assess returns
    row,        \* its columns of the evaluations row
    shown       \* the assessment that get reads from them

callVars == <<at, attempt, outcome, order>>
caseVars == <<tests, counts, adversarial>>
storeVars == <<row, shown>>
aiVars == <<setup, phase, callVars, caseVars, assessment, storeVars>>

Judges == 1..JudgeCount
Generator == 0
Calls == Judges \cup {Generator}
None == "none"
Missing == -1
FullScore == 10000
Codes == {"transient", "rejected", "malformed_output", "provider_unavailable",
          "adversarial_unavailable", "long_value_error"}

(***************************************************************************)
(* What assess and _run_adversarial find before any call: whether AI is    *)
(* enabled, the identity stored with the job, the provider, the size of    *)
(* the payloads, the reference solution and the sandbox.                   *)
(***************************************************************************)
Setups == [gate : {"disabled", "ai_identity_mismatch", "provider_unavailable",
                    "input_too_large", "open"},
            extra : {"reference_unavailable", "sandbox_unavailable", "present"}]

\* calculate_judge_score of what a judge may answer, in hundredths.
JudgeScores == {answer.score : answer \in JudgeAnswers}

ASSUME AIAssumption ==
    /\ JudgeCount \in Nat \ {0} /\ Slots \in Nat \ {0} /\ MaxAttempts \in Nat \ {0}
    /\ MaxAdversarialTests \in Nat \ {0}
    /\ JudgeScores \subseteq 0..FullScore /\ \A answer \in JudgeAnswers : answer.nul \in BOOLEAN
    /\ Threshold \in 0..FullScore
    /\ \A d \in Drafts : /\ Len(d) \in Nat /\ DOMAIN d = 1..Len(d)
                         /\ \A i \in DOMAIN d : d[i].valid \in BOOLEAN /\ d[i].nul \in BOOLEAN

-----------------------------------------------------------------------------
(***************************************************************************)
(* Scoring.  round(x, 2) of a quotient is the nearest integer; at a tie    *)
(* the binary representation decides, so both neighbours are possible.     *)
(***************************************************************************)
Round2(n, d) == {q \in {n \div d, n \div d + 1} : 2 * n - d <= 2 * q * d
                                               /\ 2 * q * d <= 2 * n + d}

Earlier(i, k) == i < k

\* Numbers, smallest first.
Listed(numbers) == InOrder(numbers, Earlier)

\* The scores of the judges that answered, in the order of their models.
Answered == {k \in Judges : outcome[k].code = "ok"}
Valid ==
    LET judges == Listed(Answered)
    IN  [i \in 1..Cardinality(Answered) |-> outcome[judges[i]].score]

\* sorted: equal values keep their order.
Ascending(s) ==
    LET Smaller(i, k) == s[i] < s[k] \/ (s[i] = s[k] /\ i < k)
        places == InOrder(DOMAIN s, Smaller)
    IN  [i \in DOMAIN s |-> s[places[i]]]

median(s) ==
    LET t == Ascending(s)
        n == Len(t)
    IN  IF n % 2 = 1 THEN {t[(n + 1) \div 2]}
                     ELSE Round2(t[n \div 2] + t[n \div 2 + 1], 2)

spread(s) == Max(Range(s)) - Min(Range(s))

calculate_ai_score(judge, robustness) == Round2(7 * judge + 3 * robustness, 10)

-----------------------------------------------------------------------------
(***************************************************************************)
(* Validation of a draft: a proposal is refused when an earlier proposal   *)
(* that was not itself a duplicate has its name or its code.               *)
(***************************************************************************)
Same(x, y) == x.name = y.name \/ x.code = y.code

\* The proposals that are no duplicates.
Fresh(draft) ==
    CHOOSE fresh \in SUBSET DOMAIN draft :
        \A i \in DOMAIN draft :
            i \in fresh <=> ~ \E j \in fresh : j < i /\ Same(draft[j], draft[i])

deduplicate_and_validate(draft) ==
  {i \in Fresh(draft) : draft[i].valid}

-----------------------------------------------------------------------------
NoCounts == [generated |-> 0, accepted |-> 0, reference |-> 0, passed |-> 0]

_empty_adversarial(status, reason) ==
    [status |-> status, reason |-> reason, generated |-> 0, accepted |-> 0,
     reference |-> 0, passed |-> 0, failed |-> 0, robustness |-> Missing, nul |-> FALSE]

_assessment(status, reason) ==
    [status |-> status, reason |-> reason, score |-> Missing, judge |-> Missing,
     disputed |-> FALSE, spread |-> Missing, judges |-> <<>>, nul |-> FALSE,
     adversarial |-> _empty_adversarial(None, None)]

\* The gates of assess, in the order the code passes them.
Gate(gate) ==
    CASE gate = "disabled" -> _assessment("disabled", None)
      [] gate = "ai_identity_mismatch" -> _assessment("skipped", gate)
      [] gate = "provider_unavailable" -> _assessment("unavailable", gate)
      [] gate = "input_too_large" -> _assessment("skipped", gate)

Pending == [code |-> None, score |-> Missing, draft |-> <<>>, nul |-> FALSE]

AIInit ==
    /\ setup \in Setups
    /\ phase = IF setup.gate = "open" THEN "judges" ELSE "done"
    /\ at = [k \in Calls |-> IF setup.gate = "open" /\ k # Generator THEN "slot" ELSE "idle"]
    /\ attempt = [k \in Calls |-> 1]
    /\ outcome = [k \in Calls |-> Pending]
    /\ order = <<>>
    /\ tests = <<>>
    /\ counts = NoCounts
    /\ adversarial = _empty_adversarial(None, None)
    /\ assessment = IF setup.gate = "open" THEN _assessment(None, None) ELSE Gate(setup.gate)
    /\ row = _assessment(None, None)
    /\ shown = _assessment(None, None)

-----------------------------------------------------------------------------
(***************************************************************************)
(* OpenAICompatibleProvider._complete for call k.                          *)
(***************************************************************************)
InFlight == {k \in Calls : at[k] = "request"}

\* async with self._request_slots.
acquire(k) ==
    /\ at[k] = "slot" /\ Cardinality(InFlight) < Slots
    /\ at' = [at EXCEPT ![k] = "request"]
    /\ UNCHANGED <<setup, phase, attempt, outcome, order, caseVars, assessment, storeVars>>

EndCall(k, what) ==
    /\ at' = [at EXCEPT ![k] = "ended"]
    /\ outcome' = [outcome EXCEPT ![k] = what]
    /\ order' = Append(order, k)

\* The provider answers; JudgeService and AdversarialService then decode the
\* content, where anything but the schema is malformed_output.  The schema admits
\* U+0000 in the summary and the findings of a judge, in the rationale and the code
\* of a test, and in the response's id.
Answers(k) ==
    IF k = Generator
      THEN {[code |-> "ok", score |-> Missing, draft |-> d, nul |-> nul] :
                d \in Drafts, nul \in BOOLEAN}
      ELSE {[code |-> "ok", score |-> answer.score, draft |-> <<>>, nul |-> answer.nul] :
                answer \in JudgeAnswers}

Error(code) == [Pending EXCEPT !.code = code]

\* AdversarialService makes the text of a ValueError its code, however long: json.loads
\* has one of 139 characters, for an integer of more than 4300 digits.
Undecodable(k) == {"malformed_output"} \cup IF k = Generator THEN {"long_value_error"} ELSE {}

respond(k) ==
    /\ at[k] = "request"
    /\ \E what \in Answers(k) \cup {Error(code) : code \in Undecodable(k)} : EndCall(k, what)
    /\ UNCHANGED <<setup, phase, attempt, caseVars, assessment, storeVars>>

\* A permanent error is raised at once; any other exception is given a code by
\* the service that made the call.
Unexpected(k) == IF k = Generator THEN "adversarial_unavailable" ELSE "provider_unavailable"

refuse(k) ==
    /\ at[k] = "request"
    /\ \E code \in {"rejected", Unexpected(k)} : EndCall(k, Error(code))
    /\ UNCHANGED <<setup, phase, attempt, caseVars, assessment, storeVars>>

\* A timeout, a broken connection, 429 or 5xx: the slot is left, and the call
\* pauses unless this was the last attempt.
fail(k) ==
    /\ at[k] = "request"
    /\ IF attempt[k] >= MaxAttempts
         THEN EndCall(k, Error("transient"))
         ELSE /\ at' = [at EXCEPT ![k] = "pause"]
              /\ UNCHANGED <<outcome, order>>
    /\ UNCHANGED <<setup, phase, attempt, caseVars, assessment, storeVars>>

resume_SameAttempt(k) ==
    /\ at[k] = "pause"
    /\ at' = [at EXCEPT ![k] = "slot"]
    /\ UNCHANGED <<setup, phase, attempt, outcome, order, caseVars, assessment, storeVars>>

resume(k) ==
    /\ at[k] = "pause"
    /\ at' = [at EXCEPT ![k] = "slot"]
    /\ attempt' = [attempt EXCEPT ![k] = @ + 1]
    /\ UNCHANGED <<setup, phase, outcome, order, caseVars, assessment, storeVars>>

-----------------------------------------------------------------------------
(***************************************************************************)
(* AIService.assess.                                                       *)
(***************************************************************************)

\* gather has all the judges: their results in the order of the models.
gather ==
    /\ phase = "judges" /\ \A k \in Judges : at[k] = "ended"
    /\ IF setup.extra = "present"
         THEN /\ phase' = "generate"
              /\ at' = [at EXCEPT ![Generator] = "slot"]
              /\ UNCHANGED adversarial
         ELSE /\ phase' = "conclude"
              /\ adversarial' = _empty_adversarial("skipped", setup.extra)
              /\ UNCHANGED at
    /\ UNCHANGED <<setup, attempt, outcome, order, tests, counts, assessment, storeVars>>

\* What is raised when there is nothing to validate, or too much of it.
Refusals(code, draft) ==
    CASE code # "ok" -> {code}
      [] code = "ok" /\ Len(draft) > MaxAdversarialTests -> {"too_many_generated_tests"}
      [] code = "ok" /\ Len(draft) \in 1..MaxAdversarialTests -> {"generated_tests_too_large"}
      [] OTHER -> {}

\* The draft is checked as a whole, then proposal by proposal.
validate ==
    /\ phase = "generate" /\ at[Generator] = "ended"
    /\ LET draft == outcome[Generator].draft
           code  == outcome[Generator].code
       IN  \/ /\ \E reason \in Refusals(code, draft) :
                    adversarial' = _empty_adversarial("unavailable", reason)
              /\ phase' = "conclude"
              /\ UNCHANGED <<tests, counts>>
           \/ /\ code = "ok" /\ Len(draft) <= MaxAdversarialTests
              /\ tests' = Listed(deduplicate_and_validate(draft))
              /\ counts' = [NoCounts EXCEPT !.generated = Len(draft)]
              /\ phase' = "cases"
              /\ UNCHANGED adversarial
    /\ UNCHANGED <<setup, callVars, assessment, storeVars>>

\* The first n proposals are among the artifacts, whatever came of them.
CountedTests(status, reason, c, failed, robustness, n) ==
    [status |-> status, reason |-> reason, generated |-> c.generated,
     accepted |-> c.accepted, reference |-> c.reference, passed |-> c.passed,
     failed |-> failed, robustness |-> robustness,
     nul |-> outcome[Generator].nul \/ \E i \in 1..n : outcome[Generator].draft[i].nul]

\* One test: on the reference, where any failure drops it, and then on the
\* candidate, where a failing sandbox gives the whole component up.
run_reference_rejects ==
    /\ phase = "cases" /\ tests # <<>>
    /\ tests' = Tail(tests)
    /\ counts' = [counts EXCEPT !.accepted = @ + 1]
    /\ UNCHANGED <<setup, phase, callVars, adversarial, assessment, storeVars>>

Passed(c) == [c EXCEPT !.accepted = @ + 1, !.reference = @ + 1, !.passed = @ + 1]
Failed(c) == [c EXCEPT !.accepted = @ + 1, !.reference = @ + 1]

run_candidate ==
    /\ phase = "cases" /\ tests # <<>>
    /\ tests' = Tail(tests)
    /\ counts' \in {Passed(counts), Failed(counts)}
    /\ UNCHANGED <<setup, phase, callVars, adversarial, assessment, storeVars>>

run_candidate_unavailable_CountsFailure ==
    /\ phase = "cases" /\ tests # <<>>
    /\ LET c == Failed(counts)
       IN  adversarial' = CountedTests("unavailable", "adversarial_sandbox_unavailable", c,
                                  c.reference - c.passed, Missing, Head(tests) - 1)
    /\ phase' = "conclude"
    /\ UNCHANGED <<setup, callVars, tests, counts, assessment, storeVars>>

run_candidate_unavailable ==
    /\ phase = "cases" /\ tests # <<>>
    /\ LET c == Failed(counts)
       IN  adversarial' = CountedTests("unavailable", "adversarial_sandbox_unavailable", c,
                                  Max({0, c.reference - c.passed - 1}), Missing, Head(tests) - 1)
    /\ phase' = "conclude"
    /\ UNCHANGED <<setup, callVars, tests, counts, assessment, storeVars>>

\* A sandbox run raises: an OSError is taken for a missing reference.
run_raises ==
    /\ phase = "cases" /\ tests # <<>>
    /\ adversarial' \in {_empty_adversarial("skipped", "reference_unavailable"),
                         _empty_adversarial("unavailable", "adversarial_unavailable")}
    /\ phase' = "conclude"
    /\ UNCHANGED <<setup, callVars, tests, counts, assessment, storeVars>>

finish_cases ==
    /\ phase = "cases" /\ tests = <<>>
    /\ IF counts.reference = 0
         THEN adversarial' = CountedTests("unavailable", "no_valid_adversarial_tests", counts, 0,
                                          Missing, counts.generated)
         ELSE \E robustness \in Round2(counts.passed * FullScore, counts.reference) :
                adversarial' = CountedTests("completed", None, counts,
                                       counts.reference - counts.passed, robustness, counts.generated)
    /\ phase' = "conclude"
    /\ UNCHANGED <<setup, callVars, tests, counts, assessment, storeVars>>

\* The judges whose call ended in a ProviderError.
Errors == {k \in Judges : outcome[k].code # "ok"}

Disputed == Answered # {} /\ spread(Valid) > Threshold

AdversarialValid == adversarial.status = "completed" /\ adversarial.robustness # Missing

Status_Renormalizes ==
    IF Disputed THEN "disputed"
    ELSE IF Answered # {} /\ AdversarialValid THEN "completed"
    ELSE IF Answered # {} \/ AdversarialValid THEN "partial" ELSE "unavailable"

\* The status: disagreement first, then everything, something, nothing.
Status ==
    CASE Disputed -> "disputed"
      [] ~Disputed /\ Errors = {} /\ AdversarialValid -> "completed"
      [] ~Disputed /\ (Errors # {} \/ ~AdversarialValid)
           /\ (Answered # {} \/ AdversarialValid) -> "partial"
      [] OTHER -> "unavailable"

Reason ==
    CASE Status = "disputed" -> "judge_disagreement"
      [] Status = "completed" -> None
      [] OTHER -> IF Errors # {} THEN outcome[Min(Errors)].code
                  ELSE IF adversarial.reason # None THEN adversarial.reason
                  ELSE "adversarial_unavailable"

JudgeResults_AsTheyCame ==
    LET ended == SelectSeq(order, LAMBDA k : k # Generator /\ outcome[k].code = "ok")
    IN  [i \in DOMAIN ended |-> outcome[ended[i]].score]

JudgeResults == Valid

JudgesNul == \E k \in Answered : outcome[k].nul

assess ==
    /\ phase = "conclude"
    /\ phase' = "done"
    /\ \E judge \in IF Answered = {} THEN {Missing} ELSE median(Valid) :
       \E score \in IF Status = "completed"
                      THEN calculate_ai_score(judge, adversarial.robustness) ELSE {Missing} :
            assessment' = [status |-> Status, reason |-> Reason, score |-> score,
                       judge |-> judge, disputed |-> Disputed,
                       spread |-> IF Answered = {} THEN Missing ELSE spread(Valid),
                       judges |-> JudgeResults, nul |-> JudgesNul,
                       adversarial |-> adversarial]
    /\ UNCHANGED <<setup, callVars, caseVars, storeVars>>

-----------------------------------------------------------------------------
(***************************************************************************)
(* The columns of the evaluations row, and the assessment read from them.  *)
(* Robustness is a column beside the document of the adversarial tests;    *)
(* the judges, their dispute and their spread are one document.            *)
(***************************************************************************)
AIStatus == {"disabled", "completed", "partial", "unavailable", "disputed", "skipped"}

evaluation_record_from_snapshot(ai) ==
    [ai_status |-> ai.status, ai_reason |-> ai.reason, ai_score |-> ai.score,
     judge_score |-> ai.judge, adversarial_robustness |-> ai.adversarial.robustness,
     ai_judge_results |-> [disputed |-> ai.disputed, disagreement_spread |-> ai.spread,
                           results |-> ai.judges, nul |-> ai.nul],
     ai_adversarial_results |-> ai.adversarial]

\* What the table takes: the values its CHECK constraints allow, a reason of at most
\* 128 characters, and documents without U+0000, which JSONB refuses.
StorableAI(record) ==
    /\ record.ai_status \in AIStatus
    /\ \A n \in {record.ai_score, record.judge_score, record.adversarial_robustness} :
          n \in 0..FullScore \cup {Missing}
    /\ record.ai_reason # "long_value_error"
    /\ ~record.ai_judge_results.nul /\ ~record.ai_adversarial_results.nul

_snapshot_from_record(record) ==
    [status |-> record.ai_status, reason |-> record.ai_reason,
     score |-> record.ai_score, judge |-> record.judge_score,
     disputed |-> record.ai_judge_results.disputed,
     spread |-> record.ai_judge_results.disagreement_spread,
     judges |-> record.ai_judge_results.results, nul |-> record.ai_judge_results.nul,
     adversarial |-> record.ai_adversarial_results]

\* SqlAlchemyEvaluationRepository.create: the transaction fails as a whole when
\* the table refuses one column of it.
create_with_ai ==
    /\ phase = "done"
    /\ LET record == evaluation_record_from_snapshot(assessment)
       IN  IF StorableAI(record) THEN row' = record /\ phase' = "stored"
                               ELSE row' = row /\ phase' = "refused"
    /\ UNCHANGED <<setup, callVars, caseVars, assessment, shown>>

get ==
    /\ phase = "stored"
    /\ phase' = "read"
    /\ shown' = _snapshot_from_record(row)
    /\ UNCHANGED <<setup, callVars, caseVars, assessment, row>>

Finished == phase \in {"read", "refused"} /\ UNCHANGED aiVars

Service ==
    \/ gather \/ validate \/ run_reference_rejects \/ run_candidate
    \/ run_candidate_unavailable \/ run_raises \/ finish_cases \/ assess
    \/ create_with_ai \/ get

Call(k) == acquire(k) \/ respond(k) \/ refuse(k) \/ fail(k) \/ resume(k)

AINext == (\E k \in Calls : Call(k)) \/ Service \/ Finished

AISpec == AIInit /\ [][AINext]_aiVars

(***************************************************************************)
(* Every request ends by its timeout and every pause by its sleep, and the *)
(* event loop runs what is ready.  asyncio.Semaphore is first come, first  *)
(* served, so a waiting call is not passed over for ever.                  *)
(***************************************************************************)
FairAISpec ==
    /\ AISpec
    /\ WF_aiVars(Service)
    /\ \A k \in Calls : SF_aiVars(acquire(k))
    /\ \A k \in Calls : WF_aiVars(respond(k) \/ refuse(k) \/ fail(k) \/ resume(k))

-----------------------------------------------------------------------------
(***************************************************************************)
(* Properties.                                                             *)
(***************************************************************************)
\* assess, _complete: phases, calls and counters keep their shape, and an
\* assessment exists exactly when the service has ended.
AITypeOK ==
    /\ setup \in Setups
    /\ phase \in {"judges", "generate", "cases", "conclude", "done", "stored",
                 "refused", "read"}
    /\ at \in [Calls -> {"idle", "slot", "request", "pause", "ended"}]
    /\ attempt \in [Calls -> 1..MaxAttempts]
    /\ \A k \in Calls : outcome[k].code \in Codes \cup {None, "ok"}
    /\ \A f \in DOMAIN counts : counts[f] \in Nat
    /\ (assessment.status # None) = (phase \in {"done", "stored", "refused", "read"})
    /\ assessment.status # None => assessment.status \in AIStatus

\* docs/evaluation/scoring.md: an aggregate AI score exists exactly when every
\* judge answered, they agree, and tests validated by the reference ran on the
\* candidate; nothing is renormalised over what is missing.
ScoreNeedsEverything ==
    assessment.status # None =>
        ((assessment.score # Missing) <=>
            /\ setup.gate = "open"
            /\ \A k \in Judges : outcome[k].code = "ok"
            /\ \A i, k \in Judges : outcome[i].score - outcome[k].score <= Threshold
            /\ assessment.adversarial.reference > 0
            /\ assessment.adversarial.status = "completed")

\* calculate_ai_score, aggregate_judge_scores: a score lies between the scores
\* it is made of.
ScoreIsBetween ==
    assessment.status # None =>
        /\ assessment.judge # Missing =>
            /\ assessment.judge >= Min(Range(assessment.judges))
            /\ assessment.judge <= Max(Range(assessment.judges))
        /\ assessment.score # Missing =>
            /\ assessment.score >= Min({assessment.judge, assessment.adversarial.robustness})
            /\ assessment.score <= Max({assessment.judge, assessment.adversarial.robustness})

\* The scores that were given, one for each, in the order of the models.
InModelOrder(scores) ==
    \E of \in [DOMAIN scores -> Judges] :
        /\ \A i, k \in DOMAIN scores : i < k => of[i] < of[k]
        /\ Range(of) = {k \in Judges : outcome[k].score # Missing}
        /\ \A i \in DOMAIN scores : scores[i] = outcome[of[i]].score

\* A text of call k's answer holds U+0000.
WroteNul(k) == outcome[k].nul \/ \E i \in DOMAIN outcome[k].draft : outcome[k].draft[i].nul

UnstorableText ==
    \/ \E k \in Calls : outcome[k].code = "ok" /\ WroteNul(k)
    \/ outcome[Generator].code = "long_value_error"

\* _run_judges, create, get: the table refuses an assessment, and with it the whole
\* evaluation, only for what a model wrote: a U+0000 in a text that answered, or a
\* draft with an integer so long that its error does not fit the reason.  What is
\* read back, which the AI fingerprint was taken over, is the judges in the order
\* of the configured models however the answers came in, disputed exactly when two
\* of them differ by more than the threshold, with everything else that was
\* assessed.
AssessmentIsKept ==
    /\ phase = "refused" => UnstorableText
    /\ phase = "read" =>
        /\ shown = assessment
        /\ setup.gate = "open" =>
             /\ InModelOrder(shown.judges)
             /\ shown.disputed <=>
                  \E i, k \in DOMAIN shown.judges :
                      shown.judges[i] - shown.judges[k] > Threshold

\* AdversarialService.evaluate: every counted test is accounted for once, and
\* when the candidate sandbox fails the test it failed on counts as neither.
CountsAgree ==
    adversarial.status # None =>
        LET a == adversarial
        IN  /\ a.reference <= a.accepted /\ a.accepted <= a.generated
            /\ a.generated <= MaxAdversarialTests
            /\ a.passed + a.failed =
                 IF a.reason = "adversarial_sandbox_unavailable"
                   THEN a.reference - 1 ELSE a.reference

\* deduplicate_and_validate: no two tests that run have the same name or the
\* same code, so one behaviour is never counted twice in the robustness.
TestsAreDistinct ==
    phase = "cases" =>
        \A i, j \in Range(tests) :
            i # j => /\ outcome[Generator].draft[i].name # outcome[Generator].draft[j].name
                     /\ outcome[Generator].draft[i].code # outcome[Generator].draft[j].code

\* assess, calculate_ai_score, AdversarialService.evaluate: the score of an
\* assessment rests on complete evidence, lies between the parts it combines, and
\* its robustness counts distinct tests once each.
ScoreIsSound ==
    ScoreNeedsEverything /\ ScoreIsBetween /\ CountsAgree /\ TestsAreDistinct

\* assess: the assessment ends whatever the provider and the sandbox do.
AssessmentEnds == <>(assessment.status # None)

=============================================================================
