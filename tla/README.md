# CodeJudge: TLA+ models and proofs

CodeJudge evaluates Python submissions in a sandbox, scores them, and benchmarks code-generating
models. Its hard part is the durable queue: PostgreSQL rows are the authority, Redis only delivers
notifications, and workers may crash, stall, lose replies or be overtaken at any point. The modules in
this directory model that queue and the parts around it; TLC checks them on small instances, and TLAPS
proves the safety results about both queues, the end of runs, submission and history, identities, the
sandbox and what runs in it, the evaluation, the AI assessment and the reports for every value of the
constants.

Contents: 1 inventory, 2 plan, 3 modules and their correspondence to the code, 4 runs and bounds,
5 fairness, 6 proofs, 7 where docs and code disagree, 8 assumptions and what is not modelled.

Reading the project: `PROJECT.json` maps every definition that models code to its source lines, gives
for every checked property a mistaken form of a definition (a *mutant*) that breaks it, and lists the
hazards of the code with the properties that watch them. To check a run: `tlc -config X.cfg M`; to check
the proofs of a component: `tlapm XProofs.tla` (section 6), and `tlapm FiniteFacts.tla` for what they share.

## 1. Inventory

| Part | State it keeps | Operations | Interacts with | What is hard | What makes it correct |
|---|---|---|---|---|---|
| Evaluation job repository (`app/jobs`) | `evaluation_jobs`, `outbox_events`, `evaluations` rows | create, claim, renew_lease, complete, record_failure, recover_stale, ready/mark outbox | API, worker, publisher, through row locks | claims and recoveries race, commits whose reply is lost | bounded attempts, one owner, final outcome, nothing stranded |
| Evaluation worker (`app/worker`) | the message in hand, the heartbeat task | process_message, renew_lease, loops of `main.py` | repository, stream, evaluator | lease expiry under a slow worker, crash between commit and acknowledgement | late results are refused, every job ends |
| Outbox and stream (`app/queue`) | unpublished rows, pending entries | dispatch_once, enqueue, consume, reclaim, acknowledge | repository, workers | duplicates, reordering, redelivery to a second worker | at least once, harmless duplicates |
| Benchmark repository (`app/benchmarks/repositories.py`) | run, sample, artifact and outbox rows | create_plan, claim, renew_lease, store_artifact, complete, record_failure, recover_stale, reconcile_terminal_runs | benchmark worker, API | the same, and the end of a run by concurrent samples | one stored artifact, the result is of it, the run follows its samples |
| Benchmark worker (`app/benchmarks/worker.py`) | confirmed lease, artifact in hand | _run_with_lease, _renew_before_expiry, _process_claimed, _generate | repository, provider, evaluator | lease loss cancels work in the middle of a stage | a confirmed lease is ownership, no second paid generation |
| Submission, polling, history (`app/jobs/service.py`, `app/benchmarks/service.py`) | idempotency keys | submit, create, get, list | API, repository | two submissions with one key, a retry after a lost reply, a poll in two sessions, pages of a list that grows in its middle | one row and one answer per key, polls that never contradict, pages that miss nothing |
| Runtime identity (`app/snapshots`) | the identity each process keeps | snapshot, validate, complete | API, worker, Docker | a failing inspection is kept, the tag moves | a result carries the identity its job was accepted with |
| Evaluation engine (`app/evaluator`) | one stored row | prepare_request, evaluate, calculate_score, build_findings, create | runner, analyzers, AI | a tool that fails after others reported, a commit without a reply | a score rests on complete evidence and says what it lost |
| Static analysis (`app/analysis`) | one process and its two pipes at a time | run, drain, _terminate, the four tools | engine | two drains share one budget, a timer races an exit, cancellation at every await | exact capture, no process left, no partial evidence |
| AI assessment (`app/ai`) | columns of the evaluation row | assess, judges, adversarial cases, provider attempts | provider, sandbox, repository | several calls fail independently, answers arrive in any order, the table constrains what fits together | no score over partial evidence, each test counted once, what is read is what was assessed |
| Docker runner (`app/runners`) | one container | check_capability, create, start, the line protocol, kill, inspect, remove | Docker CLI and daemon | a killed command takes effect later, cancellation twice, exit 137 has two causes | tests only from complete runs, nothing left running |
| Trusted harness, supervisor, candidate (`app/runners/trusted_harness.py`, `sandbox`) | one candidate process per case | evaluate, _run_case, _step, the pipes between them | runner, reference solutions | steps are written ahead of the answers, the candidate exits or writes on its own | a case counts only if its own process answered every step as expected |
| Reference solutions (`app/tasks/definitions`) | objects of the tasks | process_batch, allow, call, feed, resolve_dependencies | candidate process, generated tests | cancellation at every await, boundaries of time, input cut anywhere | the oracle keeps the specification it is the measure of |
| Statistics, winners, export (`app/benchmarks`) | none | aggregate, rank, choose, export, summarise | repository | rows change between two reads, missing samples | final reports never outdated, missing is never credited |
| Archives, command line (`app/benchmarks/productization.py`, `cli.py`) | a directory of files | write_archive, verify_archive | export | a command killed inside a file, two commands in one directory | what verifies is one whole export |
| Configuration, registry, migrations | constants | load, hash | all | - | - |

State shared between processes is only in PostgreSQL and Redis; inside a process, asyncio tasks share
the provider's semaphore, the identity collector's lock and the bounded capture of a command. Messages
are hints: a worker decides by the row alone whether to claim. The `hazards` of `PROJECT.json` name the
lines where these parts can go wrong.

## 2. Plan

Order of the work, most important behaviour first:

1. `LeasedWork`, `EvaluationJobs`: the queue every other part relies on; the abstract promise and the
   detailed protocol. Theorems: types, nothing stranded, refinement. *Done.*
2. `BenchmarkSamples`: the second queue, with two stages and fail-closed leases; the same refinement.
   Theorems: nothing stranded, leases hold, one artifact, stale owners write nothing, refinement. *Done.*
3. `RunFinalization`: the transactions that end runs, at the level of row locks, which justify the
   single steps of `BenchmarkSamples`. Theorems: types, runs follow samples, closed by the last sample,
   workers never deadlock. *Done.*
4. `Submission` with `History`, `RuntimeIdentity`: what surrounds the queue, from POST to poll and from
   acceptance to result. Theorems: idempotent creation, consistent reads, advancing polls, results as
   accepted. *Done.*
5. `SandboxRunner`, `Evaluation`, `AIAssessment`: what one attempt executes. Theorems: justified verdicts,
   nothing left running, whole evidence, explained scores, answers that are stored, sound assessments that
   are kept. *Done.*
6. `BenchmarkReport` and `BenchmarkArchive`: what is reported while rows still change, and what is kept of
   a finished run. Theorems: final reports stay true, winners are earned, counts add up. *Done.*
7. `SandboxTests` with `BatchProcessor` and `TaskOracles`: what runs inside the container, for official
   cases and for generated tests. Theorems: reports are earned, answers follow the history of calls, orders
   are the least. *The batch processor, the decoder and the official cases are only checked.*

What is left to TLC, and why, is the last list of section 6.

`LeasedWork` is the abstract specification of both queues. `BenchmarkSamples` takes the transactions of
`RunFinalization` as single steps, treats a generation and an evaluation as an arbitrary outcome (which
`Evaluation`, `SandboxRunner`, `SandboxTests` and `AIAssessment` detail), and `BenchmarkReport` reads the rows that
`BenchmarkSamples` produces. `History` extends `Submission` by a reader; `SandboxTests` composes the
harness, the supervisor and the candidate with the solutions of `BatchProcessor` and `TaskOracles`;
`BenchmarkArchive` extends `BenchmarkReport` by the directory an export is written to.

## 3. Modules and the code

Definitions keep the names of the functions they model. A definition with a suffix in capitals
(`Stale_MayRetry`) is a mutant of the one that follows it and is used by no specification.

**LeasedWork** (abstract). A unit of work is absent, waiting, running, completed or failed, and counts
its attempts: at most `MaxAttempts`, one at a time, and a final outcome. One step may move several
units, as one recovery transaction does.

**EvaluationJobs** (`app/jobs/repositories.py`, `app/queue/*`, `app/worker/*`). `status`,
`attempt_count`, `worker_id`, `lease_expires_at`, `next_attempt_at`, `last_error` are the columns of
`evaluation_jobs`, `snapshots` the stored results, `outbox*` the outbox rows, `added`, `delivered`,
`acked` the stream and its group, `pc`, `held`, `claimed`, `heartbeat`, `error` a worker, `stage`,
`batch`, `current` a publisher loop. One action is one transaction (`create`, `claim`, `renew_lease`,
`complete`, `record_failure`, `recover_stale`, `ready_outbox`, `mark_outbox_published`,
`mark_outbox_failed`), one Redis command (`enqueue`, `consume`, `reclaim`, `acknowledge`) or the
evaluation between two of them (`Evaluate`). `Reply` loses the answer of a transaction that committed,
`LoseConnection` and `FailRound` fail a request, `CrashWorker` ends a process at any point, and
`recover_stale(S)` takes any set of stale rows, as `SKIP LOCKED` does. Time columns hold the time left.

**BenchmarkSamples** (`app/benchmarks/repositories.py`, `queue.py`, `worker.py`, `worker_main.py`). As
above with the stages generate, store, evaluate, `artifact` and `evaluation` naming the attempt whose
source they hold, and `known`, the time a worker believes to be left on its lease: `renew_lease` sets it,
`LoseLease` cancels the work when it runs out. `MayWrite` and `MayRefuse` overlap, because the clock an
expiry is compared with is read before the row lock is obtained. `RedisRestart` forgets any of the
entries, deliveries and acknowledgements; `lost` remembers the entries for the properties. `Raise` is the
worker's generic handler: any exception in a stage, before or after the artifact, fails the sample. A process
that is started again has a new worker id (`worker_main.py:102`): `Replaces` says which ids it comes after,
and `Started` that those are dead.

**RunFinalization** (`app/benchmarks/repositories.py`). Transactions of `claim`, `finish` (complete and
a final failure), `retry`, `recover_stale` and `reconcile_terminal_runs` under READ COMMITTED:
`sample_lock` and `run_lock` are row locks, `wanted` the sample rows a transaction waits for, `writes` and
`outcome` what it has written and not committed, `queue` the runs it has still to lock. A worker's transaction
asks for the row of its sample (`ask`), and when it gets it goes on as its method (`claim`, `finish`, `retry`)
or finds that there is nothing to do (`refuse`); the maintenance loop takes what is free, as `SKIP LOCKED` does.
`lock_run`, `visit_run` and `commit` are the steps of all. `Deadlocked` names the members of a circle of
transactions that wait for each other, over rows of either kind, of which PostgreSQL aborts any one (`abort`).

**Submission** (`app/jobs/service.py`, `app/benchmarks/service.py` and the two `create` transactions).
`submit`, `lookup`, `insert`, `insert_refused`, `lookup_again` follow one POST; `DatabaseFails`,
`CommitUnknown`, `ApiDies` and `AnswerLost` leave the caller without a definite answer, and it posts
again. `get_row` and `get_parts` are the two sessions of a poll; `Finish` and `FailJob` stand for the
workers.

**History** (`app/jobs/repositories.py`, `list`, and `app/api/routes/evaluations.py`). Extends
`Submission` with `stamps`, the `created_at` of the rows, taken from `clock` before they are stored, and
a `reader` who asks for page after page. `list_jobs` and `list_snapshots` are the two queries of a page,
between which rows may be committed; `Query` gives each the first `limit + offset` rows, as the code does,
in the order of `Ranking`. `Calm` bounds the run: nobody polls and nothing fails while the history is read.

**RuntimeIdentity** (`app/snapshots/metadata.py` with its callers). `cached` is the collector's field,
`look`, `acquire`, `collect`, `snapshot` the double-checked lock around it; `progress` and `step` follow a job
from `submit` and `store_job` to `claim`, `run` and `complete` or `retry`. `Rebuild` moves `tag`, `Restart`
empties the cache.

**SandboxRunner** (`app/runners/docker_runner.py`, `docker_cli.py`, `sandbox/entrypoint.py`). Probes,
create, start, the request and answer lines, wait, timeout, kill, inspect, event query, remove and
cancellation of one evaluation, beside the container, the daemon and `late`, the requests of killed
commands that the daemon still executes. When memory runs out (`OutOfMemory`) the kernel kills the supervisor,
which ends the container; or the candidate before its answer, which makes the case invalid; or something that
nobody waits for, a process the candidate forked or a candidate that has answered, and the evaluation goes
on. Docker may or may not call the container out of memory, whichever it was.

**SandboxTests** (`app/runners/trusted_harness.py`, `sandbox/entrypoint.py`,
`sandbox/candidate_worker.py`). `send_case` sends a case, `_run_case` starts a process for it, `write_step`
and `read_step` move one line each, `send_shutdown` and `wait_candidate` end the process, and `evaluate`
compares the outcomes. The candidate is the reference solution (`_step`, `start_batch`, `run_callback`,
`end_batch`), a module that does not load (`refuse_step`), or any program (`answer_anything`, `exit`): it may
then write any line the supervisor tells apart, at any time, exit, and `fork`. `descendants` says whether
processes it forked are alive. The supervisor waits for and kills its own child only, so they live on into
later cases; they hold the pipe of the case they were forked in, may write to it as long as it is open, and
keep it from breaking (`Held`). As every process started for a case runs as the same user, they may even open
a later pipe, so that what `answer_anything` writes is never attributed to one of them. The cases are the constant
`OFFICIAL_CASES`. For generated tests the actions (`test_allow`, `test_call`, `test_feed`, `resolve`, ...) call
a reference solution directly, in any order.

**OfficialCases**. The cases of three tasks with their values, from `trusted_harness.py`; `MCSandboxTests`
gives them to `OFFICIAL_CASES`.

**BatchProcessor** (`async_batch_processor/reference/solution.py`). `process_batch` and the worker the
candidate process hands to it, callback by callback of the event loop. asyncio is external: the
semaphore's queue and hand-over, `gather`, and cancellation are modelled as far as the code observes them.
Generated tests may fail any worker and cancel the batch at any time, once or twice.

**TaskOracles**. `allow`, `call` with `reset`, `feed` with `finish`, and `resolve_dependencies`: objects
are records, an operation gives its answer and the next object. `call` runs its operation between two
steps, so that it can be interrupted by what is no `Exception`.

**Evaluation** (`app/evaluator/*`, `app/analysis/*`, `app/db/repositories.py`). One request from
validation to answer; the analyzers are processes that write bytes (`Write`), exit (`Exit`), are drained
(`drain`), time out (`time_out`) or are cancelled (`cancel`). Scores are integers in hundredths, and
`round()` of a tie falls on either side. `Storable` is what the table takes of what `create` inserts: the
check constraints, and texts without U+0000, which `EvaluationRequest` admits, the scoring ignores and PostgreSQL
refuses, in the source or in what a finding quotes of it (`HoldsNul`).

**AIAssessment** (`app/ai/*`). The gates of `assess` (none but an open one makes a call), concurrent
provider calls with attempts, pauses and slots, the tests on reference and candidate, of which `Fresh` keeps
the first of each name and code, and the aggregation over the judges in their order (`Listed`); then
`create_with_ai` inserts the columns that `evaluation_record_from_snapshot` makes of it, under what the table
takes (`StorableAI`): its constraints, a reason of at most 128 characters, and documents without U+0000, which a
judge's or the generator's text may hold. `Undecodable` has the one reason that is longer, the text of a
`ValueError` of `json.loads`. `get` reads the columns back.

**BenchmarkReport** (`app/benchmarks/statistics.py`, `winners.py`, `reliability.py`, `exporting.py`,
`service.py`). `rows` are the joined result rows, changed by one action per transaction a report can
see: a provider fails generations, any other exception is a failed evaluation, with or without an
artifact (`record_failure`); `reader` is an export or a summary between its two sessions, `published` what it answered. Means are
exact fractions over the common denominator `Unit`, and the board is in the order of `Ranking`.

**Ranking**. `InOrder`: a finite set as the sequence in which each member has the place given by the number of
those before it, for `sorted` and `ORDER BY`.

**BenchmarkArchive** (`app/benchmarks/productization.py`, `exporting.py`, `cli.py`). `files` is the archive
directory, `writers` the archive commands: `archive` and `export` read the finished run, `write_archive`
checks that the directory is empty, `begin_file` and `write_file` write one file after another, `Die` kills
a command anywhere, `Damage` changes the directory later. `verify_archive` is a function of the directory:
verification is taken to see it at one moment. A hash is the content itself.

## 4. Runs, what they show and their bounds

| Run | Instance | Distinct states | Shows |
|---|---|---|---|
| `jobs` | 1 job, 2 workers, 1 publisher, 2 attempts, 1 fault | 399,836 | `NoStrandedJob`, `RowsAreOwned`, refinement of `LeasedWork`, every job ends |
| `jobs_renewal` | the same without faults | - | `RenewalBeforeExpiry` is violated (section 7) |
| `samples` | 1 sample, 2 workers, 2 attempts, 1 fault | 581,474 | `NoStrandedSample`, `ConfirmedLeaseHolds`, `OneArtifact`, `OnlyCurrentAttemptWrites`, `DelayKeptByOutbox`, refinement |
| `samples_liveness` | 1 sample, 1 worker that is started again under a second and a third id, 2 attempts, 2 faults | 429,984 | `RunEnds` |
| `runs` | 2 runs of 2 samples, 3 concurrent transactions | 430,140 | `RunFollowsSamples`, `ClosedByLastSample`, `DeadlocksSpareWorkers` |
| `sandbox` | 2 cases, 3 probes, 3 event queries, 4 faults | 420,768 | `VerdictIsJustified`, `NothingLeftRunning`, `EvaluationEnds` |
| `tests` (`MCSandboxTests`) | 3 tasks with their official cases, 5 reference solutions; up to 3 items, 4 calls, 6 characters, graphs over 3 names; candidates that fork | 468,753 | `ReferencePasses`, `ReportIsEarned`, `BoundedConcurrency`, `BatchLeavesNothing`, `AnswersFollowHistory`, `DecoderIsExact`, `ResolverIsLeast` |
| `submission` | 3 callers under one key, 1 without, 2 posts, 2 polls, 1 fault; or, without polls and faults (`Calm`), 2 authors, 1 older snapshot and a reader with pages of 1 | 1,201,360 | `IdempotentCreation`, `ReadsAreConsistent`, `PollsOnlyAdvance` |
| `identity` | 1 API, 2 workers, 2 jobs, 2 images, 2 rebuilds, 2 faults, 2 restarts | 99,335 | `CompletedAsAccepted`, `IdentityIsStable` |
| `ai` | 2 judges, 1 slot, 2 attempts, 3 scores, drafts with every kind of duplicate, texts with U+0000 | 214,251 | `ScoreIsSound`, `AssessmentIsKept`, `AssessmentEnds` |
| `evaluation` | 4 tools, 1 fault; 3 bytes against a limit of 2 with 1 test, or 3 tests, counts of 5 findings, complexity 6, or 1 test and texts with U+0000 | 681,468 | `EvidenceIsWhole`, `NoProcessOutlivesItsCommand`, `ScoreIsExplained`, `AnsweredIsStored`, `EvaluationAnswered` |
| `report` | 2 models, 1 task, 2 repeats; 1 reader, or 2 archive commands and 1 damage | 1,149,935 | `WinnersAreEarned`, `CountsAddUp`, `FinalReportsAreKept` |

Several properties are conjunctions of named parts, each with its own comment: `RowsAreOwned`
(`RowConsistent`, `OneOwner`), `OneArtifact`, `VerdictIsJustified` (`ReportIsComplete`,
`OomOnlyFromEvidence`), `IdempotentCreation`, `ReadsAreConsistent` (`PollIsConsistent`,
`PagesMissNothing`), `ScoreIsSound`, `EvidenceIsWhole`, `ScoreIsExplained`, `AnswersFollowHistory`,
`WinnersAreEarned`, `CountsAddUp` and `FinalReportsAreKept` (`FinalReportsStay`, `ArchiveIsWhole`). Most
modules have a type invariant (`TypeOK`, `AITypeOK`, `IdentityTypeOK`), which no run repeats where section 6
lists a theorem `...TypeCorrect`.

Why the bounds are enough for the cases that matter:

- Two attempts give a first, a last and a retried attempt with its delay; two workers give an owner
  and a worker that was overtaken; one fault at any point, together with expiring leases and duplicate
  deliveries that need no fault, gives every pair of a late result and a new attempt. `jobs` was also run
  with two faults (3.7 million states) with the same result. The theorems remove the bounds for
  every safety property of both queues.
- One job or sample suffices in the queue modules: no guard of one row depends on another row, except
  the end of a run, which is `RunFinalization` with two samples in each of two runs. Two transactions
  suffice for the race of the last samples and for a circle of two; a third makes a worker wait beside a
  circle, or close one of three. The theorems hold for any number.
- `samples_liveness` has three ids, one more than its two faults: a worker that dies twice is still started
  again, so `RunEnds` is about what the next process makes of what the last one left, in every stage, and
  never holds because nobody is left. Two workers at once are in `samples`.
- Three callers of one key give two racing equal requests and a conflicting one. Two posts give a retry
  after a lost answer; a plan of two samples gives a poll between two ends.
- Two rebuilds bring the tag back to its first image; two restarts let both sides of a comparison
  change.
- Two judges over one slot make them compete for it while one pauses; the disagreement threshold is
  met exactly, exceeded and undercut by the three scores. A draft of three has a proposal that repeats a
  duplicate only, which is not one.
- Three bytes against a limit of two make a read that crosses the limit, on either pipe and after the
  other. A count of five findings drives a dimension to and below zero; the complexities of the
  three instances, 5 and 6, lie on both sides of a band's end.
- Three items with a concurrency of one or two give a batch with workers active, waiting and done at
  once, so that a failure meets each of them; a second cancellation meets the cleanup of the first. Four
  calls at four times reach the threshold, open, probe and reopen a breaker, and fill and empty a window. Six
  characters hold two frames, a prefix of two digits, or a malformed one after a good frame. A candidate
  that is any program has two lines in its pipe at most, one more than the supervisor reads next.
- The reader of the history meets two authors, a plan of two samples whose evaluations appear in the
  middle of the order, and a snapshot that is older than all; pages of one entry make every insertion
  fall between two pages.
- Archives are written of runs whose samples either reached the best score or were skipped, so of complete
  and of partial ones, with and without candidates; two commands suffice for one that writes over another.
- Two repeats are the least for which coverage, consistency and stability differ. One task leaves out
  task weights: an instance with two tasks and one model is small too, but shows nothing about winners.

Symmetry of workers, transactions, samples, jobs, images or sample indices, which nothing compares, is used in runs
without liveness only (`jobs_renewal`, `samples`, `runs`, `identity`, `report`).

Deadlock is checked where the modelled system never stops (`jobs`, `samples`, `samples_liveness`, `ai`,
`evaluation`); the other instances stop when their bounded requests, evaluations or restarts are used up.

## 5. Fairness

Liveness is checked by TLC only.

- `EvaluationJobs`, `BenchmarkSamples`: weak fairness of time, of every publisher step, of recovery and of
  every step of a live worker. The loops of `main.py` and `worker_main.py` catch every exception and go
  on, so a step that stays possible is taken. Crashing and failing steps have no fairness; faults are finitely many.
  Renewal has none beyond the first confirmation, so a lease may run out at any time.
  `samples_liveness` takes a process that died to be started again, as whoever operates it has to: without a
  worker no sample ends.
- `RunFinalization`: none. That its transactions come to an end is up to PostgreSQL, which queues the waiters
  of a row lock and aborts a member of every circle; the code only decides who can be in one, which is
  the safety property `DeadlocksSpareWorkers`.
- `SandboxRunner`: weak fairness of the runner, whose every command has a time limit. None of the
  candidate or the container.
- `AIAssessment`: every request ends by its timeout and every pause by its sleep; strong fairness of
  `acquire`, because `asyncio.Semaphore` serves in order of arrival.
- `Evaluation`: the event loop runs what is ready and `wait_for`'s timer fires. None of the analyzer.

## 6. Proofs

All theorems hold for every value of the constants under the named assumptions of the modules:

- queues: `NoWorker` is no worker, at least one attempt, a positive lease, any number of faults, retry delays
  that are natural numbers; every run has a sample, `NoTask` is no task, finitely many runs;
- around them: authors are clients, pages are not empty; processes, images and the unset identity are apart;
- an attempt: at least one case, probe and event query; fewer than 20,000 tests (the tasks have at most 17), as
  a share of correctness below that is no hundredth of a point; judge scores on the scale, drafts that are
  lists, at least one judge, slot and attempt;
- reports: a finite plan with positive weights, scores from 0 to 100, provider codes that are not the worker's,
  a `Unit` that every number of repeats divides;
- tests: every task has cases and every case steps; limits, thresholds and times are positive, as the
  constructors demand; the names of a graph are finitely many, numbered in their order.

They use SMT and Zenon for steps and PTL for the temporal conclusion. Each inductive invariant was first
checked by TLC on the instance of its run.

**FiniteFacts.** What several proofs need of finite sets: sums over a set of indices (`SumInt`, `SumRemove`,
`SumGrows`, `SumMore`, ...), sets counted by their parts, least and greatest members, and sets in a strict order
(`EveryPlace`, `PlacedInOrder`, `CutOff`). An induction over data cannot be given to the provers as such. It is
replaced by a minimal counterexample: among the subsets of a finite set for which a claim fails there is a
minimal one (`MinimalSubset`), and removing a member of it refutes the claim for a smaller one. For the same
reason the sequences that the code sorts are defined by rank (`InOrder`) rather than by a sorting operator, of
which the provers know nothing.

**EvaluationJobsProofs.** `NoStrandedJob` is not inductive: that the last unacknowledged message is not
acknowledged depends on when messages may be ignored. The inductive invariant is
`IInv == TypeOK /\ Shape /\ Rows /\ Timing /\ Answered`:

- `Shape`: a waiting job has attempts left, a running one has begun one, and processes hold what their
  program counter says;
- `Rows`: the outbox row of the attempt a job waits for exists, rows exist for no later attempt, and
  what is published was added to the stream;
- `Timing`: the row of a retry is in no publisher's hands and not in the stream before the retry is due,
  which is why a message that meets a waiting job can always be claimed;
- `Answered`: a message is acknowledged, or about to be, only when the attempt its row asked for has
  been claimed or none will be needed.

One lemma per action shows that it preserves `IInv`; `UnclaimablePassed` is the heart of `claim`, and
`GiveUpStep` is shared by `recover_stale` and `record_failure`. From it follow `TypeCorrect`, hence at most
`MaxAttempts` attempts, `JobsNeverStranded` (`NoStrandedJob`), `RowsStayOwned` (`RowsAreOwned`, which is
itself inductive beside `IInv`) and `Refinement` (`Spec => ImplementsLeasedWork`).

**BenchmarkSamplesProofs.** `IInv == TypeOK /\ Planned /\ SamplesOK /\ RowsOK /\ Answered /\ WorkersOK /\
EvaluatesStoredArtifact`. As above a sample needs its outbox row (`SamplesOK`, `RowsOK`) and a message is
answered only when its row has had its effect (`Answered`); a restart of Redis is the one way out, which
`lost` records. `WorkersOK` says what a worker may rely on: what it believes of its lease is at most what
the row says, its attempt is the row's as long as it owns it, and an owner that generates has found no
artifact. From it follow `TypeCorrect`, `SamplesNeverStranded` (`NoStrandedSample`), `LeasesHold`
(`ConfirmedLeaseHolds`), `ArtifactsAreKept` (`OneArtifact`), the action properties
`StaleOwnersWriteNothing` (`OnlyCurrentAttemptWrites`) and `RetriesWaitTheirDelay` (`DelayKeptByOutbox`), and
`Refinement`.

**RunFinalizationProofs.** That a committed run agrees with its samples depends on what open
transactions will commit. `IInv == TypeOK /\ Stages /\ Writers /\ Visits /\ Verdicts /\ Claims /\
RunFollowsSamples`: only the holder of a sample's lock writes it (`Writers`), a transaction that ends a
sample still has to visit its run or holds the run's lock (`Visits`), and what it has written to a run is
the verdict over its own view, which the lock keeps true until the commit (`Verdicts`); a claim makes a
run running only with a sample that is active (`Claims`). From it follow `TypeCorrect`,
`RunsFollowSamples` (`Spec => []RunFollowsSamples`) and `RunsClosedByLastSample`
(`Spec => ClosedByLastSample`).

`WorkersNeverDeadlock` (`Spec => []DeadlocksSpareWorkers`) needs the order in which locks are taken: who waits
for a sample holds nothing, and a worker's transaction that waits for a run holds no other run (`LockOrder`).
Each member of a circle is waited for, so it holds a lock, so it waits for a run; then each is waited for
because of a run, and holds one while it waits for another. Only a transaction that visits several runs does.

**SubmissionProofs.** `IInv == TypeOK /\ StoreOK /\ \A c : ClientOK(c)`. `StoreOK` is about the tables,
`ClientOK` about what one client was told, is reading or has seen; a client that takes no step keeps it
because the tables only grow (`Grows`). From it follow `TypeCorrect`, `CreationIsIdempotent`
(`IdempotentCreation`), `PollsAreConsistent` (`PollIsConsistent`) and `PollsAdvance` (`PollsOnlyAdvance`).
`ReadersChangeNothing` (`HistorySpec => Spec`) carries them over to the specification of the run.

`PagesMissNothing` needs an invariant of its own, `HInv`: readings of the clock are unique (`Stamped`), and an
entry that was there when the reader began and has not been shown stands at or beyond the offset (`Paging`).
Entries are only added, and an addition moves others back, never forward; between the two queries of a page
the first holds every entry that the merged page would take from it. This gives `ReadsStayConsistent`
(`ReadsAreConsistent`), whether or not polls and faults go on meanwhile (`Calm`).

**SandboxRunnerProofs.** A verdict speaks of events several steps back, and the container is removed while
requests of killed commands are still with the daemon. `Path`, `Lifecycle`, `Protocol` and `Evidence` follow
the one good path: as long as nothing went wrong the daemon owes at most the start, so the container that is
inspected is the one that answered, and a supervisor that was killed for memory shows in its exit code. That
memory ran out for anything else need not show, unless Docker says so; `VerdictIsJustified` therefore compares a
report with what was inspected (`seen`). From them follow `TypeCorrect`, `VerdictsAreJustified` (`VerdictIsJustified`) and
`NothingIsLeftRunning` (`NothingLeftRunning`).

Its second part is about `RuntimeIdentity`. `complete` records what is cached long after `validate` compared
it, so `CompletedAsAccepted` needs `Confirmed`: the process of a running job still has the identity that the job
was accepted with, since only a restart empties the cache and takes its jobs along. With `Located`, `Known` and
`Accepted` this is inductive, and gives `IdentityTypeCorrect`, `ResultsAreCompletedAsAccepted`
(`CompletedAsAccepted`) and `IdentitiesAreStable` (`IdentityIsStable`).

Its third part is about `SandboxTests`, with three invariants:

- `TestsInv` for official cases, any cases, any candidate and whatever it forks. `HostOK` says where host, supervisor and
  candidate may be together; `LogOK` that the process that serves is the one started for the current case, that
  what was judged before it is what was counted, and that the answers at hand are those the log observed. The
  log is kept per pipe, since who wrote a line cannot be told from it. It gives `ReportsAreEarned`
  (`ReportIsEarned`): a case is counted exactly when every step was answered as expected through the pipe made
  for it; that no process started for one case runs between two says nothing of descendants.
- `OraclesInv` for the two solutions that keep time. The limiter forgets what leaves the window: the times it
  keeps of a key are, one for one, the allowed calls after the last start of the window (`Watch`), so their
  number is what `allow` must compare. The breaker keeps a count and a time: the count is the length of the
  streak of failures, and the time that of its last (`Remembers`). It gives `HistoryIsFollowed`
  (`AnswersFollowHistory`).
- `ResolverInv` for `resolve_dependencies`, any graph. The in-degree of a node counts its dependencies that are
  not placed, so that what is available is exactly what may come next; every placed node follows its
  dependencies (`EachFollows`), and no order of the whole graph departs from what is placed to a smaller node
  (`NoneDeparts`). When nothing is available and something is missing, the first missing node of any order would
  be available, so there is no order. It gives `OrdersAreLeast` (`ResolverIsLeast`).

**EvaluationProofs.** `CaptureIsExact` is inductive with the types; `CommandOK` says which process a command
may still have, `Collected` follows the loop over the tools, `Verdict` the result from there to the row and
the answer. From them follow `EvidenceStaysWhole` (`EvidenceIsWhole`) and `ProcessesEndWithTheirCommand`
(`NoProcessOutlivesItsCommand`). `Explained` ties a result to the findings and counts it was computed from; that
penalties are sums of natural numbers, that a dimension is cut off at zero and that rounding a share of the
tests loses nothing below 20,000 tests gives `ScoresAreExplained` (`ScoreIsExplained`), and, since every such score
passes the constraints of the table, `AnswersAreStored` (`AnsweredIsStored`): what was scored is refused only for
a U+0000 in the source or in a finding.

Its second part is about `AIAssessment`: `AIInv == AITyped /\ (\A k : CallOK(k)) /\ AIFlow`. `CallOK` says what a
provider call may be doing in each phase and what its outcome is worth; `CasesOK` bounds the counts of the tests
while they run, `TestsOK` relates them afterwards, and `Assessed` ties the assessment to the answers it was made
from. From it follow `AITypeCorrect`, `AssessmentsAreSound` (`ScoreIsSound`: a score only over all judges and
completed tests, a score between the parts it combines, each test counted once) and
`AssessmentsAreKept` (`AssessmentIsKept`: the table refuses an assessment only for a text a model wrote, one with
U+0000 or one that makes the reason too long, and reading returns what was stored).

**BenchmarkArchiveProofs.** The run is read before its rows. `RunOK` says that it is terminal only when all
its samples are, so what a reader has read as terminal stays so (`ReaderOK`), and with it all that was
published (`PublishedOK`). All archive commands then write the same export (`WritersOK`): a file is missing,
partial or right (`FilesOK`), and right once a command has passed it, unless another is at it or was killed
there (`Kept`). This gives `TypeCorrect` and `FinalReportsKept` (`FinalReportsAreKept`). What a row says at each
status (`RowOK`) gives `WinnersEarned` (`WinnersAreEarned`): the order of the board is total, so its first is the
best (`WinnersBest`), a missing sample never raises a mean (`NeverHelped`), and labels of consistency are
earned (`LabelsEarned`). Counting the samples of the plan by what became of them gives `CountsAgree`
(`CountsAddUp`). As in the specification, a run is archived by commands or read by readers, not both.

**Only model-checked**, and why:

- liveness, which needs fairness and `ENABLED`: `EveryJobEnds`, `RunEnds`, `EvaluationEnds`,
  `EvaluationAnswered`, `AssessmentEnds`; and the finding of `jobs_renewal`, which is false;
- `ReferencePasses`, a statement about the concrete official cases: TLC evaluates the solutions on them;
- `BoundedConcurrency` and `BatchLeavesNothing`: one step of the batch folds operators over the tasks and
  callbacks of an event loop, and what such a fold computes needs induction over data;
- `DecoderIsExact`: it compares a recursive function over the characters of the input with the fold of the
  frames, for the same reason.

## 7. Where docs and code disagree

`jobs_renewal` is the one the runs record: `docs/operations/workers.md:36` lists "renewal cannot succeed at
or after persisted expiry" as a safety invariant, and `renew_lease` of evaluation jobs compares owner and
status only (`app/jobs/repositories.py:305`). It is harmless for the queue: until somebody recovers the
job, the owner is unique, and the properties of `jobs` hold with such renewals. The benchmark repository
compares the expiry.

Further statements of docs, comments and tests are written beside the properties, and TLC refutes each when
it is added to the cfg of its module (the last one with two tasks). They are definitions of the modules and belong to no run:

| Definition | Statement | What the code does |
|---|---|---|
| `EvaluationJobs!OwnershipLossCancelsWork` | `docs/operations/workers.md:37`: "ownership loss cancels active work" | the heartbeat of an evaluation returns and the evaluation goes on; its result is refused |
| `SandboxRunner!NoContainerLeft` | `docs/sandbox/resource-limits.md:62`, `docs/sandbox/security-model.md:35`: mandatory cleanup | a `docker create` killed at its time limit may take effect after the removal; the container never starts |
| `SandboxRunner!InvalidAnswerIsResult` | `docs/sandbox/resource-limits.md:55`: a missing or invalid report "becomes a sanitized sandbox error" | an oversized line, or a pipe lost while writing, raises out of the runner |
| `SandboxRunner!MissingImageIsMissing` | `tests/unit/test_docker_runner.py:490`: a daemon failure is not reported as a missing image | a failing image inspection counts as a missing image when the daemon answers the next probe |
| `RuntimeIdentity!OnlyDriftIsTerminal` | `docs/architecture.md:115`: transient failures are retried, integrity failures are terminal | one failing inspection is kept for the life of a process and makes its jobs integrity failures |
| `RuntimeIdentity!RanAsAccepted` | `docs/architecture.md:46`: "Drift becomes an integrity failure, not a silent rerun" | kept identities are compared; a tag that moved since is not seen |
| `Evaluation!ZeroTestsAreExplicit` | `docs/evaluation/scoring.md:36`: with zero tests "the result includes an explicit finding that correctness could not be measured" | results that end with a candidate-caused failure name that failure instead |
| `Evaluation!InvalidReportsFailClosed` | `docs/evaluation/correctness.md:46`: invalid structured reports fail closed | the local runner turns one into a result with zero correctness |
| `BenchmarkReport!StabilityIsAboutRepeats` | `docs/benchmarks/statistics.md:29`: variation between tasks is not mislabelled as repeat stability | with several tasks the label uses the deviation over all samples |

Five more observations, which no statement of the repository contradicts clearly enough to be listed:

- `docs/operations/workers.md:44` describes the retry schedule. A sample row has no due time, only its
  outbox row has, so an earlier message that is delivered again starts the retry at once.
  `DelayKeptByOutbox` states what does hold: nothing else starts it early.
- A candidate that exits while the supervisor still has a line for it in its buffer makes `stdin.close()`
  raise (`sandbox/entrypoint.py:93`), which ends the supervisor, and the host reports a protocol error for
  the whole evaluation instead of a failed case. `ReportIsEarned` holds either way.
- `docs/benchmarks/reproducibility.md:75` says that archive creation refuses a nonempty target. It looks once,
  before it writes, so two commands that both look first write over each other, and one that is killed then
  leaves the archive of the other damaged although it had reported success. `ArchiveIsWhole` says what
  remains true: such a directory does not verify.

- `EvaluationRequest` admits code with U+0000 (`app/evaluator/models.py:67`). A synchronous evaluation runs and
  scores it and then cannot store it: PostgreSQL refuses U+0000 in `source_text`. `AnsweredIsStored` says that such
  a result is answered as a failure and that no part of it is kept.
- The text of a `ValueError` becomes the reason of an assessment (`app/ai/adversarial.py:77`), whose column holds
  128 characters, and judges may write U+0000, which JSONB refuses: the evaluation is then lost with its
  assessment. `AssessmentIsKept` says that nothing else loses one.

## 8. Assumptions and what is not modelled

- All processes share one clock. With skewed clocks a retry's message may be read before the retry is
  due, and be acknowledged without effect.
- A transaction of the job repository is one step (its row lock is taken first); those that lock several
  rows are `RunFinalization`. Commits are durable.
- In `EvaluationJobs` Redis keeps what it accepted. In `BenchmarkSamples` it may restart without any of its
  entries: since no step publishes a row again once it is marked, a sample whose current notification is
  among them waits for ever, and the properties say that nothing else strands it. The consumer group is
  taken to survive.
- A message may be reclaimed at any time after delivery: idle time is counted from the delivery, so a
  long evaluation is enough. The stream may be read in any order.
- Means are exact fractions and a rounding tie falls on either side, where the code has binary floats.
- What the candidate, the model provider, Docker and the tools answer is arbitrary within the form the
  code distinguishes. Analyzers start no process that outlives their group; candidates may (`SandboxTests`,
  `SandboxRunner`), as long as the container lives.
- Of the texts that are stored, the models know only whether they hold U+0000 and, for the reason, whether it
  is too long.
- A benchmark worker that dies is started again (section 5).
- asyncio is modelled from its documented behaviour, and from how the code uses it.
- Left out: prompts, payloads and parsing of provider envelopes; comparisons and other read-only queries
  than the history; costs, latencies, percentiles and confidence intervals; the layout of documents.
- Not modelled, and why: configuration and hashing are checks of single fields without state; migrations are
  one-off DDL; the rest of the command line and the health endpoints call what is modelled. The references of the
  remaining tasks (caches, retry with backoff, interval reservation, paths, layered configuration, event parsing) and their cases have the form of those that are modelled, with
  less that can interleave.
