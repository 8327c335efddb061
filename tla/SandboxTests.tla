---------------------------- MODULE SandboxTests ----------------------------
(***************************************************************************)
(* What runs inside one sandbox container (sandbox/entrypoint.py), for the *)
(* two kinds of tests.                                                     *)
(*                                                                         *)
(* Official: TrustedOfficialHarness on the host sends one case after       *)
(* another; the supervisor starts a candidate process for each             *)
(* (sandbox/candidate_worker.py), passes it the steps one by one and       *)
(* returns the outcomes, which the host compares with what it expects.     *)
(* The candidate is the reference solution of the task, a module that does *)
(* not load, or any program at all, which may also fork: the supervisor    *)
(* waits for its own child only, so descendants may live on.               *)
(*                                                                         *)
(* Generated: the tests of a model call the reference solution, in any     *)
(* order and with any arguments, to find out whether the tests are right.  *)
(*                                                                         *)
(* A definition with a suffix is a mistaken form of the one that follows.  *)
(***************************************************************************)
EXTENDS BatchProcessor, TaskOracles

CONSTANTS
  OFFICIAL_CASES, \* the official cases of the tasks
  MaxSteps,    \* _MAX_STEPS
  Arbitrary,   \* bound: the tasks whose candidate may be any program
  Limits, Timeouts, \* bound: limits, windows and thresholds, and recovery times of generated tests
  MaxStartFailures,   \* bound: candidate processes that cannot be started
  MaxLines,    \* bound: lines in the pipe of a candidate
  MaxCalls,    \* bound: calls of a generated test
  MaxItems,    \* bound: items of a batch
  MaxTime,     \* bound: timestamps
  MaxFed,      \* bound: characters fed to a decoder
  Nodes,       \* names in a dependency graph
  Alphabet     \* characters fed to a decoder

VARIABLES
  test,        \* which tests of which task, and what the candidate is
  host, verdict, case, passed,  \* TrustedOfficialHarness.evaluate
  sup, outcomes, response,      \* the supervisor: where it is, what it has and what it answered
  cand, serial, inbox, lines,   \* the candidate process, its number, its pipes
  descendants, \* whether processes that candidates have forked are alive
  objects,     \* InvocationContext.objects
  b,           \* a running process_batch
  o,           \* the object that a generated test works with
  log,         \* what has been observed: answers of cases, or calls of a generated test
  start_failures

hostVars == <<host, verdict, case, passed>>
supVars == <<sup, outcomes, response>>
candVars == <<cand, serial, inbox, lines, objects, descendants>>
officialVars == <<hostVars, supVars, candVars, start_failures>>
testsVars == <<test, officialVars, b, o, log>>

-----------------------------------------------------------------------------
(* Official cases: every task has some, and every case is a list of steps *)

ASSUME OfficialCasesAssumption ==
  \A t \in DOMAIN OFFICIAL_CASES :
    LET cases == OFFICIAL_CASES[t]
    IN /\ Len(cases) \in Nat \ {0} /\ DOMAIN cases = 1..Len(cases)
       /\ \A c \in DOMAIN cases : Len(cases[c]) \in Nat \ {0} /\ DOMAIN cases[c] = 1..Len(cases[c])

\* Constructors refuse all others.
ASSUME LimitsAssumption == Limits \subseteq Nat \ {0} /\ Timeouts \subseteq Nat \ {0}

\* Names are numbered in their order.
ASSUME NodesAssumption == Nodes \subseteq Nat /\ IsFiniteSet(Nodes)

TaskCases == OFFICIAL_CASES[test.task]
Steps == TaskCases[case]

\* An outcome as the candidate process sends it
Outcome(ok, result, exception, telemetry) ==
  [ok |-> ok, result |-> result, exception |-> exception, telemetry |-> telemetry]

matches(expected, raw) ==
  /\ IF expected.exception # "none"
     THEN raw.ok = FALSE /\ raw.exception = expected.exception
     ELSE raw.ok = TRUE /\ raw.result = expected.result
  /\ DOMAIN expected.telemetry \subseteq DOMAIN raw.telemetry
  /\ \A key \in DOMAIN expected.telemetry : raw.telemetry[key] = expected.telemetry[key]

-----------------------------------------------------------------------------
(* TrustedOfficialHarness.evaluate, on the host *)

Answer(type, o_s) == [type |-> type, outcomes |-> o_s]
NoAnswer == Answer("none", <<>>)

EndEvaluation(how) == host' = "done" /\ verdict' = how

send_case ==
  /\ host = "send" /\ sup = "idle"
  /\ host' = "read" /\ sup' = "start"
  /\ UNCHANGED <<test, verdict, case, passed, outcomes, response, candVars, b, o, log, start_failures>>

\* A mistaken form: any instead of all
AllMatch_Any(answers) == \E n \in DOMAIN Steps : matches(Steps[n], answers[n])

AllMatch(answers) == \A n \in DOMAIN Steps : matches(Steps[n], answers[n])

\* The response to a case.  A supervisor that died closes the pipe.
evaluate ==
  /\ host = "read"
  /\ response # NoAnswer \/ sup = "crashed"
  /\ response' = NoAnswer
  /\ CASE response.type = "outcomes" /\ Len(response.outcomes) = Len(Steps) ->
            /\ passed' = passed + IF AllMatch(response.outcomes) THEN 1 ELSE 0
            /\ IF case = Len(TaskCases) THEN EndEvaluation("report") /\ UNCHANGED case
               ELSE host' = "send" /\ case' = case + 1 /\ UNCHANGED verdict
       [] response.type = "startup_error" -> EndEvaluation("startup_error") /\ UNCHANGED <<case, passed>>
       [] OTHER -> EndEvaluation("protocol_error") /\ UNCHANGED <<case, passed>>
  /\ UNCHANGED <<test, sup, outcomes, candVars, b, o, log, start_failures>>

\* asyncio.timeout of the runner, which removes the container with all its processes
HostTimeout ==
  /\ host \in {"send", "read"}
  /\ EndEvaluation("timed_out")
  /\ sup' = "killed" /\ cand' = "none" /\ descendants' = FALSE /\ b' = Idle
  /\ UNCHANGED <<test, case, passed, outcomes, response, serial, inbox, lines, objects, o, log, start_failures>>

-----------------------------------------------------------------------------
(* The supervisor: main and _run_case.  The steps of official cases are far *)
(* below _MAX_LINE_BYTES.                                                   *)

Respond(type, answers) == response' = Answer(type, answers) /\ sup' = "idle"

\* A mistaken form: the process of the case before is used again.
_run_case_Reuses ==
  /\ sup = "start"
  /\ sup' = "write" /\ outcomes' = <<>> /\ cand' = "alive" /\ inbox' = "none" /\ lines' = <<>>
  /\ serial' = IF serial = 0 THEN 1 ELSE serial
  /\ UNCHANGED <<objects, descendants, response, start_failures>>
  /\ UNCHANGED <<test, hostVars, b, o, log>>

_run_case ==
  /\ sup = "start"
  /\ \/ /\ sup' = "write" /\ outcomes' = <<>>
        /\ cand' = "alive" /\ serial' = serial + 1 /\ inbox' = "none" /\ lines' = <<>>
        /\ objects' = EmptyDict
        /\ UNCHANGED <<descendants, response, start_failures>>
     \/ /\ start_failures < MaxStartFailures /\ start_failures' = start_failures + 1
        /\ Respond("protocol_error", <<>>)
        /\ UNCHANGED <<outcomes, candVars>>
  /\ UNCHANGED <<test, hostVars, b, o, log>>

\* Descendants of a process that has ended may hold its pipes open.
Held == cand = "alive" \/ descendants

\* Writing to a pipe that nobody holds raises BrokenPipeError, which nothing catches.
write_step ==
  /\ sup = "write" /\ Len(outcomes) < Len(Steps)
  /\ \/ cand = "exited" /\ sup' = "crashed" /\ UNCHANGED inbox
     \/ Held /\ inbox' = "step" /\ sup' = "read"
  /\ UNCHANGED <<test, hostVars, outcomes, response, cand, serial, lines, objects, descendants, b, o, log, start_failures>>

\* From which pipes a case was answered, and whether all of it was right
Nobody == [pipes |-> {}, right |-> TRUE]

\* process.kill, process.wait: of the child alone
Abort == /\ cand' = "none" /\ inbox' = "none" /\ b' = Idle
         /\ Respond("protocol_error", <<>>)

Read(l) ==
  CASE l.type = "outcome" ->
         /\ outcomes' = Append(outcomes, l.outcome)
         /\ log' = With(log, case, [pipes |-> Lookup(log, case, Nobody).pipes \cup {serial},
                                    right |-> /\ Lookup(log, case, Nobody).right
                                              /\ matches(Steps[Len(outcomes) + 1], l.outcome)])
         /\ sup' = IF Len(outcomes) + 1 = Len(Steps) THEN "shutdown" ELSE "write"
         /\ UNCHANGED <<response, cand, inbox, b>>
    [] l.type = "startup_error" -> sup' = "shutdown_startup" /\ UNCHANGED <<outcomes, response, cand, inbox, b, log>>
    \* its value may be null, which the supervisor takes for no startup error
    [] l.type = "startup_null" -> sup' = "shutdown" /\ UNCHANGED <<outcomes, response, cand, inbox, b, log>>
    [] OTHER -> Abort /\ UNCHANGED <<outcomes, log>>

\* readline: at the end of the file, when nobody holds the pipe any more, the line is
\* empty, which is no JSON either.
read_step ==
  /\ sup = "read"
  /\ \/ lines # <<>> /\ Read(Head(lines)) /\ lines' = Tail(lines)
     \/ lines = <<>> /\ cand = "exited" /\ Read([type |-> "invalid"]) /\ UNCHANGED lines
  /\ UNCHANGED <<test, hostVars, serial, objects, descendants, o, start_failures>>

\* BrokenPipeError of the shutdown message is ignored, but stdin.close flushes the
\* message again and raises the same error.
send_shutdown ==
  /\ sup \in {"shutdown", "shutdown_startup"}
  /\ \/ cand = "exited" /\ sup' = "crashed" /\ UNCHANGED inbox
     \/ Held /\ inbox' = "shutdown" /\ sup' = IF sup = "shutdown" THEN "wait" ELSE "wait_startup"
  /\ UNCHANGED <<test, hostVars, outcomes, response, cand, serial, lines, objects, descendants, b, o, log, start_failures>>

\* process.wait: the child has ended; its descendants are not waited for.
wait_candidate ==
  /\ sup \in {"wait", "wait_startup"} /\ cand = "exited"
  /\ cand' = "none"
  /\ IF sup = "wait" THEN Respond("outcomes", outcomes) ELSE Respond("startup_error", <<>>)
  /\ UNCHANGED <<test, hostVars, outcomes, serial, inbox, lines, objects, descendants, b, o, log, start_failures>>

Supervisor == _run_case \/ write_step \/ read_step \/ send_shutdown \/ wait_candidate

-----------------------------------------------------------------------------
(* The candidate process: main, _step and, for the reference, the solution *)

Send(l) == lines' = Append(lines, l)
OutcomeLine(x) == [type |-> "outcome", outcome |-> x]

\* What the callback that a step brings records of its calls
Recorded(command, object) ==
  IF command.op = "call_method" /\ command.method = "call"
  THEN LET invoked == Invoked(object, command.args[2])
           kind == command.args[1].kind
       IN IF kind = "observe_attribute" /\ invoked
          THEN [calls |-> 1, observed |-> Entered(object, command.args[2]).state]
          ELSE [calls |-> IF invoked THEN 1 ELSE 0]
  ELSE EmptyDict

\* The operation of the reference solution that a step stands for
Invoke(command) ==
  CASE command.op = "construct" -> IF command.class = "limiter" THEN NewLimiter(command.args[1], command.args[2])
                                   ELSE NewBreaker(command.args[1], command.args[2])
    [] command.op = "get_attr" -> Returns(objects[command.object_id], objects[command.object_id].state)
    [] command.op = "call_method" ->
         CASE command.method = "allow" -> allow(objects[command.object_id], command.args[1], command.args[2])
           [] command.method = "call" -> call(objects[command.object_id], command.args[1], command.args[2])
           [] command.method = "reset" -> reset(objects[command.object_id])

TooManySteps == Len(outcomes) + 1 > MaxSteps

StepCommand == Steps[Len(outcomes) + 1].command

\* A step of the reference that does not await anything
_step ==
  /\ test.candidate = "reference" /\ cand = "alive" /\ inbox = "step"
  /\ ~TooManySteps /\ StepCommand.op # "call_function"
  /\ LET result == Invoke(StepCommand)
         object == IF StepCommand.op = "construct" THEN NoObject ELSE objects[StepCommand.object_id]
     IN /\ objects' = IF result.ok \/ StepCommand.op # "construct"
                      THEN With(objects, StepCommand.object_id, result.object) ELSE objects
        /\ Send(OutcomeLine(IF result.ok THEN Outcome(TRUE, result.value, "none", Recorded(StepCommand, object))
                            ELSE Outcome(FALSE, "None", result.value, Recorded(StepCommand, object))))
  /\ inbox' = "none"
  /\ UNCHANGED <<test, hostVars, supVars, cand, serial, descendants, b, o, log, start_failures>>

\* A step that calls process_batch runs the event loop until the call ends.
start_batch ==
  /\ test.candidate = "reference" /\ cand = "alive" /\ inbox = "step"
  /\ ~TooManySteps /\ StepCommand.op = "call_function"
  /\ inbox' = "running"
  /\ b' = process_batch(StepCommand.plan)
  /\ UNCHANGED <<test, hostVars, supVars, cand, serial, lines, objects, descendants, o, log, start_failures>>

ExceptionOf(error) == CASE error = "failed" -> "RuntimeError"
                        [] error = "cancelled" -> "CancelledError"
                        [] OTHER -> error

end_batch ==
  /\ cand = "alive" /\ inbox = "running" /\ ~Running(b)
  /\ inbox' = "none"
  /\ Send(OutcomeLine(IF b.phase = "returned" THEN Outcome(TRUE, b.result, "none", b.telemetry)
                      ELSE Outcome(FALSE, <<>>, ExceptionOf(b.error), b.telemetry)))
  /\ b' = Idle
  /\ UNCHANGED <<test, hostVars, supVars, cand, serial, objects, descendants, o, log, start_failures>>

\* A module that raised when it was loaded, or more steps than _MAX_STEPS
refuse_step ==
  /\ cand = "alive" /\ inbox = "step"
  /\ TooManySteps \/ test.candidate = "unloadable"
  /\ Send(IF TooManySteps THEN OutcomeLine(Outcome(FALSE, "None", "too_many_steps", EmptyDict))
          ELSE [type |-> "startup_error"])
  /\ inbox' = "none"
  /\ UNCHANGED <<test, hostVars, supVars, cand, serial, objects, descendants, b, o, log, start_failures>>

\* _run_case has a pipe to a candidate.
PipeOpen == {"write", "read", "shutdown", "shutdown_startup", "wait", "wait_startup"}

\* Any program may write lines to the descriptor of the protocol, right or wrong and
\* before it is asked, may fork, and may end at any time.  Whatever runs as the user of
\* the candidates may write: the process of the case or a descendant of a candidate.
answer_anything ==
  /\ test.candidate = "any" /\ sup \in PipeOpen /\ Held /\ Len(lines) < MaxLines
  /\ LET next == Len(outcomes) + Len(lines) + 1
         expected == Steps[next]
     IN \/ next \in DOMAIN Steps /\ Send(OutcomeLine(Outcome(expected.exception = "none", expected.result,
                                                             expected.exception, expected.telemetry)))
        \/ Send(OutcomeLine(Outcome(FALSE, "None", "Exception", EmptyDict)))
        \/ \E type \in {"invalid", "oversized", "startup_error", "startup_null"} : Send([type |-> type])
  /\ UNCHANGED <<test, hostVars, supVars, cand, serial, inbox, objects, descendants, b, o, log, start_failures>>

exit ==
  /\ cand = "alive" /\ (inbox = "shutdown" \/ test.candidate = "any")
  /\ cand' = "exited"
  /\ UNCHANGED <<test, hostVars, supVars, serial, inbox, lines, objects, descendants, b, o, log, start_failures>>

fork ==
  /\ test.candidate = "any" /\ cand = "alive"
  /\ descendants' = TRUE
  /\ UNCHANGED <<test, hostVars, supVars, cand, serial, inbox, lines, objects, b, o, log, start_failures>>

descendants_end ==
  /\ descendants /\ descendants' = FALSE
  /\ UNCHANGED <<test, hostVars, supVars, cand, serial, inbox, lines, objects, b, o, log, start_failures>>

Candidate ==
  _step \/ start_batch \/ end_batch \/ refuse_step \/ answer_anything \/ exit \/ fork \/ descendants_end

-----------------------------------------------------------------------------
(* The loop of asyncio, in both kinds of tests *)

run_callback ==
  /\ Running(b) /\ b.ready # <<>>
  /\ b' = RunCallback(b)
  /\ UNCHANGED <<test, officialVars, o, log>>

-----------------------------------------------------------------------------
(* Generated tests: any calls of the reference solution *)

Generating(task) == test.kind = "generated" /\ test.task = task

generatedOnly == <<test, officialVars>>

\* What the worker of item i awaits has happened: it ends, or fails.
worker_ends(i, how) ==
  /\ Generating("async-batch-processor")
  /\ Running(b) /\ i \in Tasks(b) /\ b.coro[i] = "outside" /\ ~Scheduled(b, <<"task", i>>)
  /\ b' = Wake([b EXCEPT !.outside[i] = how], i)
  /\ UNCHANGED <<generatedOnly, o, log>>

\* The test cancels the task that runs process_batch, once or again while it cleans up.
cancel_batch ==
  /\ Generating("async-batch-processor")
  /\ Running(b)
  /\ b' = CancelBatch(b)
  /\ UNCHANGED <<generatedOnly, o, log>>

Limited == {"a", "b"}

test_allow(key, now) ==
  /\ Generating("rate-limiter") /\ Len(log) < MaxCalls
  /\ LET r == allow(o, key, now)
     IN o' = r.object /\ log' = Append(log, [key |-> key, now |-> now, answer |-> r.value])
  /\ UNCHANGED <<generatedOnly, b>>

test_call(kind, now) ==
  /\ Generating("circuit-breaker") /\ Len(log) < MaxCalls
  /\ LET r == call(o, [kind |-> kind, value |-> "ok"], now)
     IN o' = r.object /\ log' = Append(log, [kind |-> kind, now |-> now, answer |-> r.value])
  /\ UNCHANGED <<generatedOnly, b>>

test_reset ==
  /\ Generating("circuit-breaker") /\ Len(log) < MaxCalls
  /\ o' = reset(o).object
  /\ log' = Append(log, [kind |-> "reset", now |-> 0, answer |-> "None"])
  /\ UNCHANGED <<generatedOnly, b>>

\* log: what was fed and what was decoded since the decoder was last empty by error
test_feed(chunk) ==
  /\ Generating("frame-decoder") /\ o.phase # "loop" /\ log.total + Len(chunk) <= MaxFed
  /\ o' = feed(o, chunk)
  /\ log' = [fed |-> IF o.phase = "raised" THEN chunk ELSE log.fed \o chunk,
             decoded |-> IF o.phase = "raised" THEN <<>> ELSE log.decoded,
             ended |-> FALSE, total |-> log.total + Len(chunk)]
  /\ UNCHANGED <<generatedOnly, b>>

decode ==
  /\ Generating("frame-decoder") /\ o.phase = "loop"
  /\ o' = Decode(o)
  /\ log' = [log EXCEPT !.decoded = IF o'.phase = "returned" THEN @ \o o'.frames ELSE @]
  /\ UNCHANGED <<generatedOnly, b>>

test_finish ==
  /\ Generating("frame-decoder") /\ o.phase = "returned" /\ ~log.ended
  /\ o' = finish(o)
  /\ log' = [log EXCEPT !.ended = TRUE]
  /\ UNCHANGED <<generatedOnly, b>>

resolve ==
  /\ Generating("dependency-resolver") /\ o.phase = "loop"
  /\ o' = Resolve(o)
  /\ UNCHANGED <<generatedOnly, b, log>>

Generated ==
  \/ \E i \in 1..MaxItems, how \in {"ok", "failed"} : worker_ends(i, how)
  \/ cancel_batch
  \/ \E key \in Limited, now \in 0..MaxTime : test_allow(key, now)
  \/ \E kind \in {"return", "raise", "interrupt"}, now \in 0..MaxTime : test_call(kind, now)
  \/ test_reset
  \/ \E chunk \in SeqOf(Alphabet, 2) : test_feed(chunk)
  \/ decode \/ test_finish \/ resolve

-----------------------------------------------------------------------------

OfficialInit ==
  /\ \E t \in DOMAIN OFFICIAL_CASES, c \in {"reference", "unloadable", "any"} :
       /\ c = "any" => t \in Arbitrary
       /\ test = [kind |-> "official", task |-> t, candidate |-> c]
  /\ host = "send" /\ sup = "idle"
  /\ b = Idle /\ o = NoObject /\ log = EmptyDict

Graphs == UNION {[keys -> SUBSET Nodes] : keys \in SUBSET Nodes}

GeneratedInit ==
  /\ host = "none" /\ sup = "none"
  /\ \E t \in {"async-batch-processor", "rate-limiter", "circuit-breaker", "frame-decoder", "dependency-resolver"} :
       /\ test = [kind |-> "generated", task |-> t, candidate |-> "reference"]
       /\ IF t = "async-batch-processor"
          THEN \E n \in 0..MaxItems, c \in 1..2 :
                 b = process_batch(Plan([i \in 1..n |-> i], Integer(c), "any", 0, "double", FALSE))
          ELSE b = Idle
       /\ CASE t = "rate-limiter" -> \E limit, window \in Limits : o = NewLimiter(Integer(limit), Integer(window)).object
            [] t = "circuit-breaker" -> \E threshold \in Limits, timeout \in Timeouts :
                                         o = NewBreaker(Integer(threshold), Integer(timeout)).object
            [] t = "frame-decoder" -> o = NewDecoder(10)
            [] t = "dependency-resolver" -> \E graph \in Graphs : o = resolve_dependencies(graph)
            [] OTHER -> o = NoObject
       /\ log = IF t = "frame-decoder" THEN [fed |-> <<>>, decoded |-> <<>>, ended |-> FALSE, total |-> 0] ELSE <<>>

TestsInit ==
  /\ OfficialInit \/ GeneratedInit
  /\ verdict = "none" /\ case = 1 /\ passed = 0
  /\ outcomes = <<>> /\ response = NoAnswer
  /\ cand = "none" /\ serial = 0 /\ inbox = "none" /\ lines = <<>> /\ objects = EmptyDict
  /\ descendants = FALSE /\ start_failures = 0

TestsNext == send_case \/ evaluate \/ HostTimeout \/ Supervisor \/ Candidate \/ run_callback \/ Generated

TestsSpec == TestsInit /\ [][TestsNext]_testsVars

-----------------------------------------------------------------------------
(* Properties *)

\* trusted_harness.OFFICIAL_CASES and the solutions under app/tasks: the reference
\* solution, run step by step in processes of its own, passes every official case of
\* its task; nothing but the time limit keeps it from its report.
ReferencePasses ==
  test.kind = "official" /\ test.candidate = "reference" =>
    /\ verdict = "report" => passed = Len(TaskCases)
    /\ verdict = "protocol_error" => start_failures > 0

\* _run_case, evaluate: a counted case was answered step by step as expected, each step
\* once and through the pipe that was made for the case and for no other, whatever the
\* candidate and its descendants, of this case or an earlier one, write to it and
\* whenever they end; between cases no process that was started for one runs.
ReportIsEarned ==
  test.kind = "official" =>
    /\ verdict = "report" => passed = Cardinality({c \in DOMAIN TaskCases : log[c].right})
    /\ \A c \in DOMAIN log : log[c].pipes = {c}
    /\ host # "read" => cand # "alive"

Ended(i) == b.coro[i] \in Done
Working == {i \in Tasks(b) : b.coro[i] \notin Done \cup {"new", "semaphore"}}
Waiting == {i \in Tasks(b) : b.coro[i] \in {"new", "semaphore"}}

\* process_batch: at most concurrency workers are active, counted by the worker itself
\* and by the semaphore; the loop is idle only while workers wait for something
\* outside, and then as many are active as may be.
BoundedConcurrency ==
  b.phase # "idle" /\ b.error # "ValueError" =>
    /\ b.telemetry.active = Cardinality(Working)
    /\ b.telemetry.maximum_active <= b.plan.concurrency.value
    /\ b.value + Cardinality(b.granted) + Cardinality(Working) = b.plan.concurrency.value
    /\ Running(b) /\ b.ready = <<>> =>
         /\ \E i \in Working : b.coro[i] = "outside"
         /\ Waiting # {} => Cardinality(Working) = b.plan.concurrency.value

\* process_batch: when it returns or raises, no worker is left; every item was handed to
\* the worker once and the results are in the order of the items; what is raised is what
\* a worker raised, or a cancellation if the caller asked for one, which is never lost.
BatchLeavesNothing ==
  b.phase \in {"returned", "raised"} /\ b.error # "ValueError" =>
    /\ \A i \in Tasks(b) : Ended(i)
    /\ b.telemetry.active = 0
    /\ b.phase = "returned" => /\ ~b.asked
                               /\ b.telemetry.calls = Len(b.plan.items)
                               /\ \A i \in Tasks(b) : b.coro[i] = "ok"
                               /\ b.result = [i \in Tasks(b) |-> transform(b, b.plan.items[i])]
    /\ b.error = "failed" => b.coro[b.failure] = "failed"
    /\ b.error = "cancelled" => b.asked

Earlier(n) == {m \in 1..(n - 1) : log[m].key = log[n].key}

\* SlidingWindowRateLimiter.allow: whatever is pruned on the way, a call is rejected
\* exactly when limit calls were allowed in the window that ends with it, and is an
\* error exactly when its key has been asked at a later time.
LimiterIsExact ==
  Generating("rate-limiter") =>
    \A n \in DOMAIN log :
      LET allowed == {m \in Earlier(n) : log[m].answer = "True" /\ log[m].now > log[n].now - o.window}
          later == {m \in Earlier(n) : log[m].answer # "ValueError" /\ log[m].now > log[n].now}
      IN /\ log[n].answer = "ValueError" <=> later # {}
         /\ log[n].answer = "False" => Cardinality(allowed) = o.limit
         /\ log[n].answer = "True" => Cardinality(allowed) < o.limit

\* The operations that were run before call n and since the last reset, and raised or
\* returned; what interrupts an operation is neither.
Runs(n) ==
  {m \in 1..(n - 1) : /\ log[m].answer \in {"ok", "RuntimeError"}
                      /\ \A k \in m..(n - 1) : log[k].kind # "reset"}
Streak(n) == {m \in Runs(n) : \A k \in Runs(n) : k >= m => log[k].answer = "RuntimeError"}

\* CircuitBreaker.call: over probes, interrupts, resets and refused calls, an operation
\* is refused exactly while the last threshold operations or more have failed and the
\* recovery time since the last failure is not over.
BreakerFollowsHistory ==
  Generating("circuit-breaker") =>
    \A n \in DOMAIN log : log[n].kind # "reset" /\ log[n].answer # "ValueError" =>
      (log[n].answer = "CircuitOpenError" <=>
         /\ Cardinality(Streak(n)) >= o.threshold
         /\ log[n].now < log[Max(Streak(n))].now + o.recovery_timeout)

\* The two tasks whose answers depend on a clock: an answer is what the whole history
\* of calls demands, although only a part of it is kept.
AnswersFollowHistory == LimiterIsExact /\ BreakerFollowsHistory

Encoded(frame) ==
  LET n == Len(frame)
      name == [d \in 0..3 |-> CHOOSE c \in DOMAIN Digits : Digits[c] = d]
  IN (IF n < 10 THEN <<name[n]>> ELSE <<name[n \div 10], name[n % 10]>>) \o <<":">> \o frame

\* What a stream of frames may begin with, read from its first character
WellFormed(s) ==
  LET N == Len(s)
      Prefix(i, j) == SubSeq(s, i, j)
      LengthAt(i, j) == valid_prefix(Prefix(i, j)) /\ Number(Prefix(i, j)) <= o.maximum
      from[k \in 0..N] ==
        LET i == N - k + 1 IN
        \/ k = 0
        \/ LengthAt(i, N)
        \/ \E j \in i..(N - 1) :
             /\ LengthAt(i, j) /\ s[j + 1] = ":"
             /\ LET rest == N - (j + 1) - Number(Prefix(i, j)) IN rest <= 0 \/ from[rest]
  IN from[N]

\* LengthPrefixedDecoder: however the input is cut into chunks, what was decoded and
\* what is buffered spell exactly what was fed, a complete frame is never held back, and
\* feed and finish raise exactly for input that no frames begin with, or that ends
\* inside a frame.
DecoderIsExact ==
  Generating("frame-decoder") =>
    LET held == (IF o.expected = Nothing THEN <<>> ELSE SubSeq(Encoded([n \in 1..o.expected |-> "x"]), 1, IF o.expected < 10 THEN 2 ELSE 3))
                \o o.buffer
    IN /\ o.phase = "returned" =>
            /\ log.fed = FoldLeft(LAMBDA all, f : all \o Encoded(f), <<>>, log.decoded) \o held
            /\ o.expected # Nothing => Len(o.buffer) < o.expected
            /\ log.ended => held = <<>>
       /\ o.phase = "raised" => log.ended \/ ~WellFormed(log.fed)
       /\ o.phase = "returned" => WellFormed(log.fed)

Orders(graph) ==
  {f \in [1..Cardinality(AllNodes(graph)) -> AllNodes(graph)] :
     /\ IsInjective(f)
     /\ \A n \in DOMAIN graph : \A d \in graph[n] :
          \E i, j \in DOMAIN f : f[i] = d /\ f[j] = n /\ i < j}

Precedes(f, g) == \E i \in DOMAIN f : f[i] < g[i] /\ \A j \in 1..(i - 1) : f[j] = g[j]

\* resolve_dependencies: the answer is the first, in the order of the names, of all
\* orders in which every node follows its dependencies, and there is a cycle error
\* exactly when there is no such order.
ResolverIsLeast ==
  Generating("dependency-resolver") =>
    /\ o.phase = "returned" => /\ o.resolved \in Orders(o.graph)
                               /\ ~\E f \in Orders(o.graph) : Precedes(f, o.resolved)
    /\ o.phase = "DependencyCycleError" => Orders(o.graph) = {}

=============================================================================
