--------------------------- MODULE SandboxRunner ---------------------------
(***************************************************************************)
(* One evaluation of DockerPythonRunner (app/runners/docker_runner.py):    *)
(* the capability probes, the container it creates, the line protocol with *)
(* the supervisor inside (sandbox/entrypoint.py), timeout, cancellation,   *)
(* classification of the end and cleanup.  Docker commands are processes   *)
(* of their own (docker_cli.py): one that is killed at its time limit may  *)
(* still take effect in the daemon afterwards.                             *)
(*                                                                         *)
(* method is "official" for evaluate and "generated" for                   *)
(* evaluate_generated_tests, which runs pytest instead of the protocol.    *)
(*                                                                         *)
(* A definition with a suffix is a mistaken form of the one that follows.  *)
(***************************************************************************)
EXTENDS Integers

CONSTANTS
  Cases,               \* number of official cases of the task
  CapabilityAttempts,  \* _CAPABILITY_ATTEMPTS
  OomEventAttempts,    \* _OOM_EVENT_ATTEMPTS
  MaxFaults            \* bound on failing commands, lost connections and cancellations

ASSUME CasesAssumption == Cases \in Nat \ {0}
ASSUME AttemptsAssumption == CapabilityAttempts \in Nat \ {0} /\ OomEventAttempts \in Nat \ {0}
ASSUME FaultsAssumption == MaxFaults \in Nat

VARIABLES
  method, image,       \* what is asked for, and whether the sandbox image exists
  pc, stage, attempt,  \* the runner, its probe, and the number of the probe or event query
  reason,              \* DockerCapabilityFailure
  created,             \* container_created
  attached,            \* the attached docker process: "no", "open" or "closed"
  answered, report,    \* cases that were answered, and what is known of the tests
  cause, seen, result, \* why the evaluation stopped, _inspect_state, RunnerResult
  cleanup,             \* how docker rm ended
  container, exit_code, oom, oom_flag, oom_event,  \* the container, whom the kernel killed for
                       \* memory in it, and what Docker tells of that
  late,                \* requests the daemon has received and not executed
  asked, answer,       \* the line in each direction of the pipe
  faults

runnerVars == <<method, image, pc, stage, attempt, reason, created, answered, report, cause,
                seen, result, cleanup>>
dockerVars == <<container, exit_code, oom, oom_flag, oom_event, late>>
pipeVars == <<attached, asked, answer>>
vars == <<runnerVars, dockerVars, pipeVars, faults>>

NoState == [known |-> FALSE]

Init ==
  /\ method \in {"official", "generated"} /\ image \in BOOLEAN
  /\ pc = "preflight" /\ stage = "daemon" /\ attempt = 1 /\ reason = "none"
  /\ created = FALSE /\ attached = "no" /\ answered = 0 /\ report = "none"
  /\ cause = "none" /\ seen = NoState /\ result = "none" /\ cleanup = "none"
  /\ container = "absent" /\ exit_code = 0 /\ oom = {} /\ oom_flag = FALSE /\ oom_event = FALSE
  /\ late = {} /\ asked = "none" /\ answer = "none" /\ faults = 0

Fault == faults < MaxFaults /\ faults' = faults + 1

-----------------------------------------------------------------------------
(* Docker commands *)

Possible(op) ==
  CASE op = "create" -> container = "absent"
    [] op = "start"  -> container = "created"
    [] op = "kill"   -> container = "running"
    [] op = "rm"     -> container # "absent"

Apply(op) ==
  /\ Possible(op)
  /\ container' = CASE op = "create" -> "created"
                    [] op = "start"  -> "running"
                    [] op = "kill"   -> "exited"
                    [] op = "rm"     -> "absent"
  /\ exit_code' = IF op = "kill" THEN 137 ELSE exit_code

\* _control_command: "failed" is a nonzero exit or a CLI that does not start, and
\* "timeout" a CLI killed after _CONTROL_TIMEOUT_SECONDS.  docker rm --force of a
\* missing container may succeed or fail.
Command(op, reply) ==
  \/ reply = "ok" /\ Apply(op) /\ UNCHANGED <<late, faults>>
  \/ /\ reply = "failed" \/ (reply = "ok" /\ op = "rm")
     /\ ~Possible(op)
     /\ UNCHANGED <<container, exit_code, late, faults>>
  \/ reply = "failed" /\ Fault /\ UNCHANGED <<container, exit_code, late>>
  \/ reply = "timeout" /\ Fault /\ \/ Apply(op) /\ UNCHANGED late
                                   \/ late' = late \cup {op} /\ UNCHANGED <<container, exit_code>>

Replies == {"ok", "failed", "timeout"}

\* The daemon executes or drops a request whose CLI may be gone.
DaemonCatchesUp ==
  /\ \E op \in late : /\ late' = late \ {op}
                      /\ Apply(op) \/ UNCHANGED <<container, exit_code>>
  /\ UNCHANGED <<runnerVars, oom, oom_flag, oom_event, pipeVars, faults>>

-----------------------------------------------------------------------------
(* check_capability *)

Unavailable(r) ==
  /\ reason' = r /\ result' = "infrastructure_error" /\ pc' = "done"
  /\ UNCHANGED <<stage, attempt>>

Probe(s) ==
  /\ stage' = s /\ attempt' = 1
  /\ UNCHANGED <<pc, reason, result>>

\* The loop of _capability_probe
ProbeAgain(failure) ==
  /\ failure # "none" /\ attempt < CapabilityAttempts
  /\ ~(failure = "daemon_unavailable" /\ stage = "image")

\* One command of _capability_probe, with the failure that _probe_failure makes of
\* it: a nonzero exit of docker image inspect is not tried again.
check_capability(failure) ==
  /\ pc = "preflight"
  /\ failure = "none" /\ stage = "image" => image
  /\ IF failure = "none" \/ (failure = "daemon_unavailable" /\ stage = "image" /\ ~image)
     THEN UNCHANGED faults ELSE Fault
  /\ CASE ProbeAgain(failure) -> attempt' = attempt + 1 /\ UNCHANGED <<pc, stage, reason, result>>
       [] ~ProbeAgain(failure) /\ failure = "none" /\ stage = "daemon" -> Probe("image")
       [] ~ProbeAgain(failure) /\ failure = "none" /\ stage = "image" ->
            pc' = "create" /\ UNCHANGED <<stage, attempt, reason, result>>
       [] ~ProbeAgain(failure) /\ failure = "none" /\ stage = "confirm" -> Unavailable("image_missing")
       [] ~ProbeAgain(failure) /\ failure = "daemon_unavailable" /\ stage = "image" -> Probe("confirm")
       [] OTHER -> Unavailable(failure)
  /\ UNCHANGED <<method, image, created, answered, report, cause, seen, cleanup, dockerVars, pipeVars>>

Failures == {"none", "probe_timeout", "probe_failed", "daemon_unavailable"}

-----------------------------------------------------------------------------
(* The container is created and started. *)

Finish(r) == result' = r /\ pc' = "remove"

create(reply) ==
  /\ pc = "create"
  /\ Command("create", reply)
  /\ IF reply = "ok" THEN created' = TRUE /\ pc' = "start" /\ UNCHANGED result
     ELSE Finish("infrastructure_error") /\ UNCHANGED created
  /\ UNCHANGED <<method, image, stage, attempt, reason, answered, report, cause, seen, cleanup,
                 oom, oom_flag, oom_event, pipeVars>>

\* The attached CLI passes the request to start on to the daemon.
start ==
  /\ pc = "start"
  /\ \/ Fault /\ Finish("infrastructure_error") /\ UNCHANGED <<attached, late>>
     \/ /\ pc' = IF method = "official" THEN "request" ELSE "wait"
        /\ attached' = "open"
        /\ late' = late \cup {"start"}
        /\ UNCHANGED <<result, faults>>
  /\ UNCHANGED <<method, image, stage, attempt, reason, created, answered, report, cause, seen,
                 cleanup, container, exit_code, oom, oom_flag, oom_event, asked, answer>>

-----------------------------------------------------------------------------
(* The protocol of the official tests *)

Stop(why) == cause' = why /\ pc' = "terminate" /\ UNCHANGED result
Raise == Finish("raised") /\ UNCHANGED cause

protocolVars == <<method, image, stage, attempt, reason, created, seen, cleanup, dockerVars, faults>>

\* write_line: to a closed pipe the line is lost, or drain raises.
request ==
  /\ pc = "request"
  /\ \/ /\ attached = "open"
        /\ asked' = IF report = "none" THEN "case" ELSE "shutdown"
        /\ pc' = "answer"
        /\ UNCHANGED <<cause, result>>
     \/ attached = "closed" /\ pc' = "answer" /\ UNCHANGED <<asked, cause, result>>
     \/ attached = "closed" /\ Raise /\ UNCHANGED asked
  /\ UNCHANGED <<protocolVars, attached, answer, answered, report>>

Counted(a) == answered' = answered + 1 /\ report' = IF answered + 1 = Cases THEN "counts" ELSE "none"

\* read_line and what request and the harness make of the line.  A line over the
\* limit is a ValueError, an empty or invalid one a HarnessProtocolError.
ReadLine(a) ==
  CASE a = "outcomes" -> Counted(a) /\ pc' = "request" /\ UNCHANGED <<cause, result>>
    [] a = "startup_error" -> report' = "startup_error" /\ pc' = "request" /\ UNCHANGED <<answered, cause, result>>
    [] a = "shutdown" -> pc' = "wait" /\ UNCHANGED <<answered, report, cause, result>>
    [] a = "oversized" -> Raise /\ UNCHANGED <<answered, report>>
    [] OTHER -> Stop("protocol") /\ UNCHANGED <<answered, report>>

read_line ==
  /\ pc = "answer"
  /\ answer # "none" \/ attached = "closed"
  /\ ReadLine(answer)
  /\ answer' = "none"
  /\ UNCHANGED <<protocolVars, attached, asked>>

\* The attached process ends: process.wait, and DockerCli.run of generated tests.
wait ==
  /\ pc = "wait"
  /\ attached = "closed"
  /\ cause' = "exit" /\ pc' = "inspect"
  /\ UNCHANGED <<method, image, stage, attempt, reason, created, answered, report, seen, result,
                 cleanup, dockerVars, pipeVars, faults>>

\* asyncio.timeout, or the time limit of DockerCli.run, which kills its process.
timeout_Never == FALSE
timeout ==
  /\ pc \in {"request", "answer", "wait"}
  /\ cause' = "timeout"
  /\ pc' = IF method = "official" THEN "terminate" ELSE "kill"
  /\ attached' = IF method = "official" THEN attached ELSE "closed"
  /\ UNCHANGED <<method, image, stage, attempt, reason, created, answered, report, seen, result,
                 cleanup, dockerVars, asked, answer, faults>>

-----------------------------------------------------------------------------
(* Inside the container *)

insideVars == <<method, image, pc, stage, attempt, reason, created, answered, cause, seen, result, cleanup>>

Exit(code) == container' = "exited" /\ exit_code' = code

\* _run_case, with a candidate process of its own, or a case that never ends.
run_case(a) ==
  /\ container = "running" /\ asked = "case"
  /\ asked' = "none" /\ answer' = a
  /\ UNCHANGED <<insideVars, report, dockerVars, attached, faults>>

CaseAnswers == {"outcomes", "startup_error", "invalid", "oversized"}

\* The answer to the shutdown is printed before main returns 0.
shutdown ==
  /\ container = "running" /\ asked = "shutdown"
  /\ asked' = "none" /\ answer' = "shutdown"
  /\ Exit(0)
  /\ UNCHANGED <<insideVars, report, oom, oom_flag, oom_event, late, attached, faults>>

\* main returns at the end of its input, fails with an exception, or pytest ends
\* and has written its report or not.
main ==
  /\ container = "running"
  /\ IF method = "official"
     THEN \E code \in {0, 1} : /\ code = 0 => attached = "closed" /\ asked = "none"
                               /\ Exit(code) /\ UNCHANGED report
     ELSE \E code \in {0, 1} : Exit(code) /\ report' \in {"none", "counts"}
  /\ UNCHANGED <<insideVars, oom, oom_flag, oom_event, late, pipeVars, faults>>

\* The kernel kills the first process of the container, or another one: a candidate that
\* still has to answer, or a process nobody waits for, as a child of the candidate or the
\* candidate after its last answer, whose return code is ignored.  Docker may or may not
\* set OOMKilled, and publishes the event some time later.
OutOfMemory ==
  /\ container = "running"
  /\ oom_flag' \in {oom_flag, TRUE}
  /\ \/ oom' = oom \cup {"supervisor"} /\ Exit(137) /\ UNCHANGED <<asked, answer>>
     \/ /\ oom' = oom \cup {"other"} /\ UNCHANGED <<container, exit_code>>
        /\ \/ method = "official" /\ asked = "case" /\ asked' = "none" /\ answer' = "invalid"
           \/ UNCHANGED <<asked, answer>>
  /\ UNCHANGED <<insideVars, report, oom_event, late, attached, faults>>

PublishOomEvent ==
  /\ oom # {} /\ ~oom_event
  /\ oom_event' = TRUE
  /\ UNCHANGED <<runnerVars, container, exit_code, oom, oom_flag, late, pipeVars, faults>>

\* The attached CLI ends with its container, or loses its connection.
CliExits ==
  /\ attached = "open"
  /\ attached' = "closed"
  /\ IF container \in {"exited", "absent"} THEN UNCHANGED faults ELSE Fault
  /\ UNCHANGED <<runnerVars, dockerVars, asked, answer>>

-----------------------------------------------------------------------------
(* The end of the container is classified. *)

terminate ==
  /\ pc = "terminate"
  /\ attached' = "closed" /\ pc' = "kill"
  /\ UNCHANGED <<method, image, stage, attempt, reason, created, answered, report, cause, seen,
                 result, cleanup, dockerVars, asked, answer, faults>>

kill(reply) ==
  /\ pc = "kill"
  /\ Command("kill", reply)
  /\ pc' = IF cause = "cancelled" THEN "remove" ELSE "inspect"
  /\ UNCHANGED <<method, image, stage, attempt, reason, created, answered, report, cause, seen,
                 result, cleanup, oom, oom_flag, oom_event, pipeVars>>

\* Mutant: cases that were all answered count, whatever became of the supervisor.
Otherwise_Answered == IF report = "counts" THEN "report" ELSE "sandbox_error"

\* What is left when there is no evidence that memory ran out.
Otherwise ==
  CASE cause = "protocol" -> "sandbox_error"
    [] cause = "exit" /\ method = "official" -> IF seen'.exit_code = 0 THEN "report" ELSE "sandbox_error"
    [] OTHER -> IF report = "counts" THEN "report" ELSE "sandbox_error"

Conclude_137IsOom ==
  CASE cause = "timeout" -> Finish("timed_out") /\ UNCHANGED attempt
    [] cause # "timeout" /\ ~seen'.known ->
         Finish(IF cause = "protocol" THEN "sandbox_error" ELSE "infrastructure_error") /\ UNCHANGED attempt
    [] OTHER -> IF seen'.oom_killed \/ seen'.exit_code = 137 THEN Finish("oom_killed") /\ UNCHANGED attempt
                ELSE Finish(Otherwise) /\ UNCHANGED attempt

Conclude ==
  CASE cause = "timeout" -> Finish("timed_out") /\ UNCHANGED attempt
    [] cause # "timeout" /\ ~seen'.known ->
         Finish(IF cause = "protocol" THEN "sandbox_error" ELSE "infrastructure_error") /\ UNCHANGED attempt
    [] OTHER -> IF seen'.oom_killed THEN Finish("oom_killed") /\ UNCHANGED attempt
                ELSE IF seen'.exit_code = 137 THEN pc' = "events" /\ attempt' = 1 /\ UNCHANGED result
                ELSE Finish(Otherwise) /\ UNCHANGED attempt

\* _inspect_state: a container that has not ended shows exit code 0.  oom is kept
\* for the properties.
inspect ==
  /\ pc = "inspect"
  /\ \/ /\ container # "absent"
        /\ seen' = [known |-> TRUE, exit_code |-> IF container = "exited" THEN exit_code ELSE 0,
                    oom_killed |-> oom_flag, oom |-> oom]
        /\ UNCHANGED faults
     \/ seen' = NoState /\ Fault
  /\ Conclude
  /\ UNCHANGED <<method, image, stage, reason, created, answered, report, cause, cleanup,
                 dockerVars, pipeVars>>

\* _has_oom_event
has_oom_event ==
  /\ pc = "events"
  /\ seen' = seen
  /\ \/ Fault /\ Finish(Otherwise) /\ UNCHANGED attempt
     \/ /\ UNCHANGED faults
        /\ IF oom_event THEN Finish("oom_killed") /\ UNCHANGED attempt
           ELSE IF attempt < OomEventAttempts THEN attempt' = attempt + 1 /\ UNCHANGED <<pc, result>>
           ELSE Finish(Otherwise) /\ UNCHANGED attempt
  /\ UNCHANGED <<method, image, stage, reason, created, answered, report, cause, cleanup,
                 dockerVars, pipeVars>>

-----------------------------------------------------------------------------
(* Cleanup and cancellation *)

remove(reply) ==
  /\ pc = "remove"
  /\ Command("rm", reply)
  /\ cleanup' = IF reply = "ok" THEN "ok" ELSE "failed"
  /\ pc' = "done"
  /\ UNCHANGED <<method, image, stage, attempt, reason, created, answered, report, cause, seen,
                 result, oom, oom_flag, oom_event, pipeVars>>

\* CancelledError at an await.  What is shielded goes on without the runner.
AfterCancel_NoCleanup ==
  IF pc \in {"preflight", "create", "start"} THEN "done"
  ELSE IF attached = "no" \/ cause = "cancelled" THEN "remove"
  ELSE IF method = "official" THEN "terminate" ELSE "kill"

AfterCancel ==
  IF pc \in {"preflight", "remove"} THEN "done"
  ELSE IF pc = "create" \/ cause = "cancelled" THEN "remove"
  ELSE IF method = "official" /\ attached # "no" THEN "terminate" ELSE "kill"

\* The request that a killed CLI, or a shielded call, leaves with the daemon.
LeftBehind == CASE pc = "create" -> {"create"}
                [] pc = "start" -> {"start"}
                [] pc = "remove" -> {"rm"}
                [] pc = "kill" -> {"kill"}
                [] OTHER -> {}

cancel ==
  /\ pc # "done"
  /\ Fault
  /\ late' = late \cup LeftBehind
  /\ cause' = "cancelled" /\ result' = "cancelled"
  /\ pc' = AfterCancel
  /\ cleanup' = IF pc = "remove" THEN "abandoned" ELSE cleanup
  /\ attached' = IF attached = "open" /\ (method = "generated" \/ cause = "cancelled") THEN "closed" ELSE attached
  /\ UNCHANGED <<method, image, stage, attempt, reason, created, answered, report, seen,
                 container, exit_code, oom, oom_flag, oom_event, asked, answer>>

-----------------------------------------------------------------------------

Runner == \/ \E f \in Failures : check_capability(f)
          \/ \E reply \in Replies : create(reply) \/ kill(reply) \/ remove(reply)
          \/ start \/ request \/ read_line \/ wait \/ timeout \/ terminate \/ inspect \/ has_oom_event

Environment == \/ DaemonCatchesUp \/ CliExits \/ PublishOomEvent \/ OutOfMemory \/ main \/ shutdown
               \/ \E a \in CaseAnswers : run_case(a)
               \/ cancel

Next == Runner \/ Environment

Spec == Init /\ [][Next]_vars

-----------------------------------------------------------------------------

\* Every variable has its type.
TypeOK ==
  /\ pc \in {"preflight", "create", "start", "request", "answer", "wait", "terminate", "kill",
             "inspect", "events", "remove", "done"}
  /\ attempt \in 1 .. IF CapabilityAttempts > OomEventAttempts THEN CapabilityAttempts ELSE OomEventAttempts
  /\ answered \in 0 .. Cases
  /\ report \in {"none", "counts", "startup_error"}
  /\ result \in {"none", "infrastructure_error", "report", "sandbox_error", "oom_killed",
                 "timed_out", "cancelled", "raised"}
  /\ container \in {"absent", "created", "running", "exited"}
  /\ late \subseteq {"create", "start", "kill", "rm"}
  /\ faults \in 0 .. MaxFaults

\* Official tests are counted only when every case was answered, or the source
\* could not be loaded, and, when the container was inspected, memory had not ended
\* its supervisor, nor did Docker tell that it had run out, whatever else failed on
\* the way.  Memory that ran out in a process that nobody waits for is not noticed.
ReportIsComplete ==
  result = "report" /\ method = "official" =>
    /\ answered = Cases \/ report = "startup_error"
    /\ "supervisor" \notin seen.oom /\ ~seen.oom_killed

\* oom_killed is reported only of a container that ran out of memory: not of one
\* that the runner, its time limit or somebody else killed with the same exit code.
OomOnlyFromEvidence == result = "oom_killed" => oom # {}

\* DockerSandboxRunner.evaluate: the verdict is what happened in the container, for
\* a report as for memory exhaustion.
VerdictIsJustified == ReportIsComplete /\ OomOnlyFromEvidence

\* When evaluate is over and docker rm has not failed or been left behind, nothing
\* of the evaluation runs, and a container known to the runner is gone.
NothingLeftRunning ==
  pc = "done" /\ cleanup \in {"none", "ok"} =>
    /\ container # "running"
    /\ created => container = "absent"

\* docs/sandbox/resource-limits.md: "mandatory removal".  A removal that succeeded
\* is final: no container of the evaluation exists afterwards.  docker create, killed
\* at its time limit, may still take effect.
NoContainerLeft == pc = "done" /\ cleanup = "ok" => container = "absent"

\* docs/sandbox/resource-limits.md: an invalid report "becomes a sanitized sandbox
\* error".  A line over the limit, or a pipe lost while writing, raises instead.
InvalidAnswerIsResult == result # "raised"

\* tests/unit/test_docker_runner.py: a daemon failure is not reported as a missing
\* image.  An inspection that fails while the daemon answers the next probe is.
MissingImageIsMissing == reason = "image_missing" => ~image

\* The event loop goes on, commands have time limits and so has the evaluation.
FairSpec == Spec /\ WF_vars(Runner)

\* Every evaluation ends, although the candidate may never answer.
EvaluationEnds == <>(pc = "done")
=============================================================================
