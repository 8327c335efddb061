------------------------ MODULE SandboxRunnerProofs ------------------------
(***************************************************************************)
(* Proofs about the sandbox: SandboxRunner, for any number of cases,       *)
(* attempts and faults; in the second part, RuntimeIdentity, for any       *)
(* number of processes, jobs, image identities, rebuilds, failures and     *)
(* restarts; and, in the third, SandboxTests, for any official cases and   *)
(* any candidate, and for the oracles of the generated tests that keep     *)
(* time or resolve dependencies, for any limits, calls and graphs.         *)
(*                                                                         *)
(* A verdict is reached several steps after the events it speaks of, and a *)
(* container is removed while requests of killed commands are still with   *)
(* the daemon.  The inductive invariant follows the evaluation along its   *)
(* one good path: as long as nothing went wrong the daemon owes the runner *)
(* at most the start, so the container that is inspected is the one whose  *)
(* supervisor answered, and a supervisor that was killed for memory shows  *)
(* in its exit code.                                                       *)
(***************************************************************************)
EXTENDS SandboxRunner, RuntimeIdentity, SandboxTests, FiniteFacts, TLAPS

\* What TypeOK leaves open.
Shape ==
  /\ method \in {"official", "generated"}
  /\ stage \in {"daemon", "image", "confirm"}
  /\ cause \in {"none", "exit", "timeout", "protocol", "cancelled"}
  /\ asked \in {"none", "case", "shutdown"}
  /\ answer \in {"none", "shutdown"} \cup CaseAnswers
  /\ created \in BOOLEAN /\ oom \subseteq {"supervisor", "other"} /\ oom_flag \in BOOLEAN /\ oom_event \in BOOLEAN

\* Where the runner is tells why it came there.
Path ==
  /\ pc \in {"preflight", "create", "start", "request", "answer", "wait"} => cause = "none"
  /\ pc \in {"terminate", "kill"} => cause \in {"timeout", "protocol", "cancelled"}
  /\ pc = "inspect" => cause \in {"exit", "timeout", "protocol"}
  /\ pc = "events" => cause \in {"exit", "protocol"} /\ seen.exit_code = 137
  /\ pc \in {"request", "answer"} => method = "official"
  /\ result = "report" => pc \in {"remove", "done"}

\* A container the runner does not know of was never started, and the request to
\* create it is the only one that may still bring it into being.
Lifecycle ==
  /\ pc \in {"preflight", "create"} => ~created /\ container = "absent" /\ late = {} /\ oom = {}
  /\ pc \notin {"preflight", "create", "remove", "done"} => created
  /\ ~created => container \in {"absent", "created"} /\ "start" \notin late
  /\ created => "create" \notin late

\* One line is under way at a time, and the supervisor is told to shut down once
\* the tests are counted or have failed to load.
Protocol ==
  /\ asked # "none" => answer = "none"
  /\ pc \in {"preflight", "create", "start", "request", "wait"} => asked = "none" /\ answer = "none"
  /\ asked = "case" \/ answer \in CaseAnswers => report = "none"
  /\ asked = "shutdown" \/ answer = "shutdown" => report # "none"
  /\ method = "generated" => asked = "none" /\ answer = "none" /\ answered = 0
  /\ method = "official" /\ report = "none" => answered < Cases
  /\ method = "official" /\ report = "counts" => answered = Cases
  /\ method = "official" /\ (pc = "wait" \/ cause = "exit") => report # "none"
  /\ cause = "exit" => asked = "none" /\ answer = "none"

\* Nothing has gone wrong with the official tests so far.
OnTrack ==
  /\ method = "official"
  /\ pc \in {"start", "request", "answer", "wait"} \/ (pc = "inspect" /\ cause = "exit")

\* On track, a supervisor that was killed for memory cannot have been forgotten.
Evidence ==
  /\ oom_flag \/ oom_event => oom # {}
  /\ OnTrack => /\ late \subseteq {"start"}
                /\ container # "absent"
                /\ "supervisor" \in oom => container = "exited" /\ exit_code = 137

IInv ==
  /\ TypeOK
  /\ Shape
  /\ Path
  /\ Lifecycle
  /\ Protocol
  /\ Evidence
  /\ VerdictIsJustified
  /\ NothingLeftRunning

-----------------------------------------------------------------------------

LEMMA InitIInv == Init => IInv
<1> SUFFICES ASSUME Init PROVE IInv
  OBVIOUS
<1>1. TypeOK
  BY CasesAssumption, AttemptsAssumption, FaultsAssumption DEF Init, TypeOK
<1>2. Shape /\ Path /\ Lifecycle
  BY DEF Init, Shape, Path, Lifecycle
<1>3. Protocol /\ Evidence
  BY CasesAssumption DEF Init, Protocol, OnTrack, Evidence, CaseAnswers
<1>4. VerdictIsJustified /\ NothingLeftRunning
  BY DEF Init, VerdictIsJustified, ReportIsComplete, OomOnlyFromEvidence, NothingLeftRunning
<1> QED
  BY <1>1, <1>2, <1>3, <1>4 DEF IInv

\* check_capability: a probe succeeds, is tried again or ends the evaluation.
LEMMA CheckCapabilityKeeps ==
  ASSUME IInv, NEW f \in Failures, check_capability(f)
  PROVE  IInv'
<1> USE CasesAssumption, AttemptsAssumption, FaultsAssumption
    DEF IInv, check_capability, ProbeAgain, Probe, Unavailable, Failures, Fault, pipeVars, dockerVars, CaseAnswers
<1>1. TypeOK'
  BY DEF TypeOK, Shape, Protocol, Path
<1>2. Shape'
  BY DEF Shape, TypeOK
<1>3. Path'
  BY DEF Path, Shape, TypeOK
<1>4. Lifecycle'
  BY DEF Lifecycle, Shape, TypeOK
<1>5. Protocol'
  BY DEF Protocol, Path, Shape, TypeOK
<1>6. Evidence'
  BY DEF Evidence, OnTrack, Lifecycle, Path, Protocol, Shape, TypeOK
<1>7. VerdictIsJustified'
  BY DEF VerdictIsJustified, ReportIsComplete, OomOnlyFromEvidence, Evidence, OnTrack, Path,
         Protocol, Shape, TypeOK
<1>8. NothingLeftRunning'
  BY DEF NothingLeftRunning, Lifecycle, Shape, TypeOK
<1> QED
  BY <1>1, <1>2, <1>3, <1>4, <1>5, <1>6, <1>7, <1>8

\* create: the container is created, or may be later.
LEMMA CreateKeeps ==
  ASSUME IInv, NEW reply \in Replies, create(reply)
  PROVE  IInv'
<1> USE CasesAssumption, AttemptsAssumption, FaultsAssumption
    DEF IInv, create, Command, Apply, Possible, Finish, Replies, Fault, pipeVars, dockerVars, CaseAnswers
<1>1. TypeOK'
  BY DEF TypeOK, Shape, Protocol, Path
<1>2. Shape'
  <2>1. created' \in BOOLEAN
    BY DEF Shape
  <2> QED
    BY <2>1 DEF Shape
<1>3. Path'
  BY DEF Path, Shape, TypeOK
<1>4. Lifecycle'
  BY DEF Lifecycle, Shape, TypeOK
<1>5. Protocol'
  BY DEF Protocol, Path, Shape, TypeOK
<1>6. Evidence'
  BY DEF Evidence, OnTrack, Lifecycle, Path, Protocol, Shape, TypeOK
<1>7. VerdictIsJustified'
  BY DEF VerdictIsJustified, ReportIsComplete, OomOnlyFromEvidence, Evidence, OnTrack, Path,
         Protocol, Shape, TypeOK
<1>8. NothingLeftRunning'
  BY DEF NothingLeftRunning, Lifecycle, Shape, TypeOK
<1> QED
  BY <1>1, <1>2, <1>3, <1>4, <1>5, <1>6, <1>7, <1>8

\* start: the request to start is passed on.
LEMMA StartKeeps ==
  ASSUME IInv, start
  PROVE  IInv'
<1> USE CasesAssumption, AttemptsAssumption, FaultsAssumption
    DEF IInv, start, Finish, Fault, dockerVars, CaseAnswers
<1>1. TypeOK'
  <2>1. late' \subseteq {"create", "start", "kill", "rm"}
    BY DEF TypeOK
  <2>2. faults' \in 0 .. MaxFaults
    BY DEF TypeOK
  <2> QED
    BY <2>1, <2>2 DEF TypeOK, Shape
<1>2. Shape'
  BY DEF Shape, TypeOK
<1>3. Path'
  BY DEF Path, Shape, TypeOK
<1>4. Lifecycle'
  BY DEF Lifecycle, Shape, TypeOK
<1>5. Protocol'
  BY DEF Protocol, Path, Shape, TypeOK
<1>6. Evidence'
  BY DEF Evidence, OnTrack, Lifecycle, Path, Protocol, Shape, TypeOK
<1>7. VerdictIsJustified'
  BY DEF VerdictIsJustified, ReportIsComplete, OomOnlyFromEvidence, Evidence, OnTrack, Path,
         Protocol, Shape, TypeOK
<1>8. NothingLeftRunning'
  BY DEF NothingLeftRunning, Lifecycle, Shape, TypeOK
<1> QED
  BY <1>1, <1>2, <1>3, <1>4, <1>5, <1>6, <1>7, <1>8

\* request: the next line is written.
LEMMA RequestKeeps ==
  ASSUME IInv, request
  PROVE  IInv'
<1> USE CasesAssumption, AttemptsAssumption, FaultsAssumption
    DEF IInv, request, Raise, Finish, protocolVars, dockerVars, CaseAnswers
<1>1. TypeOK'
  BY DEF TypeOK, Shape, Protocol, Path
<1>2. Shape'
  BY DEF Shape, TypeOK
<1>3. Path'
  BY DEF Path, Shape, TypeOK
<1>4. Lifecycle'
  BY DEF Lifecycle, Shape, TypeOK
<1>5. Protocol'
  BY DEF Protocol, Path, Shape, TypeOK
<1>6. Evidence'
  BY DEF Evidence, OnTrack, Lifecycle, Path, Protocol, Shape, TypeOK
<1>7. VerdictIsJustified'
  BY DEF VerdictIsJustified, ReportIsComplete, OomOnlyFromEvidence, Evidence, OnTrack, Path,
         Protocol, Shape, TypeOK
<1>8. NothingLeftRunning'
  BY DEF NothingLeftRunning, Lifecycle, Shape, TypeOK
<1> QED
  BY <1>1, <1>2, <1>3, <1>4, <1>5, <1>6, <1>7, <1>8

\* read_line: the answer is read and counted.
LEMMA ReadLineKeeps ==
  ASSUME IInv, read_line
  PROVE  IInv'
<1> USE CasesAssumption, AttemptsAssumption, FaultsAssumption
    DEF IInv, read_line, ReadLine, Counted, Raise, Stop, Finish, protocolVars, dockerVars, CaseAnswers
<1>1. TypeOK'
  BY DEF TypeOK, Shape, Protocol, Path
<1>2. Shape'
  BY DEF Shape, TypeOK
<1>3. Path'
  BY DEF Path, Shape, TypeOK
<1>4. Lifecycle'
  BY DEF Lifecycle, Shape, TypeOK
<1>5. Protocol'
  BY DEF Protocol, Path, Shape, TypeOK
<1>6. Evidence'
  BY DEF Evidence, OnTrack, Lifecycle, Path, Protocol, Shape, TypeOK
<1>7. VerdictIsJustified'
  BY DEF VerdictIsJustified, ReportIsComplete, OomOnlyFromEvidence, Evidence, OnTrack, Path,
         Protocol, Shape, TypeOK
<1>8. NothingLeftRunning'
  BY DEF NothingLeftRunning, Lifecycle, Shape, TypeOK
<1> QED
  BY <1>1, <1>2, <1>3, <1>4, <1>5, <1>6, <1>7, <1>8

\* wait: the attached process has ended.
LEMMA WaitKeeps ==
  ASSUME IInv, wait
  PROVE  IInv'
<1> USE CasesAssumption, AttemptsAssumption, FaultsAssumption
    DEF IInv, wait, pipeVars, dockerVars, CaseAnswers
<1>1. TypeOK'
  BY DEF TypeOK, Shape, Protocol, Path
<1>2. Shape'
  BY DEF Shape, TypeOK
<1>3. Path'
  BY DEF Path, Shape, TypeOK
<1>4. Lifecycle'
  BY DEF Lifecycle, Shape, TypeOK
<1>5. Protocol'
  BY DEF Protocol, Path, Shape, TypeOK
<1>6. Evidence'
  BY DEF Evidence, OnTrack, Lifecycle, Path, Protocol, Shape, TypeOK
<1>7. VerdictIsJustified'
  BY DEF VerdictIsJustified, ReportIsComplete, OomOnlyFromEvidence, Evidence, OnTrack, Path,
         Protocol, Shape, TypeOK
<1>8. NothingLeftRunning'
  BY DEF NothingLeftRunning, Lifecycle, Shape, TypeOK
<1> QED
  BY <1>1, <1>2, <1>3, <1>4, <1>5, <1>6, <1>7, <1>8

\* timeout: the time of the evaluation is over.
LEMMA TimeoutKeeps ==
  ASSUME IInv, timeout
  PROVE  IInv'
<1> USE CasesAssumption, AttemptsAssumption, FaultsAssumption
    DEF IInv, timeout, dockerVars, CaseAnswers
<1>1. TypeOK'
  BY DEF TypeOK, Shape, Protocol, Path
<1>2. Shape'
  BY DEF Shape, TypeOK
<1>3. Path'
  BY DEF Path, Shape, TypeOK
<1>4. Lifecycle'
  BY DEF Lifecycle, Shape, TypeOK
<1>5. Protocol'
  BY DEF Protocol, Path, Shape, TypeOK
<1>6. Evidence'
  BY DEF Evidence, OnTrack, Lifecycle, Path, Protocol, Shape, TypeOK
<1>7. VerdictIsJustified'
  BY DEF VerdictIsJustified, ReportIsComplete, OomOnlyFromEvidence, Evidence, OnTrack, Path,
         Protocol, Shape, TypeOK
<1>8. NothingLeftRunning'
  BY DEF NothingLeftRunning, Lifecycle, Shape, TypeOK
<1> QED
  BY <1>1, <1>2, <1>3, <1>4, <1>5, <1>6, <1>7, <1>8

\* terminate: the attached process is ended.
LEMMA TerminateKeeps ==
  ASSUME IInv, terminate
  PROVE  IInv'
<1> USE CasesAssumption, AttemptsAssumption, FaultsAssumption
    DEF IInv, terminate, dockerVars, CaseAnswers
<1>1. TypeOK'
  BY DEF TypeOK, Shape, Protocol, Path
<1>2. Shape'
  BY DEF Shape, TypeOK
<1>3. Path'
  BY DEF Path, Shape, TypeOK
<1>4. Lifecycle'
  BY DEF Lifecycle, Shape, TypeOK
<1>5. Protocol'
  BY DEF Protocol, Path, Shape, TypeOK
<1>6. Evidence'
  BY DEF Evidence, OnTrack, Lifecycle, Path, Protocol, Shape, TypeOK
<1>7. VerdictIsJustified'
  BY DEF VerdictIsJustified, ReportIsComplete, OomOnlyFromEvidence, Evidence, OnTrack, Path,
         Protocol, Shape, TypeOK
<1>8. NothingLeftRunning'
  BY DEF NothingLeftRunning, Lifecycle, Shape, TypeOK
<1> QED
  BY <1>1, <1>2, <1>3, <1>4, <1>5, <1>6, <1>7, <1>8

\* kill: the container is killed.
LEMMA KillKeeps ==
  ASSUME IInv, NEW reply \in Replies, kill(reply)
  PROVE  IInv'
<1> USE CasesAssumption, AttemptsAssumption, FaultsAssumption
    DEF IInv, kill, Command, Apply, Possible, Replies, Fault, pipeVars, dockerVars, CaseAnswers
<1>1. TypeOK'
  BY DEF TypeOK, Shape, Protocol, Path
<1>2. Shape'
  BY DEF Shape, TypeOK
<1>3. Path'
  BY DEF Path, Shape, TypeOK
<1>4. Lifecycle'
  BY DEF Lifecycle, Shape, TypeOK
<1>5. Protocol'
  BY DEF Protocol, Path, Shape, TypeOK
<1>6. Evidence'
  BY DEF Evidence, OnTrack, Lifecycle, Path, Protocol, Shape, TypeOK
<1>7. VerdictIsJustified'
  BY DEF VerdictIsJustified, ReportIsComplete, OomOnlyFromEvidence, Evidence, OnTrack, Path,
         Protocol, Shape, TypeOK
<1>8. NothingLeftRunning'
  BY DEF NothingLeftRunning, Lifecycle, Shape, TypeOK
<1> QED
  BY <1>1, <1>2, <1>3, <1>4, <1>5, <1>6, <1>7, <1>8

\* inspect: the state of the container is read and judged.
LEMMA InspectKeeps ==
  ASSUME IInv, inspect
  PROVE  IInv'
<1> USE CasesAssumption, AttemptsAssumption, FaultsAssumption
    DEF IInv, inspect, Conclude, Otherwise, Finish, NoState, Fault, pipeVars, dockerVars, CaseAnswers
<1>1. TypeOK'
  BY DEF TypeOK, Shape, Protocol, Path
<1>2. Shape'
  BY DEF Shape, TypeOK
<1>3. Path'
  BY DEF Path, Shape, TypeOK
<1>4. Lifecycle'
  BY DEF Lifecycle, Shape, TypeOK
<1>5. Protocol'
  BY DEF Protocol, Path, Shape, TypeOK
<1>6. Evidence'
  BY DEF Evidence, OnTrack, Lifecycle, Path, Protocol, Shape, TypeOK
<1>7. VerdictIsJustified'
  BY DEF VerdictIsJustified, ReportIsComplete, OomOnlyFromEvidence, Evidence, OnTrack, Path,
         Protocol, Shape, TypeOK
<1>8. NothingLeftRunning'
  BY DEF NothingLeftRunning, Lifecycle, Shape, TypeOK
<1> QED
  BY <1>1, <1>2, <1>3, <1>4, <1>5, <1>6, <1>7, <1>8

\* has_oom_event: the events of the daemon are asked.
LEMMA HasOomEventKeeps ==
  ASSUME IInv, has_oom_event
  PROVE  IInv'
<1> USE CasesAssumption, AttemptsAssumption, FaultsAssumption
    DEF IInv, has_oom_event, Otherwise, Finish, Fault, pipeVars, dockerVars, CaseAnswers
<1>1. TypeOK'
  BY DEF TypeOK, Shape, Protocol, Path
<1>2. Shape'
  BY DEF Shape, TypeOK
<1>3. Path'
  BY DEF Path, Shape, TypeOK
<1>4. Lifecycle'
  BY DEF Lifecycle, Shape, TypeOK
<1>5. Protocol'
  BY DEF Protocol, Path, Shape, TypeOK
<1>6. Evidence'
  BY DEF Evidence, OnTrack, Lifecycle, Path, Protocol, Shape, TypeOK
<1>7. VerdictIsJustified'
  BY DEF VerdictIsJustified, ReportIsComplete, OomOnlyFromEvidence, Evidence, OnTrack, Path,
         Protocol, Shape, TypeOK
<1>8. NothingLeftRunning'
  BY DEF NothingLeftRunning, Lifecycle, Shape, TypeOK
<1> QED
  BY <1>1, <1>2, <1>3, <1>4, <1>5, <1>6, <1>7, <1>8

\* remove: the container is removed.
LEMMA RemoveKeeps ==
  ASSUME IInv, NEW reply \in Replies, remove(reply)
  PROVE  IInv'
<1> USE CasesAssumption, AttemptsAssumption, FaultsAssumption
    DEF IInv, remove, Command, Apply, Possible, Replies, Fault, pipeVars, dockerVars, CaseAnswers
<1>1. TypeOK'
  BY DEF TypeOK, Shape, Protocol, Path
<1>2. Shape'
  BY DEF Shape, TypeOK
<1>3. Path'
  BY DEF Path, Shape, TypeOK
<1>4. Lifecycle'
  BY DEF Lifecycle, Shape, TypeOK
<1>5. Protocol'
  BY DEF Protocol, Path, Shape, TypeOK
<1>6. Evidence'
  BY DEF Evidence, OnTrack, Lifecycle, Path, Protocol, Shape, TypeOK
<1>7. VerdictIsJustified'
  BY DEF VerdictIsJustified, ReportIsComplete, OomOnlyFromEvidence, Evidence, OnTrack, Path,
         Protocol, Shape, TypeOK
<1>8. NothingLeftRunning'
  BY DEF NothingLeftRunning, Lifecycle, Shape, TypeOK
<1> QED
  BY <1>1, <1>2, <1>3, <1>4, <1>5, <1>6, <1>7, <1>8

\* cancel: the evaluation is cancelled at an await.
LEMMA CancelKeeps ==
  ASSUME IInv, cancel
  PROVE  IInv'
<1> USE CasesAssumption, AttemptsAssumption, FaultsAssumption
    DEF IInv, cancel, AfterCancel, LeftBehind, Fault, dockerVars, CaseAnswers
<1>1. TypeOK'
  BY DEF TypeOK, Shape, Protocol, Path
<1>2. Shape'
  BY DEF Shape, TypeOK
<1>3. Path'
  BY DEF Path, Shape, TypeOK
<1>4. Lifecycle'
  <2>1. pc \in {"preflight", "remove"} => pc' = "done"
    OBVIOUS
  <2>2. pc = "create" => pc' = "remove" /\ late' = late \cup {"create"}
    OBVIOUS
  <2>3. pc \notin {"create", "start"} => late' \subseteq late \cup {"rm", "kill"}
    OBVIOUS
  <2>5. pc = "start" => late' = late \cup {"start"} /\ created' = created /\ created
    BY DEF Lifecycle
  <2>4. pc \notin {"preflight", "create", "remove"} => pc' \in {"remove", "terminate", "kill"}
    OBVIOUS
  <2> QED
    BY <2>1, <2>2, <2>3, <2>4, <2>5 DEF Lifecycle, Shape, TypeOK
<1>5. Protocol'
  BY DEF Protocol, Path, Shape, TypeOK
<1>6. Evidence'
  BY DEF Evidence, OnTrack, Lifecycle, Path, Protocol, Shape, TypeOK
<1>7. VerdictIsJustified'
  BY DEF VerdictIsJustified, ReportIsComplete, OomOnlyFromEvidence, Evidence, OnTrack, Path,
         Protocol, Shape, TypeOK
<1>8. NothingLeftRunning'
  BY DEF NothingLeftRunning, Lifecycle, Shape, TypeOK
<1> QED
  BY <1>1, <1>2, <1>3, <1>4, <1>5, <1>6, <1>7, <1>8

\* DaemonCatchesUp: a late request takes effect or is dropped.
LEMMA DaemonCatchesUpKeeps ==
  ASSUME IInv, DaemonCatchesUp
  PROVE  IInv'
<1> USE CasesAssumption, AttemptsAssumption, FaultsAssumption
    DEF IInv, DaemonCatchesUp, Apply, Possible, runnerVars, pipeVars, dockerVars, CaseAnswers
<1>1. TypeOK'
  <2>1. late' \subseteq {"create", "start", "kill", "rm"}
    BY DEF TypeOK
  <2>2. container' \in {"absent", "created", "running", "exited"}
    BY DEF TypeOK
  <2> QED
    BY <2>1, <2>2 DEF TypeOK
<1>2. Shape'
  BY DEF Shape, TypeOK
<1>3. Path'
  BY DEF Path, Shape, TypeOK
<1>4. Lifecycle'
  BY DEF Lifecycle, Shape, TypeOK
<1>5. Protocol'
  BY DEF Protocol, Path, Shape, TypeOK
<1>6. Evidence'
  BY DEF Evidence, OnTrack, Lifecycle, Path, Protocol, Shape, TypeOK
<1>7. VerdictIsJustified'
  BY DEF VerdictIsJustified, ReportIsComplete, OomOnlyFromEvidence, Evidence, OnTrack, Path,
         Protocol, Shape, TypeOK
<1>8. NothingLeftRunning'
  BY DEF NothingLeftRunning, Lifecycle, Shape, TypeOK
<1> QED
  BY <1>1, <1>2, <1>3, <1>4, <1>5, <1>6, <1>7, <1>8

\* CliExits: the attached process loses its container or its connection.
LEMMA CliExitsKeeps ==
  ASSUME IInv, CliExits
  PROVE  IInv'
<1> USE CasesAssumption, AttemptsAssumption, FaultsAssumption
    DEF IInv, CliExits, Fault, runnerVars, dockerVars, CaseAnswers
<1>1. TypeOK'
  BY DEF TypeOK, Shape, Protocol, Path
<1>2. Shape'
  BY DEF Shape, TypeOK
<1>3. Path'
  BY DEF Path, Shape, TypeOK
<1>4. Lifecycle'
  BY DEF Lifecycle, Shape, TypeOK
<1>5. Protocol'
  BY DEF Protocol, Path, Shape, TypeOK
<1>6. Evidence'
  BY DEF Evidence, OnTrack, Lifecycle, Path, Protocol, Shape, TypeOK
<1>7. VerdictIsJustified'
  BY DEF VerdictIsJustified, ReportIsComplete, OomOnlyFromEvidence, Evidence, OnTrack, Path,
         Protocol, Shape, TypeOK
<1>8. NothingLeftRunning'
  BY DEF NothingLeftRunning, Lifecycle, Shape, TypeOK
<1> QED
  BY <1>1, <1>2, <1>3, <1>4, <1>5, <1>6, <1>7, <1>8

\* PublishOomEvent: the event becomes visible.
LEMMA PublishOomEventKeeps ==
  ASSUME IInv, PublishOomEvent
  PROVE  IInv'
<1> USE CasesAssumption, AttemptsAssumption, FaultsAssumption
    DEF IInv, PublishOomEvent, runnerVars, pipeVars, dockerVars, CaseAnswers
<1>1. TypeOK'
  BY DEF TypeOK, Shape, Protocol, Path
<1>2. Shape'
  BY DEF Shape, TypeOK
<1>3. Path'
  BY DEF Path, Shape, TypeOK
<1>4. Lifecycle'
  BY DEF Lifecycle, Shape, TypeOK
<1>5. Protocol'
  BY DEF Protocol, Path, Shape, TypeOK
<1>6. Evidence'
  BY DEF Evidence, OnTrack, Lifecycle, Path, Protocol, Shape, TypeOK
<1>7. VerdictIsJustified'
  BY DEF VerdictIsJustified, ReportIsComplete, OomOnlyFromEvidence, Evidence, OnTrack, Path,
         Protocol, Shape, TypeOK
<1>8. NothingLeftRunning'
  BY DEF NothingLeftRunning, Lifecycle, Shape, TypeOK
<1> QED
  BY <1>1, <1>2, <1>3, <1>4, <1>5, <1>6, <1>7, <1>8

\* OutOfMemory: the kernel kills a process of the container.
LEMMA OutOfMemoryKeeps ==
  ASSUME IInv, OutOfMemory
  PROVE  IInv'
<1> USE CasesAssumption, AttemptsAssumption, FaultsAssumption
    DEF IInv, OutOfMemory, Exit, insideVars, dockerVars, CaseAnswers
<1>1. TypeOK'
  BY DEF TypeOK, Shape, Protocol, Path
<1>2. Shape'
  <2>1. oom' \subseteq {"supervisor", "other"}
    BY DEF Shape
  <2>2. oom_flag' \in BOOLEAN
    BY DEF Shape
  <2>3. asked' \in {asked, "none"} /\ answer' \in {answer, "invalid"}
    OBVIOUS
  <2> QED
    BY <2>1, <2>2, <2>3 DEF Shape
<1>3. Path'
  BY DEF Path, Shape, TypeOK
<1>4. Lifecycle'
  BY DEF Lifecycle, Shape, TypeOK
<1>5. Protocol'
  BY DEF Protocol, Path, Shape, TypeOK
<1>6. Evidence'
  BY DEF Evidence, OnTrack, Lifecycle, Path, Protocol, Shape, TypeOK
<1>7. VerdictIsJustified'
  BY DEF VerdictIsJustified, ReportIsComplete, OomOnlyFromEvidence, Evidence, OnTrack, Path,
         Protocol, Shape, TypeOK
<1>8. NothingLeftRunning'
  BY DEF NothingLeftRunning, Lifecycle, Shape, TypeOK
<1> QED
  BY <1>1, <1>2, <1>3, <1>4, <1>5, <1>6, <1>7, <1>8

\* main: the supervisor or pytest ends.
LEMMA MainKeeps ==
  ASSUME IInv, main
  PROVE  IInv'
<1> USE CasesAssumption, AttemptsAssumption, FaultsAssumption
    DEF IInv, main, Exit, insideVars, pipeVars, dockerVars, CaseAnswers
<1>1. TypeOK'
  BY DEF TypeOK, Shape, Protocol, Path
<1>2. Shape'
  BY DEF Shape, TypeOK
<1>3. Path'
  BY DEF Path, Shape, TypeOK
<1>4. Lifecycle'
  BY DEF Lifecycle, Shape, TypeOK
<1>5. Protocol'
  BY DEF Protocol, Path, Shape, TypeOK
<1>6. Evidence'
  BY DEF Evidence, OnTrack, Lifecycle, Path, Protocol, Shape, TypeOK
<1>7. VerdictIsJustified'
  BY DEF VerdictIsJustified, ReportIsComplete, OomOnlyFromEvidence, Evidence, OnTrack, Path,
         Protocol, Shape, TypeOK
<1>8. NothingLeftRunning'
  BY DEF NothingLeftRunning, Lifecycle, Shape, TypeOK
<1> QED
  BY <1>1, <1>2, <1>3, <1>4, <1>5, <1>6, <1>7, <1>8

\* shutdown: the supervisor answers and ends.
LEMMA ShutdownKeeps ==
  ASSUME IInv, shutdown
  PROVE  IInv'
<1> USE CasesAssumption, AttemptsAssumption, FaultsAssumption
    DEF IInv, shutdown, Exit, insideVars, dockerVars, CaseAnswers
<1>1. TypeOK'
  BY DEF TypeOK, Shape, Protocol, Path
<1>2. Shape'
  BY DEF Shape, TypeOK
<1>3. Path'
  BY DEF Path, Shape, TypeOK
<1>4. Lifecycle'
  BY DEF Lifecycle, Shape, TypeOK
<1>5. Protocol'
  BY DEF Protocol, Path, Shape, TypeOK
<1>6. Evidence'
  BY DEF Evidence, OnTrack, Lifecycle, Path, Protocol, Shape, TypeOK
<1>7. VerdictIsJustified'
  BY DEF VerdictIsJustified, ReportIsComplete, OomOnlyFromEvidence, Evidence, OnTrack, Path,
         Protocol, Shape, TypeOK
<1>8. NothingLeftRunning'
  BY DEF NothingLeftRunning, Lifecycle, Shape, TypeOK
<1> QED
  BY <1>1, <1>2, <1>3, <1>4, <1>5, <1>6, <1>7, <1>8

\* run_case: a case is answered.
LEMMA RunCaseKeeps ==
  ASSUME IInv, NEW a \in CaseAnswers, run_case(a)
  PROVE  IInv'
<1> USE CasesAssumption, AttemptsAssumption, FaultsAssumption
    DEF IInv, run_case, insideVars, dockerVars, CaseAnswers
<1>1. TypeOK'
  BY DEF TypeOK, Shape, Protocol, Path
<1>2. Shape'
  BY DEF Shape, TypeOK
<1>3. Path'
  BY DEF Path, Shape, TypeOK
<1>4. Lifecycle'
  BY DEF Lifecycle, Shape, TypeOK
<1>5. Protocol'
  BY DEF Protocol, Path, Shape, TypeOK
<1>6. Evidence'
  BY DEF Evidence, OnTrack, Lifecycle, Path, Protocol, Shape, TypeOK
<1>7. VerdictIsJustified'
  BY DEF VerdictIsJustified, ReportIsComplete, OomOnlyFromEvidence, Evidence, OnTrack, Path,
         Protocol, Shape, TypeOK
<1>8. NothingLeftRunning'
  BY DEF NothingLeftRunning, Lifecycle, Shape, TypeOK
<1> QED
  BY <1>1, <1>2, <1>3, <1>4, <1>5, <1>6, <1>7, <1>8

LEMMA StutterKeeps == ASSUME IInv, UNCHANGED vars PROVE IInv'
BY DEF IInv, TypeOK, Shape, Path, Lifecycle, Protocol, OnTrack, Evidence, VerdictIsJustified,
       ReportIsComplete, OomOnlyFromEvidence, NothingLeftRunning, vars, runnerVars, dockerVars,
       pipeVars

LEMMA NextIInv == IInv /\ [Next]_vars => IInv'
<1> SUFFICES ASSUME IInv, [Next]_vars PROVE IInv'
  OBVIOUS
<1>1. CASE Runner
  BY <1>1, CheckCapabilityKeeps, CreateKeeps, KillKeeps, RemoveKeeps, StartKeeps, RequestKeeps,
     ReadLineKeeps, WaitKeeps, TimeoutKeeps, TerminateKeeps, InspectKeeps, HasOomEventKeeps
     DEF Runner
<1>2. CASE Environment
  BY <1>2, DaemonCatchesUpKeeps, CliExitsKeeps, PublishOomEventKeeps, OutOfMemoryKeeps, MainKeeps,
     ShutdownKeeps, RunCaseKeeps, CancelKeeps
     DEF Environment
<1>3. CASE UNCHANGED vars
  BY <1>3, StutterKeeps
<1> QED
  BY <1>1, <1>2, <1>3 DEF Next

LEMMA AlwaysIInv == Spec => []IInv
<1> QED
  BY InitIInv, NextIInv, PTL DEF Spec

-----------------------------------------------------------------------------
(***************************************************************************)
(* The theorems.                                                           *)
(***************************************************************************)

\* Every variable keeps its type: attempts and answered cases stay within their
\* limits whatever fails.
THEOREM TypeCorrect == Spec => []TypeOK
<1>1. IInv => TypeOK
  BY DEF IInv
<1> QED
  BY <1>1, AlwaysIInv, PTL

\* DockerPythonRunner.evaluate: tests are counted only of a complete protocol whose
\* supervisor was not killed for memory, in a container that Docker does not call out of
\* memory, and oom_killed is said only of one in which memory did run out.
THEOREM VerdictsAreJustified == Spec => []VerdictIsJustified
<1>1. IInv => VerdictIsJustified
  BY DEF IInv
<1> QED
  BY <1>1, AlwaysIInv, PTL

\* DockerPythonRunner.evaluate: once it has returned and docker rm did not fail,
\* nothing of the evaluation runs, not even after late requests of killed commands.
THEOREM NothingIsLeftRunning == Spec => []NothingLeftRunning
<1>1. IInv => NothingLeftRunning
  BY DEF IInv
<1> QED
  BY <1>1, AlwaysIInv, PTL

-----------------------------------------------------------------------------
(***************************************************************************)
(* The identity of the sandbox image.                                      *)
(*                                                                         *)
(* complete records what the process of the job has cached at that moment, *)
(* long after validate compared it.  The result carries the identity of    *)
(* the job because a cached identity is replaced only by a restart, which  *)
(* takes the jobs of the process along: Confirmed says so of every running *)
(* job, and Located and Known are what makes it inductive.                 *)
(***************************************************************************)

\* A job is with an API while it is submitted, with a worker while it is
\* validated and run, and with nobody otherwise.
Located ==
    \A j \in Jobs :
        /\ progress[j] = "submitting" => at[j] \in Apis
        /\ progress[j] \in {"validating", "running"} => at[j] \in Workers
        /\ progress[j] \notin {"submitting", "validating", "running"} => at[j] = NoProcess
        /\ step[j] = "out" <=> at[j] = NoProcess

\* Who has left snapshot finds an identity in its process.
Known == \A j \in Jobs : step[j] = "known" => cached[at[j]] # Unset

\* A job that was stored was stored with an identity.
Accepted ==
    \A j \in Jobs :
        progress[j] \in {"queued", "validating", "running", "completed", "failed"}
            => expected[j] # Unset

\* While a job runs, its process still holds the identity it compared.
Confirmed ==
    \A j \in Jobs : progress[j] = "running" =>
        step[j] = "known" /\ cached[at[j]] = expected[j]

IdentityInv ==
    /\ IdentityTypeOK
    /\ Located
    /\ Known
    /\ Accepted
    /\ Confirmed
    /\ CompletedAsAccepted

-----------------------------------------------------------------------------

LEMMA InitIdentityInv == IdentityInit => IdentityInv
BY ProcessAssumption
DEF IdentityInit, IdentityInv, IdentityTypeOK, Located, Known, Accepted, Confirmed, CompletedAsAccepted,
    Processes, Identities

\* submit: a request enters an API.
LEMMA SubmitKeeps ==
    ASSUME IdentityInv, NEW j \in Jobs, submit(j)
    PROVE  IdentityInv'
<1> USE DEF submit, Begin, jobVars, budget
<1>1. IdentityTypeOK'
    BY ProcessAssumption DEF IdentityInv, IdentityTypeOK, Located, Processes, Identities
<1>2. Located'
    BY ProcessAssumption DEF IdentityInv, IdentityTypeOK, Located, Processes
<1>3. Known'
    BY ProcessAssumption DEF IdentityInv, IdentityTypeOK, Located, Known, Processes, Identities
<1>4. Accepted'
    BY ProcessAssumption DEF IdentityInv, IdentityTypeOK, Located, Known, Accepted
<1>5. Confirmed'
    BY ProcessAssumption DEF IdentityInv, IdentityTypeOK, Located, Known, Confirmed, Processes
<1>6. CompletedAsAccepted'
    BY ProcessAssumption DEF IdentityInv, IdentityTypeOK, Accepted, Confirmed, CompletedAsAccepted
<1> QED
    BY <1>1, <1>2, <1>3, <1>4, <1>5, <1>6 DEF IdentityInv

\* claim: a worker takes a queued job.
LEMMA ClaimKeeps ==
    ASSUME IdentityInv, NEW j \in Jobs, claim(j)
    PROVE  IdentityInv'
<1> USE DEF claim, Begin, jobVars, budget
<1>1. IdentityTypeOK'
    BY ProcessAssumption DEF IdentityInv, IdentityTypeOK, Located, Processes, Identities
<1>2. Located'
    BY ProcessAssumption DEF IdentityInv, IdentityTypeOK, Located, Processes
<1>3. Known'
    BY ProcessAssumption DEF IdentityInv, IdentityTypeOK, Located, Known, Processes, Identities
<1>4. Accepted'
    BY ProcessAssumption DEF IdentityInv, IdentityTypeOK, Located, Known, Accepted
<1>5. Confirmed'
    BY ProcessAssumption DEF IdentityInv, IdentityTypeOK, Located, Known, Confirmed, Processes
<1>6. CompletedAsAccepted'
    BY ProcessAssumption DEF IdentityInv, IdentityTypeOK, Accepted, Confirmed, CompletedAsAccepted
<1> QED
    BY <1>1, <1>2, <1>3, <1>4, <1>5, <1>6 DEF IdentityInv

\* look: the first look at the cache, without the lock.
LEMMA LookKeeps ==
    ASSUME IdentityInv, NEW j \in Jobs, look(j)
    PROVE  IdentityInv'
<1> USE DEF look, Step, jobVars, budget
<1>1. IdentityTypeOK'
    BY ProcessAssumption DEF IdentityInv, IdentityTypeOK, Located, Processes, Identities
<1>2. Located'
    BY ProcessAssumption DEF IdentityInv, IdentityTypeOK, Located, Processes
<1>3. Known'
    BY ProcessAssumption DEF IdentityInv, IdentityTypeOK, Located, Known, Processes, Identities
<1>4. Accepted'
    BY ProcessAssumption DEF IdentityInv, IdentityTypeOK, Located, Known, Accepted
<1>5. Confirmed'
    BY ProcessAssumption DEF IdentityInv, IdentityTypeOK, Located, Known, Confirmed, Processes
<1>6. CompletedAsAccepted'
    BY ProcessAssumption DEF IdentityInv, IdentityTypeOK, Accepted, Confirmed, CompletedAsAccepted
<1> QED
    BY <1>1, <1>2, <1>3, <1>4, <1>5, <1>6 DEF IdentityInv

\* acquire: the lock is taken when nobody of the process holds it.
LEMMA AcquireKeeps ==
    ASSUME IdentityInv, NEW j \in Jobs, acquire(j)
    PROVE  IdentityInv'
<1> USE DEF acquire, Step, Holder, jobVars, budget
<1>1. IdentityTypeOK'
    BY ProcessAssumption DEF IdentityInv, IdentityTypeOK, Located, Processes, Identities
<1>2. Located'
    BY ProcessAssumption DEF IdentityInv, IdentityTypeOK, Located, Processes
<1>3. Known'
    BY ProcessAssumption DEF IdentityInv, IdentityTypeOK, Located, Known, Processes, Identities
<1>4. Accepted'
    BY ProcessAssumption DEF IdentityInv, IdentityTypeOK, Located, Known, Accepted
<1>5. Confirmed'
    BY ProcessAssumption DEF IdentityInv, IdentityTypeOK, Located, Known, Confirmed, Processes
<1>6. CompletedAsAccepted'
    BY ProcessAssumption DEF IdentityInv, IdentityTypeOK, Accepted, Confirmed, CompletedAsAccepted
<1> QED
    BY <1>1, <1>2, <1>3, <1>4, <1>5, <1>6 DEF IdentityInv

\* snapshot: the second look, and the only place that fills the cache.
LEMMA SnapshotKeeps ==
    ASSUME IdentityInv, NEW j \in Jobs, snapshot(j)
    PROVE  IdentityInv'
<1> USE DEF snapshot, Step, collect, jobVars, budget
<1>1. IdentityTypeOK'
    BY ProcessAssumption DEF IdentityInv, IdentityTypeOK, Located, Processes, Identities
<1>2. Located'
    BY ProcessAssumption DEF IdentityInv, IdentityTypeOK, Located, Processes
<1>3. Known'
    BY ProcessAssumption DEF IdentityInv, IdentityTypeOK, Located, Known, Processes, Identities
<1>4. Accepted'
    BY ProcessAssumption DEF IdentityInv, IdentityTypeOK, Located, Known, Accepted
<1>5. Confirmed'
    BY ProcessAssumption DEF IdentityInv, IdentityTypeOK, Located, Known, Confirmed, Processes
<1>6. CompletedAsAccepted'
    BY ProcessAssumption DEF IdentityInv, IdentityTypeOK, Accepted, Confirmed, CompletedAsAccepted
<1> QED
    BY <1>1, <1>2, <1>3, <1>4, <1>5, <1>6 DEF IdentityInv

\* create: the API stores the job.
LEMMA StoreJobKeeps ==
    ASSUME IdentityInv, NEW j \in Jobs, store_job(j)
    PROVE  IdentityInv'
<1> USE DEF store_job, Leave, Step, jobVars, budget
<1>1. IdentityTypeOK'
    BY ProcessAssumption DEF IdentityInv, IdentityTypeOK, Located, Processes, Identities
<1>2. Located'
    BY ProcessAssumption DEF IdentityInv, IdentityTypeOK, Located, Processes
<1>3. Known'
    BY ProcessAssumption DEF IdentityInv, IdentityTypeOK, Located, Known, Processes, Identities
<1>4. Accepted'
    BY ProcessAssumption DEF IdentityInv, IdentityTypeOK, Located, Known, Accepted
<1>5. Confirmed'
    BY ProcessAssumption DEF IdentityInv, IdentityTypeOK, Located, Known, Confirmed, Processes
<1>6. CompletedAsAccepted'
    BY ProcessAssumption DEF IdentityInv, IdentityTypeOK, Accepted, Confirmed, CompletedAsAccepted
<1> QED
    BY <1>1, <1>2, <1>3, <1>4, <1>5, <1>6 DEF IdentityInv

\* validate_fails: drift ends the job.
LEMMA ValidateFailsKeeps ==
    ASSUME IdentityInv, NEW j \in Jobs, validate_fails(j)
    PROVE  IdentityInv'
<1> USE DEF validate_fails, Leave, Step, Matches, jobVars, budget
<1>1. IdentityTypeOK'
    BY ProcessAssumption DEF IdentityInv, IdentityTypeOK, Located, Processes, Identities
<1>2. Located'
    BY ProcessAssumption DEF IdentityInv, IdentityTypeOK, Located, Processes
<1>3. Known'
    BY ProcessAssumption DEF IdentityInv, IdentityTypeOK, Located, Known, Processes, Identities
<1>4. Accepted'
    BY ProcessAssumption DEF IdentityInv, IdentityTypeOK, Located, Known, Accepted
<1>5. Confirmed'
    BY ProcessAssumption DEF IdentityInv, IdentityTypeOK, Located, Known, Confirmed, Processes
<1>6. CompletedAsAccepted'
    BY ProcessAssumption DEF IdentityInv, IdentityTypeOK, Accepted, Confirmed, CompletedAsAccepted
<1> QED
    BY <1>1, <1>2, <1>3, <1>4, <1>5, <1>6 DEF IdentityInv

\* run: the comparison that Confirmed keeps.
LEMMA RunKeeps ==
    ASSUME IdentityInv, NEW j \in Jobs, run(j)
    PROVE  IdentityInv'
<1> USE DEF run, Matches, jobVars, budget
<1>1. IdentityTypeOK'
    BY ProcessAssumption DEF IdentityInv, IdentityTypeOK, Located, Processes, Identities
<1>2. Located'
    BY ProcessAssumption DEF IdentityInv, IdentityTypeOK, Located, Processes
<1>3. Known'
    BY ProcessAssumption DEF IdentityInv, IdentityTypeOK, Located, Known, Processes, Identities
<1>4. Accepted'
    BY ProcessAssumption DEF IdentityInv, IdentityTypeOK, Located, Known, Accepted
<1>5. Confirmed'
    BY ProcessAssumption DEF IdentityInv, IdentityTypeOK, Located, Known, Confirmed, Processes
<1>6. CompletedAsAccepted'
    BY ProcessAssumption DEF IdentityInv, IdentityTypeOK, Accepted, Confirmed, CompletedAsAccepted
<1> QED
    BY <1>1, <1>2, <1>3, <1>4, <1>5, <1>6 DEF IdentityInv

\* complete: the identity is read again and stored.
LEMMA CompleteKeeps ==
    ASSUME IdentityInv, NEW j \in Jobs, complete(j)
    PROVE  IdentityInv'
<1> USE DEF complete, Leave, Step, jobVars, budget
<1>1. IdentityTypeOK'
    BY ProcessAssumption DEF IdentityInv, IdentityTypeOK, Located, Processes, Identities
<1>2. Located'
    BY ProcessAssumption DEF IdentityInv, IdentityTypeOK, Located, Processes
<1>3. Known'
    BY ProcessAssumption DEF IdentityInv, IdentityTypeOK, Located, Known, Processes, Identities
<1>4. Accepted'
    BY ProcessAssumption DEF IdentityInv, IdentityTypeOK, Located, Known, Accepted
<1>5. Confirmed'
    BY ProcessAssumption DEF IdentityInv, IdentityTypeOK, Located, Known, Confirmed, Processes
<1>6. CompletedAsAccepted'
    BY ProcessAssumption DEF IdentityInv, IdentityTypeOK, Accepted, Confirmed, CompletedAsAccepted
<1> QED
    BY <1>1, <1>2, <1>3, <1>4, <1>5, <1>6 DEF IdentityInv

\* retry: the job goes back to the queue.
LEMMA RetryKeeps ==
    ASSUME IdentityInv, NEW j \in Jobs, retry(j)
    PROVE  IdentityInv'
<1> USE DEF retry, Leave, Step, jobVars, budget
<1>1. IdentityTypeOK'
    BY ProcessAssumption DEF IdentityInv, IdentityTypeOK, Located, Processes, Identities
<1>2. Located'
    BY ProcessAssumption DEF IdentityInv, IdentityTypeOK, Located, Processes
<1>3. Known'
    BY ProcessAssumption DEF IdentityInv, IdentityTypeOK, Located, Known, Processes, Identities
<1>4. Accepted'
    BY ProcessAssumption DEF IdentityInv, IdentityTypeOK, Located, Known, Accepted
<1>5. Confirmed'
    BY ProcessAssumption DEF IdentityInv, IdentityTypeOK, Located, Known, Confirmed, Processes
<1>6. CompletedAsAccepted'
    BY ProcessAssumption DEF IdentityInv, IdentityTypeOK, Accepted, Confirmed, CompletedAsAccepted
<1> QED
    BY <1>1, <1>2, <1>3, <1>4, <1>5, <1>6 DEF IdentityInv

\* Rebuild: the tag moves, and no process notices.
LEMMA RebuildKeeps ==
    ASSUME IdentityInv, Rebuild
    PROVE  IdentityInv'
<1> USE DEF Rebuild, jobVars, budget
<1>1. IdentityTypeOK'
    BY ProcessAssumption DEF IdentityInv, IdentityTypeOK, Located, Processes, Identities
<1>2. Located'
    BY ProcessAssumption DEF IdentityInv, IdentityTypeOK, Located, Processes
<1>3. Known'
    BY ProcessAssumption DEF IdentityInv, IdentityTypeOK, Located, Known, Processes, Identities
<1>4. Accepted'
    BY ProcessAssumption DEF IdentityInv, IdentityTypeOK, Located, Known, Accepted
<1>5. Confirmed'
    BY ProcessAssumption DEF IdentityInv, IdentityTypeOK, Located, Known, Confirmed, Processes
<1>6. CompletedAsAccepted'
    BY ProcessAssumption DEF IdentityInv, IdentityTypeOK, Accepted, Confirmed, CompletedAsAccepted
<1> QED
    BY <1>1, <1>2, <1>3, <1>4, <1>5, <1>6 DEF IdentityInv

\* Restart: the cache is lost together with the jobs of the process.
LEMMA RestartKeeps ==
    ASSUME IdentityInv, NEW p \in Processes, Restart(p)
    PROVE  IdentityInv'
<1> USE DEF Restart, jobVars, budget
<1>1. IdentityTypeOK'
    BY ProcessAssumption DEF IdentityInv, IdentityTypeOK, Located, Processes, Identities
<1>2. Located'
    BY ProcessAssumption DEF IdentityInv, IdentityTypeOK, Located, Processes
<1>3. Known'
    BY ProcessAssumption DEF IdentityInv, IdentityTypeOK, Located, Known, Processes, Identities
<1>4. Accepted'
    BY ProcessAssumption DEF IdentityInv, IdentityTypeOK, Located, Known, Accepted
<1>5. Confirmed'
    BY ProcessAssumption DEF IdentityInv, IdentityTypeOK, Located, Known, Confirmed, Processes
<1>6. CompletedAsAccepted'
    BY ProcessAssumption DEF IdentityInv, IdentityTypeOK, Accepted, Confirmed, CompletedAsAccepted
<1> QED
    BY <1>1, <1>2, <1>3, <1>4, <1>5, <1>6 DEF IdentityInv

LEMMA ProcessesStutterKeeps == ASSUME IdentityInv, UNCHANGED identityVars PROVE IdentityInv'
BY DEF IdentityInv, IdentityTypeOK, Located, Known, Accepted, Confirmed, CompletedAsAccepted, identityVars, jobVars,
       budget

LEMMA NextIdentityInv == IdentityInv /\ [IdentityNext]_identityVars => IdentityInv'
<1> SUFFICES ASSUME IdentityInv, [IdentityNext]_identityVars PROVE IdentityInv'
    OBVIOUS
<1>1. ASSUME NEW j \in Jobs,
             \/ submit(j) \/ claim(j) \/ look(j) \/ acquire(j) \/ snapshot(j)
             \/ store_job(j) \/ validate_fails(j) \/ run(j) \/ complete(j) \/ retry(j)
      PROVE  IdentityInv'
    BY <1>1, SubmitKeeps, ClaimKeeps, LookKeeps, AcquireKeeps, SnapshotKeeps, StoreJobKeeps,
       ValidateFailsKeeps, RunKeeps, CompleteKeeps, RetryKeeps
<1>2. CASE Rebuild
    BY <1>2, RebuildKeeps
<1>3. ASSUME NEW p \in Processes, Restart(p) PROVE IdentityInv'
    BY <1>3, RestartKeeps
<1>4. CASE UNCHANGED identityVars
    BY <1>4, ProcessesStutterKeeps
<1> QED
    BY <1>1, <1>2, <1>3, <1>4 DEF IdentityNext

LEMMA AlwaysIdentityInv == IdentitySpec => []IdentityInv
<1> QED
    BY InitIdentityInv, NextIdentityInv, PTL DEF IdentitySpec

-----------------------------------------------------------------------------
(***************************************************************************)
(* The theorems.                                                           *)
(***************************************************************************)

\* Every variable keeps its type, and the asyncio lock of a process, which acquire
\* takes and snapshot gives back, has one holder.
THEOREM IdentityTypeCorrect == IdentitySpec => []IdentityTypeOK
<1>1. IdentityInv => IdentityTypeOK
    BY DEF IdentityInv
<1> QED
    BY <1>1, AlwaysIdentityInv, PTL

\* evaluate_snapshot: a stored result carries the identity its job was accepted
\* with, whatever was rebuilt, failed or restarted in between.
THEOREM ResultsAreCompletedAsAccepted == IdentitySpec => []CompletedAsAccepted
<1>1. IdentityInv => CompletedAsAccepted
    BY DEF IdentityInv
<1> QED
    BY <1>1, AlwaysIdentityInv, PTL

\* ExecutionMetadataCollector.snapshot: what a process has once answered it answers
\* until it ends, however many first requests come together.
THEOREM IdentitiesAreStable == IdentitySpec => IdentityIsStable
<1>1. ASSUME IdentityInv, [IdentityNext]_identityVars
      PROVE  [\A p \in Processes : cached[p] # Unset => cached'[p] \in {cached[p], Unset}]_identityVars
    <2> SUFFICES ASSUME NEW p \in Processes, cached[p] # Unset
                 PROVE  cached'[p] \in {cached[p], Unset}
        OBVIOUS
    <2>1. cached \in [Processes -> Identities \cup {Unset}]
        BY <1>1 DEF IdentityInv, IdentityTypeOK
    <2>2. ASSUME NEW j \in Jobs, snapshot(j) PROVE cached'[p] = cached[p]
        BY <2>1, <2>2 DEF snapshot, collect
    <2>3. ASSUME NEW q \in Processes, Restart(q) PROVE cached'[p] \in {cached[p], Unset}
        BY <2>1, <2>3 DEF Restart
    <2>4. ASSUME NEW j \in Jobs,
                 \/ submit(j) \/ claim(j) \/ look(j) \/ acquire(j) \/ store_job(j)
                 \/ validate_fails(j) \/ run(j) \/ complete(j) \/ retry(j)
          PROVE  cached' = cached
        BY <2>4 DEF submit, claim, Begin, look, acquire, store_job, validate_fails, run, complete,
                    retry
    <2>5. Rebuild \/ UNCHANGED identityVars => cached' = cached
        BY DEF Rebuild, identityVars
    <2> QED
        BY <1>1, <2>2, <2>3, <2>4, <2>5 DEF IdentityNext
<1> QED
    BY <1>1, AlwaysIdentityInv, PTL DEF IdentitySpec, IdentityIsStable

-----------------------------------------------------------------------------
(***************************************************************************)
(* What runs inside the container (SandboxTests), for any official cases   *)
(* and whatever the candidate is.  HostOK says where the harness, the      *)
(* supervisor and the candidate are with respect to each other: one        *)
(* process and pipe per case, whose number is the number of the case.      *)
(* LogOK ties what was counted to what was read from the pipes.            *)
(***************************************************************************)

Serving == {"write", "read", "shutdown", "shutdown_startup", "wait", "wait_startup"}

HostOK ==
  /\ test.task \in DOMAIN OFFICIAL_CASES /\ case \in 1..Len(TaskCases) /\ serial \in 0..case
  /\ host \in {"send", "read", "done"} /\ (verdict = "none" <=> host # "done")
  /\ host = "send" => sup = "idle" /\ response = NoAnswer /\ serial = case - 1
  /\ host = "read" /\ response # NoAnswer => sup = "idle"
  /\ sup \in Serving \cup {"start"} => host = "read" /\ response = NoAnswer
  /\ sup = "start" => serial = case - 1
  /\ sup \in Serving => serial = case
  /\ cand = "alive" => sup \in Serving

\* The answers to the current case are at hand.
Current == sup \in Serving \/ (host = "read" /\ response.type = "outcomes")

Judged == IF verdict = "report" THEN case ELSE case - 1

LogOK ==
  /\ \A c \in DOMAIN log : c \in 1..serial /\ log[c].pipes = {c}
  /\ \A c \in 1..Judged : c \in DOMAIN log
  /\ passed = Cardinality({c \in 1..Judged : log[c].right})
  /\ verdict = "report" => case = Len(TaskCases)
  /\ Current => /\ outcomes \in Seq(Range(outcomes))
                /\ case \in DOMAIN log <=> outcomes # <<>>
                /\ case \in DOMAIN log =>
                     (log[case].right <=> \A n \in 1..Len(outcomes) : matches(Steps[n], outcomes[n]))
  /\ host = "read" /\ response.type = "outcomes" => serial = case /\ response.outcomes = outcomes

TestsInv == test.kind = "official" => HostOK /\ LogOK

LEMMA TheCases ==
  ASSUME HostOK
  PROVE  /\ Len(TaskCases) \in Nat \ {0} /\ DOMAIN TaskCases = 1..Len(TaskCases)
         /\ Len(Steps) \in Nat \ {0} /\ DOMAIN Steps = 1..Len(Steps)
         /\ case \in Nat \ {0} /\ case <= Len(TaskCases) /\ serial \in Nat
<1>1. PICK t : t = test.task
  OBVIOUS
<1>2. t \in DOMAIN OFFICIAL_CASES /\ TaskCases = OFFICIAL_CASES[t]
  BY <1>1 DEF HostOK, TaskCases
<1>3. /\ Len(TaskCases) \in Nat \ {0} /\ DOMAIN TaskCases = 1..Len(TaskCases)
      /\ \A c \in DOMAIN TaskCases : /\ Len(TaskCases[c]) \in Nat \ {0}
                                     /\ DOMAIN TaskCases[c] = 1..Len(TaskCases[c])
  BY <1>2, OfficialCasesAssumption
<1>4. case \in 1..Len(TaskCases) /\ serial \in 0..case
  BY DEF HostOK
<1>5. case \in Nat \ {0} /\ case <= Len(TaskCases) /\ serial \in Nat
  BY <1>3, <1>4
<1>6. Len(Steps) \in Nat \ {0} /\ DOMAIN Steps = 1..Len(Steps)
  BY <1>3, <1>4 DEF Steps
<1> QED
  BY <1>3, <1>5, <1>6

LEMMA TestsInitInv == TestsInit => TestsInv
<1> SUFFICES ASSUME TestsInit, test.kind = "official" PROVE HostOK /\ LogOK
  BY DEF TestsInv
<1>1. OfficialInit
  <2>1. ASSUME GeneratedInit PROVE test.kind = "generated"
    <3>1. PICK t : test = [kind |-> "generated", task |-> t, candidate |-> "reference"]
      BY <2>1, Zenon DEF GeneratedInit
    <3> QED
      BY <3>1
  <2> QED
    BY <2>1 DEF TestsInit
<1>2. /\ test.task \in DOMAIN OFFICIAL_CASES /\ host = "send" /\ sup = "idle" /\ log = EmptyDict
      /\ verdict = "none" /\ case = 1 /\ passed = 0 /\ response = NoAnswer /\ cand = "none" /\ serial = 0
  BY <1>1 DEF OfficialInit, TestsInit
<1>3. Len(TaskCases) \in Nat \ {0}
  BY <1>2, OfficialCasesAssumption DEF TaskCases
<1>4. 1 \in 1..Len(TaskCases)
  BY <1>3
<1>5. HostOK
  BY <1>2, <1>4 DEF HostOK, Serving
<1>6. LogOK
  <2>1. DOMAIN log = {}
    BY <1>2 DEF EmptyDict
  <2>2. Judged = 0
    BY <1>2 DEF Judged
  <2>3. {c \in 1..Judged : log[c].right} = {}
    BY <2>2
  <2>4. Cardinality({}) = 0
    BY FS_EmptySet
  <2>5. ~Current /\ response.type = "none"
    BY <1>2 DEF Current, Serving, NoAnswer, Answer
  <2> QED
    BY <1>2, <2>1, <2>2, <2>3, <2>4, <2>5 DEF LogOK
<1> QED
  BY <1>5, <1>6

\* Steps that the harness and the supervisor do not see.
LEMMA UnseenKeepsTests ==
  ASSUME TestsInv, UNCHANGED <<test, host, verdict, case, passed, sup, outcomes, response, serial, log>>,
         cand' \in {cand, "exited", "none"}
  PROVE  TestsInv'
<1> SUFFICES ASSUME test.kind = "official" PROVE HostOK' /\ LogOK'
  BY DEF TestsInv
<1>1. HostOK /\ LogOK
  BY DEF TestsInv
<1>2. TaskCases' = TaskCases /\ Steps' = Steps /\ Judged' = Judged /\ Current' = Current
  BY DEF TaskCases, Steps, Judged, Current
<1>3. HostOK'
  BY <1>1, <1>2 DEF HostOK
<1>4. LogOK'
  BY <1>1, <1>2 DEF LogOK
<1> QED
  BY <1>3, <1>4

LEMMA SendCaseKeepsTests ==
  ASSUME TestsInv, send_case
  PROVE  TestsInv'
<1> SUFFICES ASSUME test.kind = "official" PROVE HostOK' /\ LogOK'
  BY DEF TestsInv, send_case
<1>1. HostOK /\ LogOK
  BY DEF TestsInv
<1>2. /\ host = "send" /\ sup = "idle" /\ host' = "read" /\ sup' = "start"
      /\ UNCHANGED <<test, verdict, case, passed, outcomes, response, cand, serial, log>>
  BY DEF send_case, candVars
<1>3. response = NoAnswer /\ serial = case - 1 /\ cand # "alive" /\ response.type = "none"
  BY <1>1, <1>2 DEF HostOK, Serving, NoAnswer, Answer
<1>4. TaskCases' = TaskCases /\ Judged' = Judged /\ ~Current'
  BY <1>2, <1>3 DEF TaskCases, Judged, Current, Serving
<1>5. HostOK'
  BY <1>1, <1>2, <1>3, <1>4 DEF HostOK, Serving
<1>6. LogOK'
  BY <1>1, <1>2, <1>3, <1>4 DEF LogOK
<1> QED
  BY <1>5, <1>6

LEMMA TimeoutKeepsTests ==
  ASSUME TestsInv, HostTimeout
  PROVE  TestsInv'
<1> SUFFICES ASSUME test.kind = "official" PROVE HostOK' /\ LogOK'
  BY DEF TestsInv, HostTimeout
<1>1. HostOK /\ LogOK
  BY DEF TestsInv
<1>2. /\ host \in {"send", "read"} /\ host' = "done" /\ verdict' = "timed_out" /\ sup' = "killed" /\ cand' = "none"
      /\ UNCHANGED <<test, case, passed, outcomes, response, serial, log>>
  BY DEF HostTimeout, EndEvaluation
<1>3. verdict = "none"
  BY <1>1, <1>2 DEF HostOK
<1>4. TaskCases' = TaskCases /\ Judged' = Judged /\ ~Current'
  BY <1>2, <1>3 DEF TaskCases, Judged, Current, Serving
<1>5. HostOK'
  BY <1>1, <1>2, <1>4 DEF HostOK, Serving
<1>6. LogOK'
  BY <1>1, <1>2, <1>4 DEF LogOK
<1> QED
  BY <1>5, <1>6

LEMMA RunCaseKeepsTests ==
  ASSUME TestsInv, _run_case
  PROVE  TestsInv'
<1> SUFFICES ASSUME test.kind = "official" PROVE HostOK' /\ LogOK'
  BY DEF TestsInv, _run_case
<1>1. HostOK /\ LogOK
  BY DEF TestsInv
<1>2. sup = "start" /\ UNCHANGED <<test, host, verdict, case, passed, log>>
  BY DEF _run_case, hostVars
<1>3. /\ serial = case - 1 /\ host = "read" /\ response = NoAnswer /\ response.type = "none" /\ cand # "alive"
  BY <1>1, <1>2 DEF HostOK, Serving, NoAnswer, Answer
<1>4. TaskCases' = TaskCases /\ Judged' = Judged /\ Steps' = Steps
  BY <1>2 DEF TaskCases, Judged, Steps
<1>5. case \in Nat \ {0} /\ serial \in Nat
  BY <1>1, TheCases
<1>6. case \notin DOMAIN log
  <2>1. case \notin 1..serial
    BY <1>3, <1>5
  <2> QED
    BY <1>1, <2>1 DEF LogOK
<1>7. CASE /\ sup' = "write" /\ outcomes' = <<>> /\ serial' = serial + 1 /\ response' = response
  <2>1. serial' = case /\ serial' \in 0..case
    BY <1>3, <1>5, <1>7
  <2>2. HostOK'
    BY <1>1, <1>2, <1>3, <1>4, <1>7, <2>1 DEF HostOK, Serving
  <2>3. \A c \in DOMAIN log : c \in 1..serial'
    BY <1>1, <1>5, <1>7 DEF LogOK
  <2>4. outcomes' \in Seq(Range(outcomes'))
    BY <1>7 DEF Range
  <2>5. LogOK'
    BY <1>1, <1>2, <1>3, <1>4, <1>6, <1>7, <2>3, <2>4 DEF LogOK
  <2> QED
    BY <2>2, <2>5
<1>8. CASE /\ sup' = "idle" /\ response' = Answer("protocol_error", <<>>) /\ UNCHANGED <<outcomes, serial, cand>>
  <2>1. response'.type = "protocol_error" /\ ~Current'
    BY <1>8 DEF Answer, Current, Serving
  <2>2. HostOK'
    BY <1>1, <1>2, <1>3, <1>4, <1>8 DEF HostOK, Serving
  <2>3. LogOK'
    BY <1>1, <1>2, <1>4, <1>8, <2>1 DEF LogOK
  <2> QED
    BY <2>2, <2>3
<1> QED
  BY <1>7, <1>8 DEF _run_case, Respond, candVars

\* The steps of the supervisor that bring no answer.
LEMMA WriteKeepsTests ==
  ASSUME TestsInv, write_step \/ send_shutdown
  PROVE  TestsInv'
<1> SUFFICES ASSUME test.kind = "official" PROVE HostOK' /\ LogOK'
  BY DEF TestsInv, write_step, send_shutdown
<1>1. HostOK /\ LogOK
  BY DEF TestsInv
<1>2. /\ sup \in Serving
      /\ sup' \in Serving \/ (sup' = "crashed" /\ cand = "exited")
      /\ UNCHANGED <<test, host, verdict, case, passed, outcomes, response, cand, serial, log>>
  BY DEF write_step, send_shutdown, Serving, hostVars
<1>3. serial = case /\ host = "read" /\ response = NoAnswer /\ response.type = "none"
  BY <1>1, <1>2 DEF HostOK, Serving, NoAnswer, Answer
<1>4. TaskCases' = TaskCases /\ Judged' = Judged /\ Steps' = Steps /\ Current
  BY <1>2 DEF TaskCases, Judged, Steps, Current
<1>5. HostOK'
  BY <1>1, <1>2, <1>3, <1>4 DEF HostOK, Serving
<1>6. LogOK'
  BY <1>1, <1>2, <1>3, <1>4 DEF LogOK
<1> QED
  BY <1>5, <1>6

LEMMA WaitKeepsTests ==
  ASSUME TestsInv, wait_candidate
  PROVE  TestsInv'
<1> SUFFICES ASSUME test.kind = "official" PROVE HostOK' /\ LogOK'
  BY DEF TestsInv, wait_candidate
<1>1. HostOK /\ LogOK
  BY DEF TestsInv
<1>2. /\ sup \in Serving /\ sup' = "idle" /\ cand' = "none"
      /\ \/ response' = Answer("outcomes", outcomes)
         \/ response' = Answer("startup_error", <<>>)
      /\ UNCHANGED <<test, host, verdict, case, passed, outcomes, serial, log>>
  BY DEF wait_candidate, Serving, hostVars, Respond
<1>3. serial = case /\ host = "read"
  BY <1>1, <1>2 DEF HostOK, Serving
<1>4. TaskCases' = TaskCases /\ Judged' = Judged /\ Steps' = Steps /\ Current
  BY <1>2 DEF TaskCases, Judged, Steps, Current
<1>5. HostOK'
  BY <1>1, <1>2, <1>3, <1>4 DEF HostOK, Serving
<1>6. response'.type = "outcomes" => response'.outcomes = outcomes
  BY <1>2 DEF Answer
<1>7. LogOK'
  BY <1>1, <1>2, <1>3, <1>4, <1>6 DEF LogOK
<1> QED
  BY <1>5, <1>7

LEMMA ReadKeepsTests ==
  ASSUME TestsInv, read_step
  PROVE  TestsInv'
<1> SUFFICES ASSUME test.kind = "official" PROVE HostOK' /\ LogOK'
  BY DEF TestsInv, read_step
<1>1. HostOK /\ LogOK
  BY DEF TestsInv
<1>2. sup = "read" /\ UNCHANGED <<test, host, verdict, case, passed, serial>>
  BY DEF read_step, hostVars
<1>3. PICK l : Read(l)
  BY DEF read_step
<1>4. serial = case /\ host = "read" /\ response = NoAnswer /\ response.type = "none" /\ verdict = "none"
  BY <1>1, <1>2 DEF HostOK, Serving, NoAnswer, Answer
<1>5. TaskCases' = TaskCases /\ Judged' = Judged /\ Steps' = Steps /\ Current
  BY <1>2 DEF TaskCases, Judged, Steps, Current, Serving
<1>6. case \in Nat \ {0} /\ serial \in Nat /\ Len(Steps) \in Nat
  BY <1>1, TheCases
<1>7. /\ outcomes \in Seq(Range(outcomes))
      /\ case \in DOMAIN log <=> outcomes # <<>>
      /\ case \in DOMAIN log =>
           (log[case].right <=> \A n \in 1..Len(outcomes) : matches(Steps[n], outcomes[n]))
  BY <1>1, <1>5 DEF LogOK
<1>8. CASE l.type = "outcome"
  <2>1. PICK x, seen_before, fits : /\ x = l.outcome /\ seen_before = Lookup(log, case, Nobody)
                                    /\ fits = matches(Steps[Len(outcomes) + 1], x)
    OBVIOUS
  <2>2. /\ outcomes' = Append(outcomes, x)
        /\ log' = With(log, case, [pipes |-> seen_before.pipes \cup {serial},
                                   right |-> seen_before.right /\ fits])
        /\ sup' \in {"shutdown", "write"} /\ UNCHANGED <<response, cand>>
    BY <1>3, <1>8, <2>1 DEF Read
  <2>3. HostOK'
    BY <1>1, <1>2, <1>4, <1>5, <2>2 DEF HostOK, Serving
  <2>4. /\ DOMAIN log' = DOMAIN log \cup {case}
        /\ \A c \in DOMAIN log \ {case} : log'[c] = log[c]
        /\ log'[case].pipes = seen_before.pipes \cup {serial}
        /\ log'[case].right <=> seen_before.right /\ fits
    BY <2>2 DEF With
  <2>5. log'[case].pipes = {case}
    <3>1. CASE case \in DOMAIN log
      BY <1>1, <1>4, <2>1, <2>4, <3>1 DEF Lookup, LogOK
    <3>2. CASE case \notin DOMAIN log
      BY <1>4, <2>1, <2>4, <3>2 DEF Lookup, Nobody
    <3> QED
      BY <3>1, <3>2
  <2>6. \A c \in DOMAIN log' : c \in 1..serial' /\ log'[c].pipes = {c}
    <3>1. case \in 1..serial'
      BY <1>2, <1>4, <1>6
    <3> QED
      BY <1>1, <1>2, <2>4, <2>5, <3>1 DEF LogOK
  <2>7. Judged = case - 1 /\ case \notin 1..(case - 1)
    BY <1>4, <1>6 DEF Judged
  <2>8. \A c \in 1..Judged : c \in DOMAIN log' /\ log'[c] = log[c]
    BY <1>1, <2>4, <2>7 DEF LogOK
  <2>9. {c \in 1..Judged' : log'[c].right} = {c \in 1..Judged : log[c].right}
    BY <1>5, <2>8
  <2>10. /\ outcomes' \in Seq(Range(outcomes')) /\ outcomes' # <<>>
         /\ Len(outcomes) \in Nat /\ Len(outcomes') = Len(outcomes) + 1
         /\ outcomes'[Len(outcomes) + 1] = x /\ \A n \in 1..Len(outcomes) : outcomes'[n] = outcomes[n]
    <3>1. PICK R, m : R = Range(outcomes) /\ m = Len(outcomes)
      OBVIOUS
    <3>2. outcomes \in Seq(R) /\ m \in Nat
      BY <1>7, <3>1
    <3>3. outcomes \in Seq(R \cup {x})
      BY <3>2
    <3>4. /\ outcomes' \in Seq(R \cup {x}) /\ Len(outcomes') = m + 1
          /\ outcomes'[m + 1] = x /\ \A n \in 1..m : outcomes'[n] = outcomes[n]
      BY <2>2, <3>1, <3>3
    <3>5. outcomes' \in Seq(Range(outcomes'))
      BY <3>4 DEF Range
    <3> QED
      BY <3>1, <3>2, <3>4, <3>5
  <2>11. (\A n \in 1..Len(outcomes') : matches(Steps[n], outcomes'[n]))
           <=> /\ \A n \in 1..Len(outcomes) : matches(Steps[n], outcomes[n])
               /\ fits
    <3>1. 1..Len(outcomes') = 1..Len(outcomes) \cup {Len(outcomes) + 1}
      BY <2>10
    <3> QED
      BY <2>1, <2>10, <3>1
  <2>12. log'[case].right <=> \A n \in 1..Len(outcomes') : matches(Steps[n], outcomes'[n])
    <3>1. CASE case \in DOMAIN log
      BY <1>7, <2>1, <2>4, <2>11, <3>1 DEF Lookup
    <3>2. CASE case \notin DOMAIN log
      <4>1. Len(outcomes) = 0 /\ seen_before.right
        BY <1>7, <2>1, <3>2 DEF Lookup, Nobody
      <4>2. \A n \in 1..Len(outcomes) : matches(Steps[n], outcomes[n])
        BY <4>1
      <4> QED
        BY <2>4, <2>11, <4>1, <4>2
    <3> QED
      BY <3>1, <3>2
  <2>13. LogOK'
    BY <1>1, <1>2, <1>4, <1>5, <2>2, <2>4, <2>6, <2>8, <2>9, <2>10, <2>12 DEF LogOK
  <2> QED
    BY <2>3, <2>13
<1>9. CASE l.type # "outcome" /\ sup' \in {"shutdown", "shutdown_startup"} /\ UNCHANGED <<outcomes, response, cand, log>>
  <2>1. HostOK'
    BY <1>1, <1>2, <1>4, <1>5, <1>9 DEF HostOK, Serving
  <2>2. LogOK'
    BY <1>1, <1>2, <1>4, <1>5, <1>7, <1>9 DEF LogOK
  <2> QED
    BY <2>1, <2>2
<1>10. CASE /\ l.type # "outcome" /\ sup' = "idle" /\ cand' = "none"
            /\ response' = Answer("protocol_error", <<>>) /\ UNCHANGED <<outcomes, log>>
  <2>1. response'.type = "protocol_error" /\ ~Current'
    BY <1>10 DEF Answer, Current, Serving
  <2>2. HostOK'
    BY <1>1, <1>2, <1>4, <1>5, <1>10 DEF HostOK, Serving
  <2>3. LogOK'
    BY <1>1, <1>2, <1>5, <1>10, <2>1 DEF LogOK
  <2> QED
    BY <2>2, <2>3
<1> QED
  BY <1>3, <1>8, <1>9, <1>10 DEF Read, Abort, Respond

LEMMA EvaluateKeepsTests ==
  ASSUME TestsInv, evaluate
  PROVE  TestsInv'
<1> SUFFICES ASSUME test.kind = "official" PROVE HostOK' /\ LogOK'
  BY DEF TestsInv, evaluate
<1>1. HostOK /\ LogOK
  BY DEF TestsInv
<1>2. /\ host = "read" /\ (response # NoAnswer \/ sup = "crashed")
      /\ response' = NoAnswer /\ UNCHANGED <<test, sup, outcomes, serial, cand, log>>
  BY DEF evaluate, candVars
<1>3. verdict = "none" /\ sup \notin Serving \cup {"start"} /\ cand # "alive" /\ response'.type = "none"
  BY <1>1, <1>2 DEF HostOK, Serving, NoAnswer, Answer
<1>4. /\ Len(TaskCases) \in Nat \ {0} /\ DOMAIN TaskCases = 1..Len(TaskCases)
      /\ Len(Steps) \in Nat \ {0} /\ DOMAIN Steps = 1..Len(Steps)
      /\ case \in Nat \ {0} /\ case <= Len(TaskCases) /\ serial \in Nat
  BY <1>1, TheCases
<1>5. TaskCases' = TaskCases /\ Judged = case - 1 /\ ~Current'
  BY <1>2, <1>3 DEF TaskCases, Judged, Current
<1>6. CASE response.type = "outcomes" /\ Len(response.outcomes) = Len(Steps)
  <2>1. sup = "idle" /\ serial = case /\ response.outcomes = outcomes /\ Current
    BY <1>1, <1>2, <1>6 DEF HostOK, LogOK, NoAnswer, Answer, Current
  <2>2. case \in DOMAIN log
    <3>1. Len(outcomes) # 0
      BY <1>4, <1>6, <2>1
    <3>2. outcomes # <<>>
      BY <3>1
    <3> QED
      BY <1>1, <2>1, <3>2 DEF LogOK
  <2>3. log[case].right <=> AllMatch(response.outcomes)
    BY <1>1, <1>4, <1>6, <2>1, <2>2 DEF LogOK, AllMatch
  <2>4. PICK before, after : /\ before = {c \in 1..Judged : log[c].right}
                             /\ after = {c \in 1..case : log[c].right}
    OBVIOUS
  <2>5. 1..case = 1..Judged \cup {case} /\ case \notin 1..Judged
    BY <1>4, <1>5
  <2>6. IsFiniteSet(before) /\ case \notin before
    <3>1. 1 \in Int /\ Judged \in Int
      BY <1>4, <1>5
    <3>2. IsFiniteSet(1..Judged)
      BY <3>1, FS_Interval
    <3> QED
      BY <2>4, <2>5, <3>2, FS_Subset
  <2>7. Cardinality(after) = passed + IF AllMatch(response.outcomes) THEN 1 ELSE 0
    <3>1. passed = Cardinality(before) /\ passed \in Nat
      BY <1>1, <2>4, <2>6, FS_CardinalityType DEF LogOK
    <3>2. CASE AllMatch(response.outcomes)
      <4>1. after = before \cup {case}
        BY <2>3, <2>4, <2>5, <3>2
      <4>2. Cardinality(after) = Cardinality(before) + 1
        BY <2>6, <4>1, FS_AddElement
      <4> QED
        BY <3>1, <3>2, <4>2
    <3>3. CASE ~AllMatch(response.outcomes)
      <4>1. after = before
        BY <2>3, <2>4, <2>5, <3>3
      <4> QED
        BY <3>1, <3>3, <4>1
    <3> QED
      BY <3>2, <3>3
  <2>8. /\ passed' = Cardinality(after)
        /\ \/ case = Len(TaskCases) /\ host' = "done" /\ verdict' = "report" /\ case' = case
           \/ case # Len(TaskCases) /\ host' = "send" /\ verdict' = verdict /\ case' = case + 1
    BY <1>6, <2>7 DEF evaluate, EndEvaluation
  <2>9. PICK size, k : size = Len(TaskCases) /\ k = case
    OBVIOUS
  <2>10. size \in Int /\ k \in Int /\ k >= 1 /\ k <= size /\ k + 1 - 1 = k /\ 0 <= k
    BY <1>4, <2>9
  <2>11. /\ Judged' = case /\ case' \in 1..Len(TaskCases) /\ serial \in 0..case'
         /\ host' = "send" => serial = case' - 1
    <3>1. CASE k = size /\ host' = "done" /\ verdict' = "report" /\ case' = k
      BY <2>1, <2>9, <2>10, <3>1 DEF Judged
    <3>2. CASE k # size /\ verdict' = verdict /\ case' = k + 1
      BY <1>3, <2>1, <2>9, <2>10, <3>2 DEF Judged
    <3> QED
      BY <2>8, <2>9, <3>1, <3>2
  <2>12. HostOK'
    BY <1>1, <1>2, <1>3, <1>5, <2>1, <2>8, <2>11 DEF HostOK, Serving
  <2>13. \A c \in 1..Judged' : c \in DOMAIN log'
    BY <1>1, <1>2, <2>2, <2>5, <2>11 DEF LogOK
  <2>14. passed' = Cardinality({c \in 1..Judged' : log'[c].right})
    BY <1>2, <2>4, <2>8, <2>11
  <2>15. LogOK'
    BY <1>1, <1>2, <1>3, <1>5, <2>8, <2>13, <2>14 DEF LogOK
  <2> QED
    BY <2>12, <2>15
<1>7. CASE ~(response.type = "outcomes" /\ Len(response.outcomes) = Len(Steps))
  <2>1. /\ host' = "done" /\ verdict' \in {"startup_error", "protocol_error"}
        /\ UNCHANGED <<case, passed>>
    BY <1>7 DEF evaluate, EndEvaluation
  <2>2. Judged' = Judged
    BY <1>3, <2>1 DEF Judged
  <2>3. HostOK'
    BY <1>1, <1>2, <1>3, <1>5, <2>1 DEF HostOK, Serving
  <2>4. LogOK'
    BY <1>1, <1>2, <1>3, <1>5, <2>1, <2>2 DEF LogOK
  <2> QED
    BY <2>3, <2>4
<1> QED
  BY <1>6, <1>7

LEMMA GeneratedKeepsTests ==
  ASSUME TestsInv, Generated
  PROVE  TestsInv'
<1>1. test' = test
  BY DEF Generated, worker_ends, cancel_batch, test_allow, test_call, test_reset, test_feed, decode,
         test_finish, resolve, generatedOnly
<1>2. test.kind = "generated"
  BY DEF Generated, worker_ends, cancel_batch, test_allow, test_call, test_reset, test_feed, decode,
         test_finish, resolve, Generating
<1> QED
  BY <1>1, <1>2 DEF TestsInv

LEMMA TestsStep == TestsInv /\ [TestsNext]_testsVars => TestsInv'
<1> SUFFICES ASSUME TestsInv, [TestsNext]_testsVars PROVE TestsInv'
  OBVIOUS
<1>1. CASE Candidate \/ run_callback \/ UNCHANGED testsVars
  <2>1. UNCHANGED <<test, host, verdict, case, passed, sup, outcomes, response, serial, log>>
    BY <1>1 DEF Candidate, _step, start_batch, end_batch, refuse_step, answer_anything, exit, fork,
              descendants_end, run_callback,
                testsVars, officialVars, hostVars, supVars, candVars
  <2>2. cand' \in {cand, "exited", "none"}
    BY <1>1 DEF Candidate, _step, start_batch, end_batch, refuse_step, answer_anything, exit, fork,
              descendants_end, run_callback,
                testsVars, officialVars, candVars
  <2> QED
    BY <2>1, <2>2, UnseenKeepsTests
<1>2. CASE Supervisor
  BY <1>2, RunCaseKeepsTests, WriteKeepsTests, ReadKeepsTests, WaitKeepsTests DEF Supervisor
<1>3. CASE send_case \/ evaluate \/ HostTimeout
  BY <1>3, SendCaseKeepsTests, EvaluateKeepsTests, TimeoutKeepsTests
<1> QED
  BY <1>1, <1>2, <1>3, GeneratedKeepsTests DEF TestsNext

LEMMA EarnedFollows == TestsInv => ReportIsEarned
<1> SUFFICES ASSUME TestsInv, test.kind = "official"
             PROVE  /\ verdict = "report" => passed = Cardinality({c \in DOMAIN TaskCases : log[c].right})
                    /\ \A c \in DOMAIN log : log[c].pipes = {c}
                    /\ host # "read" => cand # "alive"
  BY DEF ReportIsEarned
<1>1. HostOK /\ LogOK
  BY DEF TestsInv
<1>2. DOMAIN TaskCases = 1..Len(TaskCases)
  BY <1>1, TheCases
<1>3. verdict = "report" => Judged = Len(TaskCases)
  BY <1>1 DEF LogOK, Judged
<1>4. verdict = "report" => passed = Cardinality({c \in DOMAIN TaskCases : log[c].right})
  <2> SUFFICES ASSUME verdict = "report"
               PROVE  passed = Cardinality({c \in DOMAIN TaskCases : log[c].right})
    OBVIOUS
  <2>1. DOMAIN TaskCases = 1..Judged
    BY <1>2, <1>3
  <2> QED
    BY <1>1, <2>1 DEF LogOK
<1>5. \A c \in DOMAIN log : log[c].pipes = {c}
  BY <1>1 DEF LogOK
<1>6. host # "read" => cand # "alive"
  BY <1>1 DEF HostOK
<1> QED
  BY <1>4, <1>5, <1>6

\* _run_case, evaluate: for any official cases, and whatever the candidate and the
\* processes it forks write to the protocol and whenever they end, a case is counted
\* exactly when each of its steps was answered as expected through the pipe that was made
\* for that case, and between two cases no process that was started for one runs.
THEOREM ReportsAreEarned == TestsSpec => []ReportIsEarned
<1>1. TestsInit => TestsInv
  BY TestsInitInv
<1>2. TestsInv /\ [TestsNext]_testsVars => TestsInv'
  BY TestsStep
<1>3. TestsInv => ReportIsEarned
  BY EarnedFollows
<1> QED
  BY <1>1, <1>2, <1>3, PTL DEF TestsSpec

-----------------------------------------------------------------------------
(***************************************************************************)
(* The two oracles that depend on a clock, under any calls.  What a        *)
(* limiter keeps of a key are the times of the calls it allowed in the     *)
(* window that ended with its latest call; what a breaker keeps is the     *)
(* length of the streak of failures, or the time of the last of them.      *)
(***************************************************************************)

\* Nothing of the official harness runs along with generated tests.
Quiet == host = "none" /\ sup = "none" /\ cand = "none" /\ descendants = FALSE

Asked == [key : Limited, now : Int, answer : {"True", "False", "ValueError"}]

Taken(l, k) == {m \in 1..Len(l) : l[m].key = k /\ l[m].answer # "ValueError"}
InWindow(l, k, after) == {m \in 1..Len(l) : l[m].key = k /\ l[m].answer = "True" /\ l[m].now > after}

\* The elements of e are the times of the calls in S.
TimesOf(e, S, l) ==
  \E f \in [1..Len(e) -> S] :
    /\ \A i, j \in 1..Len(e) : f[i] = f[j] => i = j
    /\ \A i \in 1..Len(e) : l[f[i]].now = e[i]
    /\ \A m \in S : \E i \in 1..Len(e) : f[i] = m

\* What is kept of a key: the times e, of which the latest call was at t.
Watch(e, t, limit, window, l, k) ==
  /\ e \in Seq(Int) /\ Len(e) <= limit /\ t \in Int
  /\ \A i, j \in 1..Len(e) : i <= j => e[i] <= e[j]
  /\ \A m \in Taken(l, k) : l[m].now <= t
  /\ TimesOf(e, InWindow(l, k, t - window), l)

ExactAt(l, n, limit, window) ==
  LET earlier == {m \in 1..(n - 1) : l[m].key = l[n].key}
      allowed == {m \in earlier : l[m].answer = "True" /\ l[m].now > l[n].now - window}
      later == {m \in earlier : l[m].answer # "ValueError" /\ l[m].now > l[n].now}
  IN /\ l[n].answer = "ValueError" <=> later # {}
     /\ l[n].answer = "False" => Cardinality(allowed) = limit
     /\ l[n].answer = "True" => Cardinality(allowed) < limit

LimiterOK ==
  /\ log \in Seq(Asked)
  /\ o.limit \in Nat \ {0} /\ o.window \in Nat \ {0}
  /\ o = [class |-> "limiter", limit |-> o.limit, window |-> o.window, events |-> o.events, last_call |-> o.last_call]
  /\ DOMAIN o.events = DOMAIN o.last_call
  /\ \A k \in Limited :
       IF k \in DOMAIN o.last_call
       THEN /\ Watch(o.events[k], o.last_call[k], o.limit, o.window, log, k)
            /\ \E m \in Taken(log, k) : log[m].now = o.last_call[k]
       ELSE Taken(log, k) = {}
  /\ \A n \in 1..Len(log) : ExactAt(log, n, o.limit, o.window)

Called == [kind : {"return", "raise", "interrupt", "reset"}, now : Int,
           answer : {"ok", "RuntimeError", "KeyboardInterrupt", "CircuitOpenError", "ValueError", "None"}]

RunsOf(l, n) ==
  {m \in 1..(n - 1) : /\ l[m].answer \in {"ok", "RuntimeError"}
                      /\ \A k \in m..(n - 1) : l[k].kind # "reset"}
StreakOf(l, n) == {m \in RunsOf(l, n) : \A k \in RunsOf(l, n) : k >= m => l[k].answer = "RuntimeError"}

RefusedAt(l, n, threshold, recovery) ==
  l[n].kind # "reset" /\ l[n].answer # "ValueError" =>
    (l[n].answer = "CircuitOpenError" <=>
       /\ Cardinality(StreakOf(l, n)) >= threshold
       /\ l[n].now < l[Max(StreakOf(l, n))].now + recovery)

\* What is kept of the calls l: the state and the times.
Remembers(x, l) ==
  LET streak == StreakOf(l, Len(l) + 1)
  IN /\ x.state = "closed" => x.failure_count = Cardinality(streak) /\ Cardinality(streak) < x.threshold
     /\ x.state # "closed" => /\ Cardinality(streak) >= x.threshold
                              /\ x.opened_at = l[Max(streak)].now
     /\ x.state = "half_open" => x.last_now >= x.opened_at + x.recovery_timeout

BreakerOK ==
  /\ log \in Seq(Called)
  /\ o \in [class : {"breaker"}, threshold : Nat \ {0}, recovery_timeout : Nat \ {0},
            state : {"closed", "open", "half_open"}, failure_count : Nat, opened_at : Int, last_now : Int]
  /\ Remembers(o, log)
  /\ \A n \in 1..Len(log) : RefusedAt(log, n, o.threshold, o.recovery_timeout)

OraclesInv ==
  test.kind = "generated" =>
    /\ Quiet
    /\ test.task = "rate-limiter" => LimiterOK
    /\ test.task = "circuit-breaker" => BreakerOK

LEMMA SizeOfTimes ==
  ASSUME NEW e, NEW S, NEW l, Len(e) \in Nat, TimesOf(e, S, l)
  PROVE  IsFiniteSet(S) /\ Cardinality(S) = Len(e)
<1>1. PICK f \in [1..Len(e) -> S] :
        /\ \A i, j \in 1..Len(e) : f[i] = f[j] => i = j
        /\ \A m \in S : \E i \in 1..Len(e) : f[i] = m
  BY DEF TimesOf
<1>2. f \in Bijection(1..Len(e), S)
  BY <1>1 DEF Bijection, Injection, Surjection, IsInjective
<1>3. ExistsBijection(1..Len(e), S)
  BY <1>2 DEF ExistsBijection
<1>4. 1 \in Int /\ Len(e) \in Int
  OBVIOUS
<1>5. IsFiniteSet(1..Len(e)) /\ Cardinality(1..Len(e)) = Len(e)
  BY <1>4, FS_Interval
<1> QED
  BY <1>3, <1>5, FS_Bijection

LEMMA PrunedIs ==
  ASSUME NEW e \in Seq(Int), \A i, j \in 1..Len(e) : i <= j => e[i] <= e[j], NEW bound \in Int
  PROVE  \E c \in 0..Len(e) : /\ Pruned(e, bound) = SubSeq(e, c + 1, Len(e))
                              /\ \A i \in 1..Len(e) : e[i] <= bound <=> i <= c
<1> DEFINE old == {n \in DOMAIN e : \A m \in 1..n : e[m] <= bound}
<1>1. PICK size : size = Len(e)
  OBVIOUS
<1>2. size \in Nat /\ DOMAIN e = 1..size /\ \A i \in 1..size : e[i] \in Int
  BY <1>1
<1>3. old = {n \in 1..size : e[n] <= bound}
  <2>1. ASSUME NEW n \in 1..size, e[n] <= bound, NEW m \in 1..n PROVE e[m] <= bound
    <3>1. m \in 1..size /\ m <= n /\ e[m] \in Int /\ e[n] \in Int
      BY <1>2, <2>1
    <3>2. e[m] <= e[n]
      BY <1>1, <2>1, <3>1
    <3> QED
      BY <2>1, <3>1, <3>2
  <2>2. ASSUME NEW n \in 1..size, \A m \in 1..n : e[m] <= bound PROVE e[n] <= bound
    BY <1>2, <2>2
  <2> QED
    BY <1>2, <2>1, <2>2
<1>4. PICK c \in 0..size : old = 1..c
  <2>1. CASE old = {}
    <3>1. 0 \in 0..size /\ 1..0 = {}
      BY <1>2
    <3> QED
      BY <2>1, <3>1
  <2>2. CASE old # {}
    <3>1. old \in SUBSET Nat /\ \A x \in old : x <= size
      BY <1>2, <1>3
    <3>2. PICK x \in old : \A y \in old : y <= x
      BY <1>2, <2>2, <3>1, GreatestExists
    <3>3. x \in 1..size /\ e[x] <= bound
      BY <1>3, <3>2
    <3>4. ASSUME NEW y \in 1..x PROVE y \in old
      <4>1. y \in 1..size /\ y <= x /\ e[y] \in Int /\ e[x] \in Int
        BY <1>2, <3>3, <3>4
      <4>2. e[y] <= e[x]
        BY <1>1, <3>3, <4>1
      <4> QED
        BY <1>3, <3>3, <4>1, <4>2
    <3>5. \A y \in old : y \in 1..x
      BY <1>3, <3>2, <3>1, <3>3
    <3>6. old = 1..x /\ x \in 0..size
      BY <3>3, <3>4, <3>5
    <3> QED
      BY <3>6
  <2> QED
    BY <2>1, <2>2
<1>5. Cardinality(old) = c
  <2>1. 1 \in Int /\ c \in Int /\ c >= 0
    BY <1>2, <1>4
  <2>2. Cardinality(1..c) = c
    BY <2>1, FS_Interval
  <2> QED
    BY <1>4, <2>2
<1>6. Pruned(e, bound) = SubSeq(e, c + 1, size)
  BY <1>1, <1>5 DEF Pruned
<1>7. \A i \in 1..size : e[i] <= bound <=> i <= c
  <2>1. \A i \in 1..size : e[i] <= bound <=> i \in old
    BY <1>3
  <2> HIDE DEF old
  <2>2. \A i \in 1..size : i \in 1..c <=> i <= c
    BY <1>4
  <2> QED
    BY <1>4, <2>1, <2>2
<1> QED
  BY <1>1, <1>4, <1>6, <1>7

LEMMA PrunedTimes ==
  ASSUME NEW l \in Seq(Asked), NEW k, NEW e, NEW t, NEW limit \in Nat, NEW window \in Int,
         Watch(e, t, limit, window, l, k), NEW now \in Int, t <= now
  PROVE  LET live == Pruned(e, now - window)
         IN /\ live \in Seq(Int) /\ Len(live) <= limit
            /\ \A i, j \in 1..Len(live) : i <= j => live[i] <= live[j]
            /\ \A i \in 1..Len(live) : live[i] <= now
            /\ TimesOf(live, InWindow(l, k, now - window), l)
<1> DEFINE live == Pruned(e, now - window)
           W == InWindow(l, k, now - window)
<1>1. PICK size : size = Len(e)
  OBVIOUS
<1>2. /\ e \in Seq(Int) /\ size \in Nat /\ size <= limit /\ t \in Int
      /\ \A i \in 1..size : e[i] \in Int
      /\ \A i, j \in 1..size : i <= j => e[i] <= e[j]
      /\ \A m \in Taken(l, k) : l[m].now <= t
  BY <1>1 DEF Watch
<1>3. PICK f \in [1..size -> InWindow(l, k, t - window)] :
        /\ \A i, j \in 1..size : f[i] = f[j] => i = j
        /\ \A i \in 1..size : l[f[i]].now = e[i]
        /\ \A m \in InWindow(l, k, t - window) : \E i \in 1..size : f[i] = m
  BY <1>1 DEF Watch, TimesOf
<1>4. now - window \in Int
  OBVIOUS
<1>5. PICK c \in 0..size : /\ live = SubSeq(e, c + 1, size)
                           /\ \A i \in 1..size : e[i] <= now - window <=> i <= c
  BY <1>1, <1>2, <1>4, PrunedIs
<1> HIDE DEF live
<1>6. /\ live \in Seq(Int) /\ Len(live) = size - c /\ Len(live) <= limit
      /\ \A i \in 1..Len(live) : live[i] = e[i + c] /\ i + c \in 1..size
  <2>1. c + 1 \in Nat /\ c \in Nat
    BY <1>2
  <2>2. live \in Seq(Int)
    BY <1>2, <1>1, <1>5, <2>1
  <2>3. Len(live) = size - c
    BY <1>2, <1>1, <1>5, <2>1
  <2>4. \A i \in 1..Len(live) : live[i] = e[i + c] /\ i + c \in 1..size
    BY <1>2, <1>1, <1>5, <2>1, <2>3
  <2> QED
    BY <1>2, <2>1, <2>2, <2>3, <2>4
<1>7. \A i, j \in 1..Len(live) : i <= j => live[i] <= live[j]
  <2> SUFFICES ASSUME NEW i \in 1..Len(live), NEW j \in 1..Len(live), i <= j PROVE live[i] <= live[j]
    OBVIOUS
  <2>1. i + c \in 1..size /\ j + c \in 1..size /\ live[i] = e[i + c] /\ live[j] = e[j + c]
    BY <1>6
  <2>2. i + c <= j + c
    BY <1>5
  <2> QED
    BY <1>2, <2>1, <2>2
<1>8. \A m \in 1..Len(l) : l[m] \in Asked /\ l[m].now \in Int
  <2>1. \A m \in 1..Len(l) : l[m] \in Asked
    OBVIOUS
  <2> QED
    BY <2>1 DEF Asked
<1>9. ASSUME NEW i \in 1..size
      PROVE  f[i] \in 1..Len(l) /\ l[f[i]].key = k /\ l[f[i]].answer = "True" /\ l[f[i]].now = e[i]
  BY <1>3, <1>9 DEF InWindow
<1>10. \A i \in 1..Len(live) : live[i] <= now
  <2> SUFFICES ASSUME NEW i \in 1..Len(live) PROVE live[i] <= now
    OBVIOUS
  <2>1. i + c \in 1..size /\ live[i] = e[i + c] /\ e[i + c] \in Int
    BY <1>2, <1>6
  <2>2. f[i + c] \in Taken(l, k)
    BY <1>9, <2>1 DEF Taken
  <2>3. e[i + c] <= t
    BY <1>2, <1>9, <2>1, <2>2
  <2>4. t \in Int
    BY <1>2
  <2> QED
    BY <2>1, <2>3, <2>4
<1>11. PICK len : len = Len(live) /\ len \in Nat
  BY <1>6
<1> DEFINE g == [i \in 1..len |-> f[i + c]]
<1>12. g \in [1..len -> W]
  <2>1. ASSUME NEW i \in 1..len PROVE f[i + c] \in W
    <3>1. i + c \in 1..size /\ ~(i + c <= c) /\ e[i + c] \in Int
      BY <1>2, <1>6, <1>11
    <3>2. e[i + c] > now - window
      BY <1>4, <1>5, <3>1
    <3> QED
      BY <1>9, <3>1, <3>2 DEF InWindow
  <2> QED
    BY <2>1
<1>13. \A i, j \in 1..len : g[i] = g[j] => i = j
  <2> SUFFICES ASSUME NEW i \in 1..len, NEW j \in 1..len, f[i + c] = f[j + c] PROVE i = j
    OBVIOUS
  <2>1. i + c \in 1..size /\ j + c \in 1..size
    BY <1>6, <1>11
  <2>2. i + c = j + c
    BY <1>3, <2>1
  <2> QED
    BY <2>2, <1>5
<1>14. \A i \in 1..len : l[g[i]].now = live[i]
  BY <1>3, <1>6, <1>11
<1>15. ASSUME NEW m \in W PROVE \E i \in 1..len : g[i] = m
  <2>1. m \in 1..Len(l) /\ l[m].key = k /\ l[m].answer = "True" /\ l[m].now > now - window /\ l[m].now \in Int
    BY <1>8 DEF InWindow
  <2>2. m \in InWindow(l, k, t - window)
    BY <1>2, <2>1 DEF InWindow
  <2>3. PICK i \in 1..size : f[i] = m
    BY <1>3, <2>2
  <2>4. e[i] > now - window /\ e[i] \in Int
    BY <1>3, <2>1, <2>3
  <2>5. ~(i <= c)
    BY <1>4, <1>5, <2>4
  <2>6. i - c \in 1..len /\ (i - c) + c = i
    BY <1>5, <1>6, <1>11, <2>5
  <2> QED
    BY <2>3, <2>6
<1>16. TimesOf(live, W, l)
  <2> HIDE DEF g, W
  <2> QED
    BY <1>11, <1>12, <1>13, <1>14, <1>15 DEF TimesOf
<1> QED
  BY <1>6, <1>7, <1>10, <1>16 DEF live

LEMMA OneMore ==
  ASSUME NEW S, NEW l \in Seq(S), NEW x \in S
  PROVE  LET l2 == Append(l, x)
         IN /\ l2 \in Seq(S) /\ Len(l) \in Nat /\ Len(l2) = Len(l) + 1
            /\ l2[Len(l) + 1] = x
            /\ \A m \in 1..Len(l) : l2[m] = l[m] /\ m \in 1..Len(l2)
            /\ 1..Len(l2) = 1..Len(l) \cup {Len(l) + 1} /\ Len(l) + 1 \notin 1..Len(l)
OBVIOUS

\* A call of another key, and one that was an error, leave what is kept of a key.
LEMMA WatchOther ==
  ASSUME NEW l \in Seq(Asked), NEW x \in Asked, NEW k, x.key # k \/ x.answer = "ValueError"
  PROVE  /\ Taken(Append(l, x), k) = Taken(l, k)
         /\ \A m \in Taken(l, k) : Append(l, x)[m] = l[m]
         /\ \A e, t, limit, window : Watch(e, t, limit, window, l, k) => Watch(e, t, limit, window, Append(l, x), k)
<1>1. PICK l2, n : l2 = Append(l, x) /\ n = Len(l)
  OBVIOUS
<1>2. /\ n \in Nat /\ Len(l2) = n + 1 /\ l2[n + 1] = x /\ \A m \in 1..n : l2[m] = l[m]
      /\ 1..Len(l2) = 1..n \cup {n + 1} /\ n + 1 \notin 1..n
  BY <1>1, OneMore
<1>3. Taken(l2, k) = Taken(l, k) /\ \A m \in Taken(l, k) : l2[m] = l[m]
  BY <1>1, <1>2 DEF Taken
<1>4. \A after : InWindow(l2, k, after) = InWindow(l, k, after) /\ InWindow(l, k, after) \subseteq 1..n
  BY <1>1, <1>2 DEF InWindow
<1>5. ASSUME NEW e, NEW S \in SUBSET (1..n), TimesOf(e, S, l) PROVE TimesOf(e, S, l2)
  <2>1. PICK f \in [1..Len(e) -> S] : /\ \A i, j \in 1..Len(e) : f[i] = f[j] => i = j
                                      /\ \A i \in 1..Len(e) : l[f[i]].now = e[i]
                                      /\ \A m \in S : \E i \in 1..Len(e) : f[i] = m
    BY <1>5 DEF TimesOf
  <2>2. \A i \in 1..Len(e) : l2[f[i]].now = e[i]
    BY <1>2, <2>1
  <2> QED
    BY <2>1, <2>2 DEF TimesOf
<1>6. ASSUME NEW e, NEW t, NEW limit, NEW window, Watch(e, t, limit, window, l, k)
      PROVE  Watch(e, t, limit, window, l2, k)
  <2>1. TimesOf(e, InWindow(l, k, t - window), l)
    BY <1>6 DEF Watch
  <2>2. TimesOf(e, InWindow(l2, k, t - window), l2)
    BY <1>4, <1>5, <2>1
  <2>3. \A m \in Taken(l2, k) : l2[m].now <= t
    BY <1>3, <1>6 DEF Watch
  <2> QED
    BY <1>6, <2>2, <2>3 DEF Watch
<1> QED
  BY <1>1, <1>3, <1>6

\* allow at a time that is not before the latest one.
LEMMA WatchAllow ==
  ASSUME NEW l \in Seq(Asked), NEW k \in Limited, NEW e, NEW t, NEW limit \in Nat, NEW window \in Nat \ {0},
         Watch(e, t, limit, window, l, k), NEW now \in Int, t <= now,
         NEW live, live = Pruned(e, now - window), NEW said, NEW kept,
         \/ Len(live) >= limit /\ said = "False" /\ kept = live
         \/ Len(live) < limit /\ said = "True" /\ kept = Append(live, now)
  PROVE  LET x == [key |-> k, now |-> now, answer |-> said]
         IN Watch(kept, now, limit, window, Append(l, x), k)
<1>1. PICK x, l2, n : x = [key |-> k, now |-> now, answer |-> said] /\ l2 = Append(l, x) /\ n = Len(l)
  OBVIOUS
<1>2. x \in Asked /\ x.key = k /\ x.now = now /\ x.answer = said
  BY <1>1 DEF Asked
<1>3. /\ n \in Nat /\ Len(l2) = n + 1 /\ l2[n + 1] = x /\ \A m \in 1..n : l2[m] = l[m]
      /\ 1..Len(l2) = 1..n \cup {n + 1} /\ n + 1 \notin 1..n
  BY <1>1, <1>2, OneMore
<1>4. /\ live \in Seq(Int) /\ Len(live) <= limit
      /\ \A i, j \in 1..Len(live) : i <= j => live[i] <= live[j]
      /\ \A i \in 1..Len(live) : live[i] <= now
      /\ TimesOf(live, InWindow(l, k, now - window), l)
  <2>1. window \in Int
    OBVIOUS
  <2> QED
    BY <2>1, PrunedTimes
<1>5. \A m \in Taken(l2, k) : l2[m].now <= now
  <2> SUFFICES ASSUME NEW m \in Taken(l2, k) PROVE l2[m].now <= now
    OBVIOUS
  <2>1. CASE m = n + 1
    BY <1>2, <1>3, <2>1
  <2>2. CASE m \in 1..n
    <3>1. m \in Taken(l, k) /\ l2[m] = l[m]
      BY <1>1, <1>3, <2>2 DEF Taken
    <3>2. l[m].now <= t /\ t \in Int
      BY <3>1 DEF Watch
    <3>3. l[m] \in Asked
      BY <1>1, <2>2
    <3>4. l[m].now \in Int
      BY <3>3 DEF Asked
    <3> QED
      BY <3>1, <3>2, <3>4
  <2> QED
    BY <1>3, <2>1, <2>2 DEF Taken
<1>6. PICK len, W, W2 : len = Len(live) /\ W = InWindow(l, k, now - window) /\ W2 = InWindow(l2, k, now - window)
  OBVIOUS
<1>7. PICK f \in [1..len -> W] : /\ \A i, j \in 1..len : f[i] = f[j] => i = j
                                 /\ \A i \in 1..len : l[f[i]].now = live[i]
                                 /\ \A m \in W : \E i \in 1..len : f[i] = m
  BY <1>4, <1>6 DEF TimesOf
<1>8. W \subseteq 1..n
  BY <1>1, <1>6 DEF InWindow
<1>9. CASE said = "False" /\ kept = live
  <2>1. W2 = W
    BY <1>1, <1>2, <1>3, <1>6, <1>9 DEF InWindow
  <2>2. \A i \in 1..len : l2[f[i]].now = live[i]
    BY <1>3, <1>7, <1>8
  <2>3. Len(kept) = len
    BY <1>6, <1>9
  <2>4. /\ f \in [1..Len(kept) -> W2]
        /\ \A i, j \in 1..Len(kept) : f[i] = f[j] => i = j
        /\ \A i \in 1..Len(kept) : l2[f[i]].now = kept[i]
        /\ \A m \in W2 : \E i \in 1..Len(kept) : f[i] = m
    BY <1>7, <1>9, <2>1, <2>2, <2>3
  <2>5. TimesOf(kept, W2, l2)
    BY <2>4, Zenon DEF TimesOf
  <2> QED
    BY <1>1, <1>4, <1>5, <1>6, <1>9, <2>5 DEF Watch
<1>10. CASE Len(live) < limit /\ said = "True" /\ kept = Append(live, now)
  <2>1. now > now - window
    OBVIOUS
  <2>2. W2 = W \cup {n + 1}
    BY <1>1, <1>2, <1>3, <1>6, <1>10, <2>1 DEF InWindow
  <2>3. /\ kept \in Seq(Int) /\ len \in Nat /\ Len(kept) = len + 1 /\ kept[len + 1] = now
        /\ \A i \in 1..len : kept[i] = live[i] /\ live[i] \in Int /\ live[i] <= now
        /\ 1..Len(kept) = 1..len \cup {len + 1} /\ len + 1 \notin 1..len
    <3>1. live \in Seq(Int) /\ kept = Append(live, now) /\ len = Len(live)
      BY <1>4, <1>6, <1>10
    <3>2. /\ kept \in Seq(Int) /\ len \in Nat /\ Len(kept) = len + 1 /\ kept[len + 1] = now
          /\ \A i \in 1..len : kept[i] = live[i]
          /\ 1..Len(kept) = 1..len \cup {len + 1} /\ len + 1 \notin 1..len
      BY <3>1, OneMore
    <3>3. \A i \in 1..len : live[i] \in Int /\ live[i] <= now
      BY <1>4, <3>1
    <3> QED
      BY <3>2, <3>3
  <2>4. Len(kept) <= limit
    BY <1>6, <1>10, <2>3
  <2>5. \A i, j \in 1..Len(kept) : i <= j => kept[i] <= kept[j]
    <3> SUFFICES ASSUME NEW i \in 1..Len(kept), NEW j \in 1..Len(kept), i <= j PROVE kept[i] <= kept[j]
      OBVIOUS
    <3>1. CASE j = len + 1
      <4>1. kept[j] = now /\ (i = len + 1 \/ i \in 1..len)
        BY <2>3, <3>1
      <4> QED
        BY <2>3, <4>1
    <3>2. CASE j \in 1..len
      <4>1. i \in 1..len
        BY <2>3, <3>2
      <4> QED
        BY <1>4, <1>6, <2>3, <3>2, <4>1
    <3> QED
      BY <2>3, <3>1, <3>2
  <2> DEFINE g == [i \in 1..(len + 1) |-> IF i = len + 1 THEN n + 1 ELSE f[i]]
  <2>6. g[len + 1] = n + 1 /\ \A i \in 1..len : g[i] = f[i] /\ g[i] \in W
    BY <1>7, <2>3
  <2>7. g \in [1..(len + 1) -> W2]
    BY <1>7, <2>2, <2>3
  <2> HIDE DEF g
  <2>8. \A i, j \in 1..(len + 1) : g[i] = g[j] => i = j
    <3>1. 1..(len + 1) = 1..len \cup {len + 1} /\ \A i \in 1..len : g[i] # n + 1
      BY <1>3, <1>8, <2>3, <2>6
    <3>2. \A i, j \in 1..len : g[i] = g[j] => i = j
      BY <1>7, <2>6
    <3> QED
      BY <2>6, <3>1, <3>2
  <2>9. \A i \in 1..(len + 1) : l2[g[i]].now = kept[i]
    <3> SUFFICES ASSUME NEW i \in 1..(len + 1) PROVE l2[g[i]].now = kept[i]
      OBVIOUS
    <3>1. CASE i = len + 1
      BY <1>2, <1>3, <2>3, <2>6, <3>1
    <3>2. CASE i \in 1..len
      <4>1. g[i] = f[i] /\ f[i] \in 1..n
        BY <1>8, <2>6, <3>2
      <4>2. l2[f[i]] = l[f[i]] /\ l[f[i]].now = live[i] /\ kept[i] = live[i]
        BY <1>3, <1>7, <2>3, <3>2, <4>1
      <4> QED
        BY <4>1, <4>2
    <3> QED
      BY <2>3, <3>1, <3>2
  <2>10. \A m \in W2 : \E i \in 1..(len + 1) : g[i] = m
    <3> SUFFICES ASSUME NEW m \in W2 PROVE \E i \in 1..(len + 1) : g[i] = m
      OBVIOUS
    <3>1. CASE m = n + 1
      <4>1. len + 1 \in 1..(len + 1)
        BY <2>3
      <4> QED
        BY <2>6, <3>1, <4>1
    <3>2. CASE m \in W
      <4>1. PICK i \in 1..len : f[i] = m
        BY <1>7, <3>2
      <4>2. i \in 1..(len + 1) /\ g[i] = m
        BY <2>3, <2>6, <4>1
      <4> QED
        BY <4>2
    <3> QED
      BY <2>2, <3>1, <3>2
  <2>11. TimesOf(kept, W2, l2)
    <3>1. Len(kept) = len + 1
      BY <2>3
    <3>2. /\ g \in [1..Len(kept) -> W2]
          /\ \A i, j \in 1..Len(kept) : g[i] = g[j] => i = j
          /\ \A i \in 1..Len(kept) : l2[g[i]].now = kept[i]
          /\ \A m \in W2 : \E i \in 1..Len(kept) : g[i] = m
      BY <2>7, <2>8, <2>9, <2>10, <3>1
    <3> QED
      BY <3>2, Zenon DEF TimesOf
  <2> QED
    BY <1>1, <1>5, <1>6, <2>3, <2>4, <2>5, <2>11 DEF Watch
<1> QED
  BY <1>9, <1>10

\* What was right of the earlier calls stays so.
LEMMA ExactStays ==
  ASSUME NEW l \in Seq(Asked), NEW x \in Asked, NEW n \in 1..Len(l), NEW limit, NEW window, ExactAt(l, n, limit, window)
  PROVE  ExactAt(Append(l, x), n, limit, window)
<1>1. PICK l2 : l2 = Append(l, x)
  OBVIOUS
<1>2. l2[n] = l[n] /\ \A m \in 1..(n - 1) : l2[m] = l[m]
  BY <1>1
<1>3. {m \in 1..(n - 1) : l2[m].key = l2[n].key} = {m \in 1..(n - 1) : l[m].key = l[n].key}
  BY <1>2
<1>4. PICK earlier : earlier = {m \in 1..(n - 1) : l[m].key = l[n].key}
  OBVIOUS
<1>5. \A m \in earlier : l2[m] = l[m]
  BY <1>2, <1>4
<1>6. {m \in earlier : l2[m].answer = "True" /\ l2[m].now > l2[n].now - window}
        = {m \in earlier : l[m].answer = "True" /\ l[m].now > l[n].now - window}
  BY <1>2, <1>5
<1>7. {m \in earlier : l2[m].answer # "ValueError" /\ l2[m].now > l2[n].now}
        = {m \in earlier : l[m].answer # "ValueError" /\ l[m].now > l[n].now}
  BY <1>2, <1>5
<1> QED
  BY <1>1, <1>2, <1>3, <1>4, <1>6, <1>7 DEF ExactAt

\* The answer to a call, by what precedes it.
LEMMA ExactNow ==
  ASSUME NEW l \in Seq(Asked), NEW x \in Asked, NEW limit, NEW window,
         x.answer = "ValueError" <=> \E m \in Taken(l, x.key) : l[m].now > x.now,
         x.answer = "False" => Cardinality(InWindow(l, x.key, x.now - window)) = limit,
         x.answer = "True" => Cardinality(InWindow(l, x.key, x.now - window)) < limit
  PROVE  ExactAt(Append(l, x), Len(l) + 1, limit, window)
<1>1. PICK l2, n, key : l2 = Append(l, x) /\ n = Len(l) + 1 /\ key = x.key
  OBVIOUS
<1>2. l2[n] = x /\ \A m \in 1..Len(l) : l2[m] = l[m]
  BY <1>1, OneMore
<1>3. 1..(n - 1) = 1..Len(l)
  BY <1>1
<1>4. PICK earlier : earlier = {m \in 1..(n - 1) : l2[m].key = l2[n].key}
  OBVIOUS
<1>5. earlier = {m \in 1..Len(l) : l[m].key = key} /\ \A m \in earlier : l2[m] = l[m]
  BY <1>1, <1>2, <1>3, <1>4
<1>6. {m \in earlier : l2[m].answer = "True" /\ l2[m].now > l2[n].now - window} = InWindow(l, key, x.now - window)
  BY <1>2, <1>5 DEF InWindow
<1>7. {m \in earlier : l2[m].answer # "ValueError" /\ l2[m].now > l2[n].now} # {}
        <=> \E m \in Taken(l, key) : l[m].now > x.now
  BY <1>2, <1>5 DEF Taken
<1> QED
  BY <1>1, <1>2, <1>4, <1>6, <1>7 DEF ExactAt

LEMMA AllowKeepsLimiter ==
  ASSUME LimiterOK, NEW key \in Limited, NEW now \in Int,
         o' = allow(o, key, now).object,
         log' = Append(log, [key |-> key, now |-> now, answer |-> allow(o, key, now).value])
  PROVE  LimiterOK'
<1>1. PICK limit, window, ev, lc : limit = o.limit /\ window = o.window /\ ev = o.events /\ lc = o.last_call
  OBVIOUS
<1>2. /\ log \in Seq(Asked) /\ limit \in Nat \ {0} /\ window \in Nat \ {0} /\ DOMAIN ev = DOMAIN lc
      /\ o = [class |-> "limiter", limit |-> limit, window |-> window, events |-> ev, last_call |-> lc]
      /\ \A n \in 1..Len(log) : ExactAt(log, n, limit, window)
  BY <1>1 DEF LimiterOK
<1>3. ASSUME NEW k \in Limited
      PROVE  /\ k \in DOMAIN lc => /\ Watch(ev[k], lc[k], limit, window, log, k)
                                   /\ \E m \in Taken(log, k) : log[m].now = lc[k]
             /\ k \notin DOMAIN lc => Taken(log, k) = {}
  BY <1>1, <1>3 DEF LimiterOK
<1>4. PICK e, t, live, r : /\ e = Lookup(ev, key, <<>>) /\ t = Lookup(lc, key, now)
                           /\ live = Pruned(e, now - window) /\ r = allow(o, key, now)
  OBVIOUS
<1>5. Watch(e, t, limit, window, log, key)
  <2>1. CASE key \in DOMAIN lc
    BY <1>2, <1>3, <1>4, <2>1 DEF Lookup
  <2>2. CASE key \notin DOMAIN lc
    <3>1. e = <<>> /\ t = now /\ Taken(log, key) = {}
      BY <1>2, <1>3, <1>4, <2>2 DEF Lookup
    <3>2. InWindow(log, key, t - window) = {}
      BY <3>1 DEF InWindow, Taken
    <3>3. TimesOf(e, {}, log)
      <4>1. 1..Len(e) = {}
        BY <3>1
      <4>2. [i \in {} |-> i] \in [{} -> {}]
        OBVIOUS
      <4> QED
        BY <4>1, <4>2 DEF TimesOf
    <3>4. e \in Seq(Int) /\ Len(e) = 0 /\ 1..Len(e) = {} /\ 0 <= limit
      BY <1>2, <3>1
    <3> QED
      BY <3>1, <3>2, <3>3, <3>4 DEF Watch
  <2> QED
    BY <2>1, <2>2
<1>6. t \in Int /\ (\A m \in Taken(log, key) : log[m].now <= t) /\ (t # now => \E m \in Taken(log, key) : log[m].now = t)
  BY <1>3, <1>4, <1>5 DEF Watch, Lookup
<1>7. \A m \in Taken(log, key) : log[m].now \in Int
  <2>1. \A m \in Taken(log, key) : log[m] \in Asked
    BY <1>2 DEF Taken
  <2> QED
    BY <2>1 DEF Asked
<1>8. CASE now < t
  <2>1. r.object = o /\ r.value = "ValueError"
    BY <1>2, <1>4, <1>8 DEF allow, Raises
  <2>2. PICK x : x = [key |-> key, now |-> now, answer |-> "ValueError"]
    OBVIOUS
  <2>3. x \in Asked /\ log' = Append(log, x) /\ o' = o
    BY <1>4, <2>1, <2>2 DEF Asked
  <2>4. log' \in Seq(Asked) /\ 1..Len(log') = 1..Len(log) \cup {Len(log) + 1}
    BY <1>2, <2>3, OneMore
  <2>5. \E m \in Taken(log, key) : log[m].now > now
    BY <1>6, <1>7, <1>8
  <2>6. ExactAt(log', Len(log) + 1, limit, window)
    <3>1. x.key = key /\ x.now = now /\ x.answer = "ValueError"
      BY <2>2
    <3> QED
      BY <1>2, <2>3, <2>5, <3>1, ExactNow
  <2>7. \A n \in 1..Len(log') : ExactAt(log', n, limit, window)
    BY <1>2, <2>3, <2>4, <2>6, ExactStays
  <2>8. ASSUME NEW k \in Limited
        PROVE  IF k \in DOMAIN lc
               THEN /\ Watch(ev[k], lc[k], limit, window, log', k)
                    /\ \E m \in Taken(log', k) : log'[m].now = lc[k]
               ELSE Taken(log', k) = {}
    <3>1. x.answer = "ValueError"
      BY <2>2
    <3>2. /\ Taken(Append(log, x), k) = Taken(log, k)
          /\ \A m \in Taken(log, k) : Append(log, x)[m] = log[m]
          /\ \A e0, t0, limit0, window0 :
               Watch(e0, t0, limit0, window0, log, k) => Watch(e0, t0, limit0, window0, Append(log, x), k)
      BY <1>2, <2>3, <3>1, WatchOther
    <3> QED
      BY <1>3, <2>3, <3>2
  <2> QED
    BY <1>1, <1>2, <2>3, <2>4, <2>7, <2>8 DEF LimiterOK
<1>9. CASE ~(now < t)
  <2>1. t <= now
    BY <1>6, <1>9
  <2>2. /\ live \in Seq(Int) /\ Len(live) <= limit
        /\ TimesOf(live, InWindow(log, key, now - window), log)
    <3>1. window \in Int /\ limit \in Nat
      BY <1>2
    <3> QED
      BY <1>2, <1>4, <1>5, <2>1, <3>1, PrunedTimes
  <2>3. PICK size : size = Len(live) /\ size \in Nat
    BY <2>2
  <2>4. PICK said, kept :
          \/ Len(live) >= limit /\ said = "False" /\ kept = live
          \/ Len(live) < limit /\ said = "True" /\ kept = Append(live, now)
    <3>1. size >= limit \/ size < limit
      BY <1>2, <2>3
    <3> QED
      BY <2>3, <3>1
  <2>5. r.value = said /\ r.object = [o EXCEPT !.last_call = With(lc, key, now), !.events = With(ev, key, kept)]
    <3>1. ~(now < Lookup(o.last_call, key, now)) /\ live = Pruned(Lookup(o.events, key, <<>>), now - o.window)
      BY <1>1, <1>4, <1>9
    <3>2. /\ r.value = IF Len(live) >= o.limit THEN "False" ELSE "True"
          /\ r.object = [o EXCEPT !.last_call = With(@, key, now),
                                   !.events = With(@, key, IF Len(live) >= o.limit THEN live ELSE Append(live, now))]
      BY <1>4, <3>1, Zenon DEF allow, Returns
    <3>3. o.limit = limit /\ o.last_call = lc /\ o.events = ev
      BY <1>1
    <3>4. Len(live) >= limit => ~(Len(live) < limit)
      BY <1>2, <2>3
    <3>5. /\ r.value = said
          /\ kept = IF Len(live) >= o.limit THEN live ELSE Append(live, now)
      BY <2>4, <3>2, <3>3, <3>4
    <3> QED
      BY <1>2, <3>2, <3>3, <3>5
  <2>6. o' = [class |-> "limiter", limit |-> limit, window |-> window,
              events |-> With(ev, key, kept), last_call |-> With(lc, key, now)]
    BY <1>2, <1>4, <2>5
  <2>7. PICK ev2, lc2, x : /\ ev2 = With(ev, key, kept) /\ lc2 = With(lc, key, now)
                           /\ x = [key |-> key, now |-> now, answer |-> said]
    OBVIOUS
  <2>8. /\ DOMAIN ev2 = DOMAIN lc2 /\ DOMAIN lc2 = DOMAIN lc \cup {key} /\ ev2[key] = kept /\ lc2[key] = now
        /\ \A k \in DOMAIN lc \ {key} : ev2[k] = ev[k] /\ lc2[k] = lc[k]
    BY <1>2, <2>7 DEF With
  <2>9. x \in Asked /\ x.key = key /\ x.now = now /\ x.answer = said /\ log' = Append(log, x)
    BY <1>4, <2>4, <2>5, <2>7 DEF Asked
  <2>10. /\ log' \in Seq(Asked) /\ Len(log) \in Nat /\ 1..Len(log') = 1..Len(log) \cup {Len(log) + 1}
         /\ log'[Len(log) + 1] = x
    BY <1>2, <2>9, OneMore
  <2>11. ~\E m \in Taken(log, key) : log[m].now > now
    BY <1>6, <1>7, <2>1
  <2>12. Cardinality(InWindow(log, key, now - window)) = Len(live) /\ Len(live) \in Nat
    BY <2>2, <2>3, SizeOfTimes
  <2>13. ExactAt(log', Len(log) + 1, limit, window)
    <3>1. x.answer # "ValueError"
      BY <2>4, <2>9
    <3>2. x.answer = "False" => Cardinality(InWindow(log, key, now - window)) = limit
      BY <1>2, <2>2, <2>4, <2>9, <2>12
    <3>3. x.answer = "True" => Cardinality(InWindow(log, key, now - window)) < limit
      BY <2>4, <2>9, <2>12
    <3> QED
      BY <1>2, <2>9, <2>11, <3>1, <3>2, <3>3, ExactNow
  <2>14. \A n \in 1..Len(log') : ExactAt(log', n, limit, window)
    BY <1>2, <2>9, <2>10, <2>13, ExactStays
  <2>15. Watch(kept, now, limit, window, log', key)
    <3>1. limit \in Nat
      BY <1>2
    <3> QED
      BY <1>2, <1>4, <1>5, <2>1, <2>4, <2>7, <2>9, <3>1, WatchAllow
  <2>16. ASSUME NEW k \in Limited
         PROVE  IF k \in DOMAIN lc2
                THEN /\ Watch(ev2[k], lc2[k], limit, window, log', k)
                     /\ \E m \in Taken(log', k) : log'[m].now = lc2[k]
                ELSE Taken(log', k) = {}
    <3>1. CASE k = key
      <4>1. Len(log) + 1 \in Taken(log', key)
        BY <2>4, <2>9, <2>10 DEF Taken
      <4> QED
        BY <2>8, <2>9, <2>10, <2>15, <3>1, <4>1
    <3>2. CASE k # key
      <4>1. x.key # k
        BY <2>9, <3>2
      <4>2. /\ Taken(Append(log, x), k) = Taken(log, k)
            /\ \A m \in Taken(log, k) : Append(log, x)[m] = log[m]
            /\ \A e0, t0, limit0, window0 :
                 Watch(e0, t0, limit0, window0, log, k) => Watch(e0, t0, limit0, window0, Append(log, x), k)
        BY <1>2, <2>9, <4>1, WatchOther
      <4>3. k \in DOMAIN lc2 <=> k \in DOMAIN lc
        BY <2>8, <3>2
      <4>4. k \in DOMAIN lc => ev2[k] = ev[k] /\ lc2[k] = lc[k]
        BY <2>8, <3>2
      <4> QED
        BY <1>3, <2>9, <4>2, <4>3, <4>4
    <3> QED
      BY <3>1, <3>2
  <2>17. /\ o'.limit = limit /\ o'.window = window /\ o'.events = ev2 /\ o'.last_call = lc2
         /\ o' = [class |-> "limiter", limit |-> limit, window |-> window, events |-> ev2, last_call |-> lc2]
    BY <2>6, <2>7
  <2>18. \A k \in Limited :
           IF k \in DOMAIN o'.last_call
           THEN /\ Watch(o'.events[k], o'.last_call[k], o'.limit, o'.window, log', k)
                /\ \E m \in Taken(log', k) : log'[m].now = o'.last_call[k]
           ELSE Taken(log', k) = {}
    BY <2>16, <2>17
  <2>19. \A n \in 1..Len(log') : ExactAt(log', n, o'.limit, o'.window)
    BY <2>14, <2>17
  <2>20. /\ o'.limit \in Nat \ {0} /\ o'.window \in Nat \ {0} /\ DOMAIN o'.events = DOMAIN o'.last_call
         /\ o' = [class |-> "limiter", limit |-> o'.limit, window |-> o'.window,
                  events |-> o'.events, last_call |-> o'.last_call]
    BY <1>2, <2>8, <2>17
  <2> QED
    BY <2>10, <2>18, <2>19, <2>20, Zenon DEF LimiterOK
<1> QED
  BY <1>8, <1>9

LEMMA MaxIs ==
  ASSUME NEW S \in SUBSET Int, NEW x \in S, \A y \in S : y <= x
  PROVE  Max(S) = x
<1>1. \A y \in S : x >= y
  OBVIOUS
<1>2. \A z \in S : (\A y \in S : z >= y) => z = x
  OBVIOUS
<1> QED
  BY <1>1, <1>2 DEF Max

LEMMA StreakIsFinite ==
  ASSUME NEW l, NEW n \in Nat
  PROVE  /\ StreakOf(l, n) \subseteq 1..(n - 1) /\ IsFiniteSet(StreakOf(l, n)) /\ Cardinality(StreakOf(l, n)) \in Nat
         /\ StreakOf(l, n) # {} => Max(StreakOf(l, n)) \in 1..(n - 1)
<1>1. StreakOf(l, n) \subseteq 1..(n - 1)
  BY DEF StreakOf, RunsOf
<1>2. 1 \in Int /\ n - 1 \in Int
  OBVIOUS
<1>3. IsFiniteSet(1..(n - 1))
  BY <1>2, FS_Interval
<1>4. IsFiniteSet(StreakOf(l, n)) /\ Cardinality(StreakOf(l, n)) \in Nat
  BY <1>1, <1>3, FS_Subset, FS_CardinalityType
<1>5. ASSUME StreakOf(l, n) # {} PROVE Max(StreakOf(l, n)) \in 1..(n - 1)
  <2>1. PICK S : S = StreakOf(l, n)
    OBVIOUS
  <2>2. S \in SUBSET Nat /\ S \in SUBSET Int /\ \A y \in S : y <= n
    BY <1>1, <2>1
  <2>3. PICK x \in S : \A y \in S : y <= x
    BY <1>5, <2>1, <2>2, GreatestExists
  <2>4. Max(S) = x
    BY <2>2, <2>3, MaxIs
  <2> QED
    BY <1>1, <2>1, <2>3, <2>4
<1> QED
  BY <1>1, <1>4, <1>5

\* The past does not change.
LEMMA StreakStays ==
  ASSUME NEW l \in Seq(Called), NEW x \in Called, NEW n \in 1..(Len(l) + 1)
  PROVE  RunsOf(Append(l, x), n) = RunsOf(l, n) /\ StreakOf(Append(l, x), n) = StreakOf(l, n)
<1>1. PICK l2 : l2 = Append(l, x)
  OBVIOUS
<1>2. \A m \in 1..(n - 1) : l2[m] = l[m]
  BY <1>1
<1>3. \A m \in 1..(n - 1) : \A k \in m..(n - 1) : k \in 1..(n - 1)
  OBVIOUS
<1>4. RunsOf(l2, n) = RunsOf(l, n) /\ RunsOf(l, n) \subseteq 1..(n - 1)
  BY <1>2, <1>3 DEF RunsOf
<1>5. StreakOf(l2, n) = StreakOf(l, n)
  BY <1>2, <1>4 DEF StreakOf
<1> QED
  BY <1>1, <1>4, <1>5

LEMMA RefusedStays ==
  ASSUME NEW l \in Seq(Called), NEW x \in Called, NEW n \in 1..Len(l), NEW threshold \in Nat \ {0}, NEW recovery,
         RefusedAt(l, n, threshold, recovery)
  PROVE  RefusedAt(Append(l, x), n, threshold, recovery)
<1>1. PICK l2, S : l2 = Append(l, x) /\ S = StreakOf(l, n)
  OBVIOUS
<1>2. n \in 1..(Len(l) + 1) /\ n \in Nat
  OBVIOUS
<1>3. StreakOf(l2, n) = S
  BY <1>1, <1>2, StreakStays
<1>4. /\ S \subseteq 1..(n - 1) /\ IsFiniteSet(S) /\ Cardinality(S) \in Nat
      /\ S # {} => Max(S) \in 1..(n - 1)
  BY <1>1, <1>2, StreakIsFinite
<1>5. l2[n] = l[n] /\ \A m \in 1..(n - 1) : l2[m] = l[m]
  BY <1>1
<1>6. CASE S = {}
  <2>1. ~(Cardinality(S) >= threshold)
    BY <1>6, FS_EmptySet
  <2> QED
    BY <1>1, <1>3, <1>5, <2>1 DEF RefusedAt
<1>7. CASE S # {}
  <2>1. l2[Max(S)] = l[Max(S)]
    BY <1>4, <1>5, <1>7
  <2> QED
    BY <1>1, <1>3, <1>5, <2>1 DEF RefusedAt
<1> QED
  BY <1>6, <1>7

\* What one more call makes of the streak.
LEMMA StreakNext ==
  ASSUME NEW l \in Seq(Called), NEW x \in Called
  PROVE  LET now == StreakOf(l, Len(l) + 1)
             next == StreakOf(Append(l, x), Len(l) + 2)
         IN /\ x.kind = "reset" \/ x.answer = "ok" => next = {}
            /\ x.kind # "reset" /\ x.answer = "RuntimeError" => next = now \cup {Len(l) + 1}
            /\ x.kind # "reset" /\ x.answer \notin {"ok", "RuntimeError"} => next = now
<1>1. PICK l2, n, R, R2, S, S2 :
        /\ l2 = Append(l, x) /\ n = Len(l) + 1 /\ R = RunsOf(l, n) /\ R2 = RunsOf(l2, n + 1)
        /\ S = StreakOf(l, n) /\ S2 = StreakOf(l2, n + 1)
  OBVIOUS
<1>2. /\ n \in Nat \ {0} /\ l2[n] = x /\ \A m \in 1..(n - 1) : l2[m] = l[m]
      /\ 1..(n + 1 - 1) = 1..(n - 1) \cup {n} /\ n \notin 1..(n - 1)
      /\ n..(n + 1 - 1) = {n}
      /\ \A m \in 1..(n - 1) : m..(n + 1 - 1) = (m..(n - 1)) \cup {n} /\ m..(n - 1) \subseteq 1..(n - 1)
  <2>1. Len(l) \in Nat
    OBVIOUS
  <2>2. n \in Nat \ {0} /\ n - 1 = Len(l)
    BY <1>1, <2>1
  <2>3. l2[n] = x /\ \A m \in 1..(n - 1) : l2[m] = l[m]
    BY <1>1, <2>2, OneMore
  <2> QED
    BY <2>2, <2>3
<1>3. R2 = {m \in R \cup {n} : l2[m].answer \in {"ok", "RuntimeError"} /\ x.kind # "reset"}
  <2>1. \A m \in 1..(n - 1) : m \in R2 <=> m \in R /\ x.kind # "reset"
    BY <1>1, <1>2 DEF RunsOf
  <2>2. n \in R2 <=> x.answer \in {"ok", "RuntimeError"} /\ x.kind # "reset"
    BY <1>1, <1>2 DEF RunsOf
  <2>3. R2 \subseteq 1..(n - 1) \cup {n} /\ R \subseteq 1..(n - 1)
    BY <1>1, <1>2 DEF RunsOf
  <2>4. \A m \in R : l2[m].answer \in {"ok", "RuntimeError"}
    BY <1>1, <1>2 DEF RunsOf
  <2> QED
    BY <1>2, <2>1, <2>2, <2>3, <2>4
<1>4. /\ S = {m \in R : \A k \in R : k >= m => l[k].answer = "RuntimeError"}
      /\ S2 = {m \in R2 : \A k \in R2 : k >= m => l2[k].answer = "RuntimeError"}
      /\ R \subseteq 1..(n - 1)
  BY <1>1 DEF StreakOf, RunsOf
<1>5. x.kind = "reset" => S2 = {}
  BY <1>3, <1>4
<1>6. ASSUME x.kind # "reset", x.answer = "ok" PROVE S2 = {}
  <2>1. n \in R2 /\ l2[n].answer = "ok" /\ \A m \in R2 : n >= m
    BY <1>2, <1>3, <1>4, <1>6
  <2> QED
    BY <1>4, <2>1
<1>7. ASSUME x.kind # "reset", x.answer = "RuntimeError" PROVE S2 = S \cup {n}
  <2>1. R2 = R \cup {n} /\ l2[n].answer = "RuntimeError" /\ \A m \in R : l2[m] = l[m] /\ n >= m /\ ~(m >= n)
    <3>1. \A m \in R : l2[m] = l[m] /\ n >= m /\ ~(m >= n)
      BY <1>2, <1>4
    <3>2. \A m \in R : l[m].answer \in {"ok", "RuntimeError"}
      BY <1>1 DEF RunsOf
    <3> QED
      BY <1>2, <1>3, <1>7, <3>1, <3>2
  <2>2. n \in S2
    BY <1>4, <2>1
  <2>3. \A m \in R : m \in S2 <=> m \in S
    BY <1>4, <2>1
  <2> QED
    BY <1>4, <2>1, <2>2, <2>3
<1>8. ASSUME x.kind # "reset", x.answer \notin {"ok", "RuntimeError"} PROVE S2 = S
  <2>1. \A m \in R : l2[m] = l[m] /\ l[m].answer \in {"ok", "RuntimeError"}
    BY <1>1, <1>2 DEF RunsOf
  <2>2. R2 = R
    BY <1>2, <1>3, <1>8, <2>1
  <2> QED
    BY <1>4, <2>1, <2>2
<1>9. n + 1 = Len(l) + 2
  BY <1>1
<1> QED
  BY <1>1, <1>5, <1>6, <1>7, <1>8, <1>9

LEMMA RemembersClosed ==
  ASSUME NEW p, NEW l, NEW T, StreakOf(l, Len(l) + 1) = T, p.state = "closed",
         p.failure_count = Cardinality(T), Cardinality(T) < p.threshold
  PROVE  Remembers(p, l)
BY DEF Remembers

LEMMA RemembersOpen ==
  ASSUME NEW p, NEW l, NEW T, StreakOf(l, Len(l) + 1) = T, p.state = "open",
         Cardinality(T) >= p.threshold, p.opened_at = l[Max(T)].now
  PROVE  Remembers(p, l)
BY DEF Remembers

\* Whether a call is refused, by what precedes it.
LEMMA RefusedNow ==
  ASSUME BreakerOK, NEW x \in Called,
         x.kind = "reset" \/ x.answer = "ValueError"
           \/ (x.now >= o.last_now /\ (x.answer = "CircuitOpenError" <=> Refused(o, x.now)))
  PROVE  /\ Append(log, x) \in Seq(Called)
         /\ \A n \in 1..Len(Append(log, x)) : RefusedAt(Append(log, x), n, o.threshold, o.recovery_timeout)
<1>1. PICK l2, n, S, now : l2 = Append(log, x) /\ n = Len(log) + 1 /\ S = StreakOf(log, n) /\ now = x.now
  OBVIOUS
<1>2. /\ log \in Seq(Called) /\ o.threshold \in Nat \ {0} /\ o.recovery_timeout \in Nat \ {0}
      /\ o.state \in {"closed", "open", "half_open"} /\ o.opened_at \in Int /\ o.last_now \in Int
      /\ \A m \in 1..Len(log) : RefusedAt(log, m, o.threshold, o.recovery_timeout)
  BY DEF BreakerOK
<1>3. /\ l2 \in Seq(Called) /\ Len(log) \in Nat /\ l2[n] = x /\ \A m \in 1..Len(log) : l2[m] = log[m]
      /\ 1..Len(l2) = 1..Len(log) \cup {n}
  BY <1>1, <1>2, OneMore
<1>4. n \in 1..(Len(log) + 1) /\ n \in Nat /\ n - 1 = Len(log)
  BY <1>1, <1>3
<1>5. StreakOf(l2, n) = S
  BY <1>1, <1>2, <1>4, StreakStays
<1>6. Cardinality(S) \in Nat /\ IsFiniteSet(S) /\ (S # {} => Max(S) \in 1..Len(log))
  <2>1. /\ S \subseteq 1..(n - 1) /\ IsFiniteSet(S) /\ Cardinality(S) \in Nat
        /\ S # {} => Max(S) \in 1..(n - 1)
    BY <1>1, <1>4, StreakIsFinite
  <2> QED
    BY <1>4, <2>1
<1>7. /\ o.state = "closed" => Cardinality(S) < o.threshold
      /\ o.state # "closed" => Cardinality(S) >= o.threshold /\ o.opened_at = log[Max(S)].now
      /\ o.state = "half_open" => o.last_now >= o.opened_at + o.recovery_timeout
  BY <1>1 DEF BreakerOK, Remembers
<1>8. now \in Int
  BY <1>1 DEF Called
<1>9. RefusedAt(l2, n, o.threshold, o.recovery_timeout)
  <2> SUFFICES ASSUME now >= o.last_now, x.answer = "CircuitOpenError" <=> Refused(o, now)
               PROVE  x.answer = "CircuitOpenError" <=>
                        /\ Cardinality(S) >= o.threshold
                        /\ now < l2[Max(S)].now + o.recovery_timeout
    BY <1>1, <1>3, <1>5 DEF RefusedAt
  <2>1. CASE o.state = "closed"
    BY <1>2, <1>6, <1>7, <2>1 DEF Refused
  <2>2. CASE o.state # "closed"
    <3>1. S # {}
      <4>1. Cardinality({}) = 0 /\ ~(0 >= o.threshold)
        BY <1>2, FS_EmptySet
      <4> QED
        BY <1>7, <2>2, <4>1
    <3>2. l2[Max(S)].now = o.opened_at
      BY <1>3, <1>6, <1>7, <2>2, <3>1
    <3>3. now < o.opened_at + o.recovery_timeout => o.state = "open"
      BY <1>2, <1>7, <1>8, <2>2
    <3> QED
      BY <1>7, <2>2, <3>2, <3>3 DEF Refused
  <2> QED
    BY <2>1, <2>2
<1>10. \A m \in 1..Len(log) : RefusedAt(l2, m, o.threshold, o.recovery_timeout)
  BY <1>1, <1>2, RefusedStays
<1> QED
  BY <1>1, <1>3, <1>9, <1>10

\* A call that ran no operation to its end leaves the streak.
LEMMA StreakKept ==
  ASSUME BreakerOK, NEW x \in Called, x.kind # "reset", x.answer \notin {"ok", "RuntimeError"},
         NEW p, p.state \in {"closed", "open", "half_open"},
         p.threshold = o.threshold, p.failure_count = o.failure_count, p.opened_at = o.opened_at,
         p.state = "closed" <=> o.state = "closed",
         p.state = "half_open" => p.last_now >= p.opened_at + p.recovery_timeout
  PROVE  Remembers(p, Append(log, x))
<1>1. PICK l2, n, S : l2 = Append(log, x) /\ n = Len(log) + 1 /\ S = StreakOf(log, n)
  OBVIOUS
<1>2. log \in Seq(Called) /\ o.threshold \in Nat \ {0}
  BY DEF BreakerOK
<1>3. /\ l2 \in Seq(Called) /\ Len(log) \in Nat /\ Len(l2) = Len(log) + 1 /\ \A m \in 1..Len(log) : l2[m] = log[m]
  BY <1>1, <1>2, OneMore
<1>4. n \in Nat /\ n - 1 = Len(log) /\ Len(l2) + 1 = Len(log) + 2
  BY <1>1, <1>3
<1>5. StreakOf(l2, Len(l2) + 1) = S
  BY <1>1, <1>2, <1>4, StreakNext
<1>6. S # {} => Max(S) \in 1..Len(log)
  <2>1. /\ S \subseteq 1..(n - 1) /\ IsFiniteSet(S) /\ Cardinality(S) \in Nat
        /\ S # {} => Max(S) \in 1..(n - 1)
    BY <1>1, <1>4, StreakIsFinite
  <2> QED
    BY <1>4, <2>1
<1>7. /\ o.state = "closed" => o.failure_count = Cardinality(S) /\ Cardinality(S) < o.threshold
      /\ o.state # "closed" => Cardinality(S) >= o.threshold /\ o.opened_at = log[Max(S)].now
  BY <1>1 DEF BreakerOK, Remembers
<1>8. o.state # "closed" => o.opened_at = l2[Max(S)].now
  <2>1. o.state # "closed" => S # {}
    <3>1. Cardinality({}) = 0 /\ ~(0 >= o.threshold)
      BY <1>2, FS_EmptySet
    <3> QED
      BY <1>7, <3>1
  <2> QED
    BY <1>3, <1>6, <1>7, <2>1
<1> QED
  BY <1>1, <1>5, <1>7, <1>8 DEF Remembers

LEMMA CallKeepsBreaker ==
  ASSUME BreakerOK, NEW kind \in {"return", "raise", "interrupt"}, NEW now \in Int,
         o' = call(o, [kind |-> kind, value |-> "ok"], now).object,
         log' = Append(log, [kind |-> kind, now |-> now,
                             answer |-> call(o, [kind |-> kind, value |-> "ok"], now).value])
  PROVE  BreakerOK'
<1>1. PICK r, c, x : /\ r = call(o, [kind |-> kind, value |-> "ok"], now) /\ c = Entered(o, now)
                     /\ x = [kind |-> kind, now |-> now, answer |-> r.value]
  OBVIOUS
<1>2. /\ log \in Seq(Called) /\ o.threshold \in Nat \ {0} /\ o.recovery_timeout \in Nat \ {0}
      /\ o.state \in {"closed", "open", "half_open"} /\ o.failure_count \in Nat
      /\ o.opened_at \in Int /\ o.last_now \in Int
      /\ o = [class |-> "breaker", threshold |-> o.threshold, recovery_timeout |-> o.recovery_timeout,
              state |-> o.state, failure_count |-> o.failure_count, opened_at |-> o.opened_at, last_now |-> o.last_now]
  BY DEF BreakerOK
<1> DEFINE Breaker == [class : {"breaker"}, threshold : Nat \ {0}, recovery_timeout : Nat \ {0},
                       state : {"closed", "open", "half_open"}, failure_count : Nat, opened_at : Int, last_now : Int]
<1>3. o \in Breaker
  BY DEF BreakerOK
<1>4. o' = r.object /\ log' = Append(log, x) /\ x.kind = kind /\ x.now = now /\ x.answer = r.value /\ x.kind # "reset"
  BY <1>1
<1>5. SUFFICES /\ o' \in Breaker /\ o'.threshold = o.threshold /\ o'.recovery_timeout = o.recovery_timeout
               /\ x.answer \in {"ok", "RuntimeError", "KeyboardInterrupt", "CircuitOpenError", "ValueError"}
               /\ x.answer = "ValueError" \/ (now >= o.last_now /\ (x.answer = "CircuitOpenError" <=> Refused(o, now)))
               /\ x \in Called => Remembers(o', Append(log, x))
  <2>1. x \in Called
    BY <1>1, <1>5 DEF Called
  <2>2. /\ log' \in Seq(Called)
        /\ \A n \in 1..Len(log') : RefusedAt(log', n, o'.threshold, o'.recovery_timeout)
    BY <1>4, <1>5, <2>1, RefusedNow
  <2>3. Remembers(o', log')
    BY <1>4, <1>5, <2>1
  <2> QED
    BY <1>5, <2>2, <2>3 DEF BreakerOK
<1>6. CASE now < o.last_now
  <2>1. r.object = o /\ r.value = "ValueError"
    <3>1. ~(now >= o.last_now)
      BY <1>2, <1>6
    <3>2. r = Raises(o, "ValueError")
      BY <1>1, <1>6, <3>1 DEF call
    <3> QED
      BY <3>2 DEF Raises
  <2>2. ASSUME x \in Called PROVE Remembers(o', Append(log, x))
    <3>1. o.state = "half_open" => o.last_now >= o.opened_at + o.recovery_timeout
      BY DEF BreakerOK, Remembers
    <3>2. x.answer \notin {"ok", "RuntimeError"}
      BY <1>4, <2>1
    <3>3. Remembers(o, Append(log, x))
      BY <1>2, <1>4, <2>2, <3>1, <3>2, StreakKept
    <3> QED
      BY <1>4, <2>1, <3>3
  <2> QED
    BY <1>3, <1>4, <2>1, <2>2
<1>7. CASE now >= o.last_now /\ Refused(o, now)
  <2>1. r = Raises([o EXCEPT !.last_now = now], "CircuitOpenError")
    BY <1>1, <1>2, <1>7 DEF call
  <2>2. /\ o' = [class |-> "breaker", threshold |-> o.threshold, recovery_timeout |-> o.recovery_timeout,
                 state |-> o.state, failure_count |-> o.failure_count, opened_at |-> o.opened_at, last_now |-> now]
        /\ x.answer = "CircuitOpenError"
    BY <1>2, <1>4, <2>1 DEF Raises
  <2>3. ASSUME x \in Called PROVE Remembers(o', Append(log, x))
    <3>1. o'.state = "open" /\ o.state = "open"
      BY <1>7, <2>2 DEF Refused
    <3>2. o'.threshold = o.threshold /\ o'.failure_count = o.failure_count /\ o'.opened_at = o.opened_at
      BY <2>2
    <3>3. x.answer \notin {"ok", "RuntimeError"}
      BY <2>2
    <3>4. PICK p : p = o'
      OBVIOUS
    <3>5. Remembers(p, Append(log, x))
      BY <1>4, <2>3, <3>1, <3>2, <3>3, <3>4, StreakKept
    <3> QED
      BY <3>4, <3>5
  <2> QED
    BY <1>2, <1>7, <2>2, <2>3
<1>8. CASE now >= o.last_now /\ ~Refused(o, now)
  <2>1. ~(now < o.last_now)
    BY <1>2, <1>8
  <2>2. PICK state : state = IF o.state = "open" THEN "half_open" ELSE o.state
    OBVIOUS
  <2>3. /\ c = [class |-> "breaker", threshold |-> o.threshold, recovery_timeout |-> o.recovery_timeout,
                state |-> state, failure_count |-> o.failure_count, opened_at |-> o.opened_at, last_now |-> now]
        /\ state \in {"closed", "half_open"} /\ (state = "closed" <=> o.state = "closed")
    <3>1. c = [o EXCEPT !.last_now = now, !.state = state]
      BY <1>1, <1>2, <2>2 DEF Entered
    <3>2. state \in {"closed", "half_open"} /\ (state = "closed" <=> o.state = "closed")
      BY <1>2, <2>2
    <3>3. PICK a1, a2, a3, a4, a5, a6 :
            /\ a1 = o.threshold /\ a2 = o.recovery_timeout /\ a3 = o.state /\ a4 = o.failure_count
            /\ a5 = o.opened_at /\ a6 = o.last_now
      OBVIOUS
    <3>4. o = [class |-> "breaker", threshold |-> a1, recovery_timeout |-> a2,
               state |-> a3, failure_count |-> a4, opened_at |-> a5, last_now |-> a6]
      BY <1>2, <3>3
    <3>5. c = [class |-> "breaker", threshold |-> a1, recovery_timeout |-> a2,
               state |-> state, failure_count |-> a4, opened_at |-> a5, last_now |-> now]
      BY <3>1, <3>4
    <3> QED
      BY <3>2, <3>3, <3>5
  <2>4. o.state # "closed" => now >= o.opened_at + o.recovery_timeout
    <3>1. o.state = "half_open" => o.last_now >= o.opened_at + o.recovery_timeout
      BY DEF BreakerOK, Remembers
    <3> QED
      BY <1>2, <1>8, <3>1 DEF Refused
  <2>5. PICK n, S, l2 : n = Len(log) + 1 /\ S = StreakOf(log, n) /\ l2 = Append(log, x)
    OBVIOUS
  <2>6. /\ o.state = "closed" => o.failure_count = Cardinality(S) /\ Cardinality(S) < o.threshold
        /\ o.state # "closed" => Cardinality(S) >= o.threshold
    BY <2>5 DEF BreakerOK, Remembers
  <2>7. n \in Nat /\ n - 1 = Len(log)
    BY <1>2, <2>5
  <2>8. S \subseteq 1..(n - 1) /\ IsFiniteSet(S) /\ Cardinality(S) \in Nat
    BY <2>5, <2>7, StreakIsFinite
  <2>9. ASSUME x \in Called PROVE Len(l2) = n /\ Len(l2) + 1 = Len(log) + 2 /\ l2[n] = x
    <3>1. Len(l2) = Len(log) + 1 /\ Len(log) \in Nat /\ l2[Len(log) + 1] = x
      BY <1>2, <2>5, <2>9, OneMore
    <3> QED
      BY <2>5, <3>1
  <2>10. CASE kind = "raise"
    <3>1. r = Raises(Failed(c, now), "RuntimeError")
      BY <1>1, <1>8, <2>1, <2>10 DEF call
    <3>2. x.answer = "RuntimeError" /\ o' = Failed(c, now)
      BY <1>4, <3>1 DEF Raises
    <3>3. ASSUME x \in Called
          PROVE  StreakOf(l2, Len(l2) + 1) = S \cup {n} /\ Cardinality(S \cup {n}) = Cardinality(S) + 1
                 /\ Max(S \cup {n}) = n
      <4>1. StreakOf(l2, Len(l2) + 1) = S \cup {n}
        BY <1>2, <1>4, <2>5, <2>9, <3>2, <3>3, StreakNext
      <4>2. n \notin S /\ S \cup {n} \in SUBSET Int /\ \A y \in S \cup {n} : y <= n
        BY <2>7, <2>8
      <4>3. Cardinality(S \cup {n}) = Cardinality(S) + 1
        BY <2>8, <4>2, FS_AddElement
      <4>4. Max(S \cup {n}) = n
        BY <4>2, MaxIs
      <4> QED
        BY <4>1, <4>3, <4>4
    <3>4. CASE state = "half_open" \/ o.failure_count + 1 >= o.threshold
      <4>1. o' = [class |-> "breaker", threshold |-> o.threshold, recovery_timeout |-> o.recovery_timeout,
                  state |-> "open", failure_count |-> 0, opened_at |-> now, last_now |-> now]
        BY <2>3, <3>2, <3>4 DEF Failed, Open
      <4>2. Cardinality(S) + 1 >= o.threshold
        BY <1>2, <2>3, <2>6, <2>8, <3>4
      <4>3. ASSUME x \in Called PROVE Remembers(o', l2)
        <5>1. l2[n].now = now
          BY <1>4, <2>9, <4>3
        <5>2. o'.state = "open" /\ o'.opened_at = now /\ o'.threshold = o.threshold
          BY <4>1
        <5>3. /\ StreakOf(l2, Len(l2) + 1) = S \cup {n} /\ Cardinality(S \cup {n}) >= o'.threshold
              /\ o'.opened_at = l2[Max(S \cup {n})].now
          BY <3>3, <4>2, <4>3, <5>1, <5>2
        <5> QED
          BY <5>2, <5>3, RemembersOpen
      <4> QED
        BY <1>2, <1>8, <2>5, <3>2, <4>1, <4>3
    <3>5. CASE ~(state = "half_open" \/ o.failure_count + 1 >= o.threshold)
      <4>1. o' = [class |-> "breaker", threshold |-> o.threshold, recovery_timeout |-> o.recovery_timeout,
                  state |-> "closed", failure_count |-> o.failure_count + 1, opened_at |-> o.opened_at, last_now |-> now]
        BY <2>3, <3>2, <3>5 DEF Failed
      <4>2. o.failure_count = Cardinality(S) /\ Cardinality(S) + 1 < o.threshold
        BY <1>2, <2>3, <2>6, <2>8, <3>5
      <4>3. ASSUME x \in Called PROVE Remembers(o', l2)
        <5>1. o'.state = "closed" /\ o'.failure_count = Cardinality(S) + 1 /\ o'.threshold = o.threshold
          BY <4>1, <4>2
        <5>2. /\ StreakOf(l2, Len(l2) + 1) = S \cup {n} /\ o'.failure_count = Cardinality(S \cup {n})
              /\ Cardinality(S \cup {n}) < o'.threshold
          BY <3>3, <4>2, <4>3, <5>1
        <5> QED
          BY <5>1, <5>2, RemembersClosed
      <4> QED
        BY <1>2, <1>8, <2>5, <3>2, <4>1, <4>3
    <3> QED
      BY <3>4, <3>5
  <2>11. CASE kind = "interrupt"
    <3>1. r = Raises(c, "KeyboardInterrupt")
      BY <1>1, <1>8, <2>1, <2>11 DEF call
    <3>2. x.answer = "KeyboardInterrupt" /\ o' = c
      BY <1>4, <3>1 DEF Raises
    <3>3. ASSUME x \in Called PROVE Remembers(c, Append(log, x))
      <4>1. /\ c.state \in {"closed", "open", "half_open"} /\ c.threshold = o.threshold
            /\ c.failure_count = o.failure_count /\ c.opened_at = o.opened_at /\ (c.state = "closed" <=> o.state = "closed")
            /\ c.state = "half_open" => c.last_now >= c.opened_at + c.recovery_timeout
        BY <2>3, <2>4
      <4>2. x.answer \notin {"ok", "RuntimeError"}
        BY <3>2
      <4> QED
        BY <1>4, <3>3, <4>1, <4>2, StreakKept
    <3>4. o' \in Breaker /\ o'.threshold = o.threshold /\ o'.recovery_timeout = o.recovery_timeout
      BY <1>2, <2>3, <3>2
    <3> QED
      BY <1>8, <3>2, <3>3, <3>4
  <2>12. CASE kind = "return"
    <3>1. r = Returns([c EXCEPT !.state = "closed", !.failure_count = 0, !.opened_at = Never], "ok")
      BY <1>1, <1>8, <2>1, <2>12 DEF call
    <3>2. /\ x.answer = "ok"
          /\ o' = [class |-> "breaker", threshold |-> o.threshold, recovery_timeout |-> o.recovery_timeout,
                   state |-> "closed", failure_count |-> 0, opened_at |-> Never, last_now |-> now]
      BY <1>4, <2>3, <3>1 DEF Returns
    <3>3. ASSUME x \in Called PROVE Remembers(o', l2)
      <4>1. StreakOf(l2, Len(l2) + 1) = {}
        BY <1>2, <1>4, <2>5, <2>9, <3>2, <3>3, StreakNext
      <4>2. Cardinality({}) = 0
        BY FS_EmptySet
      <4>3. o'.state = "closed" /\ o'.failure_count = Cardinality({}) /\ Cardinality({}) < o'.threshold
        BY <1>2, <3>2, <4>2
      <4> QED
        BY <4>1, <4>3, RemembersClosed
    <3>4. Never \in Int
      BY DEF Never
    <3> QED
      BY <1>2, <1>8, <2>5, <3>2, <3>3, <3>4
  <2> QED
    BY <2>10, <2>11, <2>12
<1> QED
  BY <1>2, <1>6, <1>7, <1>8

LEMMA ResetKeepsBreaker ==
  ASSUME BreakerOK, o' = reset(o).object, log' = Append(log, [kind |-> "reset", now |-> 0, answer |-> "None"])
  PROVE  BreakerOK'
<1>1. PICK x : x = [kind |-> "reset", now |-> 0, answer |-> "None"]
  OBVIOUS
<1>2. x \in Called /\ x.kind = "reset" /\ log' = Append(log, x)
  BY <1>1 DEF Called
<1>3. /\ log \in Seq(Called) /\ o.threshold \in Nat \ {0}
      /\ o \in [class : {"breaker"}, threshold : Nat \ {0}, recovery_timeout : Nat \ {0},
                state : {"closed", "open", "half_open"}, failure_count : Nat, opened_at : Int, last_now : Int]
  BY DEF BreakerOK
<1>4. /\ o' \in [class : {"breaker"}, threshold : Nat \ {0}, recovery_timeout : Nat \ {0},
                state : {"closed", "open", "half_open"}, failure_count : Nat, opened_at : Int, last_now : Int]
      /\ o'.threshold = o.threshold /\ o'.recovery_timeout = o.recovery_timeout
      /\ o'.state = "closed" /\ o'.failure_count = 0
  <2>1. o' = [o EXCEPT !.state = "closed", !.failure_count = 0, !.opened_at = Never, !.last_now = Never]
    BY DEF reset, Returns
  <2>2. Never \in Int
    BY DEF Never
  <2>3. PICK a1, a2, a3, a4, a5, a6 :
          /\ a1 = o.threshold /\ a2 = o.recovery_timeout /\ a3 = o.state /\ a4 = o.failure_count
          /\ a5 = o.opened_at /\ a6 = o.last_now
    OBVIOUS
  <2>4. /\ a1 \in Nat \ {0} /\ a2 \in Nat \ {0}
        /\ o = [class |-> "breaker", threshold |-> a1, recovery_timeout |-> a2,
                state |-> a3, failure_count |-> a4, opened_at |-> a5, last_now |-> a6]
    BY <1>3, <2>3
  <2>5. o' = [class |-> "breaker", threshold |-> a1, recovery_timeout |-> a2,
              state |-> "closed", failure_count |-> 0, opened_at |-> Never, last_now |-> Never]
    BY <2>1, <2>4
  <2> QED
    BY <2>2, <2>3, <2>4, <2>5
<1>5. /\ log' \in Seq(Called)
      /\ \A n \in 1..Len(log') : RefusedAt(log', n, o'.threshold, o'.recovery_timeout)
  BY <1>2, <1>4, RefusedNow
<1>6. Remembers(o', log')
  <2>1. Len(log') + 1 = Len(log) + 2
    <3>1. Len(log') = Len(log) + 1 /\ Len(log) \in Nat
      BY <1>2, <1>3, OneMore
    <3> QED
      BY <3>1
  <2>2. StreakOf(log', Len(log') + 1) = {}
    BY <1>2, <1>3, <2>1, StreakNext
  <2>3. Cardinality({}) = 0
    BY FS_EmptySet
  <2>4. o'.failure_count = Cardinality({}) /\ Cardinality({}) < o'.threshold
    BY <1>3, <1>4, <2>3
  <2> QED
    BY <1>4, <2>2, <2>4, RemembersClosed
<1> QED
  BY <1>4, <1>5, <1>6 DEF BreakerOK

LEMMA InitOracles == TestsInit => OraclesInv
<1> SUFFICES ASSUME TestsInit, test.kind = "generated"
             PROVE  /\ Quiet
                    /\ test.task = "rate-limiter" => LimiterOK
                    /\ test.task = "circuit-breaker" => BreakerOK
  BY DEF OraclesInv
<1>1. GeneratedInit /\ cand = "none"
  <2>1. ASSUME OfficialInit PROVE test.kind = "official"
    <3>1. PICK t, c : test = [kind |-> "official", task |-> t, candidate |-> c]
      BY <2>1, Zenon DEF OfficialInit
    <3> QED
      BY <3>1
  <2> QED
    BY <2>1 DEF TestsInit
<1>2. Quiet
  BY <1>1 DEF TestsInit, GeneratedInit, Quiet
<1>3. PICK t : /\ test = [kind |-> "generated", task |-> t, candidate |-> "reference"]
               /\ CASE t = "rate-limiter" -> \E limit, window \in Limits : o = NewLimiter(Integer(limit), Integer(window)).object
                    [] t = "circuit-breaker" -> \E threshold \in Limits, recovery \in Timeouts :
                                                 o = NewBreaker(Integer(threshold), Integer(recovery)).object
                    [] t = "frame-decoder" -> o = NewDecoder(10)
                    [] t = "dependency-resolver" -> \E graph \in Graphs : o = resolve_dependencies(graph)
                    [] OTHER -> o = NoObject
               /\ log = IF t = "frame-decoder" THEN [fed |-> <<>>, decoded |-> <<>>, ended |-> FALSE, total |-> 0] ELSE <<>>
  BY <1>1, Zenon DEF GeneratedInit
<1>4. test.task = t
  BY <1>3
<1>5. ASSUME test.task = "rate-limiter" PROVE LimiterOK
  <2>1. log = <<>> /\ \E limit, window \in Limits : o = NewLimiter(Integer(limit), Integer(window)).object
    BY <1>3, <1>4, <1>5
  <2>2. PICK limit \in Nat \ {0}, window \in Nat \ {0} : o = NewLimiter(Integer(limit), Integer(window)).object
    BY <2>1, LimitsAssumption
  <2>3. o = [class |-> "limiter", limit |-> limit, window |-> window, events |-> EmptyDict, last_call |-> EmptyDict]
    <3>1. PositiveInt(Integer(limit)) /\ PositiveNumber(Integer(window))
      BY <2>2 DEF PositiveInt, PositiveNumber, Integer
    <3> QED
      BY <2>2, <3>1 DEF NewLimiter, Returns, Integer
  <2>4. DOMAIN EmptyDict = {} /\ Len(log) = 0 /\ 1..Len(log) = {} /\ log \in Seq(Asked)
    BY <2>1 DEF EmptyDict
  <2>5. \A k : Taken(log, k) = {}
    BY <2>4 DEF Taken
  <2>6. o.limit = limit /\ o.window = window /\ o.events = EmptyDict /\ o.last_call = EmptyDict
    BY <2>3
  <2> QED
    BY <2>2, <2>3, <2>4, <2>5, <2>6 DEF LimiterOK
<1>6. ASSUME test.task = "circuit-breaker" PROVE BreakerOK
  <2>1. log = <<>> /\ \E threshold \in Limits, recovery \in Timeouts : o = NewBreaker(Integer(threshold), Integer(recovery)).object
    BY <1>3, <1>4, <1>6
  <2>2. PICK threshold \in Nat \ {0}, recovery \in Nat \ {0} : o = NewBreaker(Integer(threshold), Integer(recovery)).object
    BY <2>1, LimitsAssumption
  <2>3. o = [class |-> "breaker", threshold |-> threshold, recovery_timeout |-> recovery, state |-> "closed",
             failure_count |-> 0, opened_at |-> Never, last_now |-> Never]
    <3>1. PositiveInt(Integer(threshold)) /\ PositiveNumber(Integer(recovery))
      BY <2>2 DEF PositiveInt, PositiveNumber, Integer
    <3> QED
      BY <2>2, <3>1 DEF NewBreaker, Returns, Integer
  <2>4. Len(log) = 0 /\ 1..Len(log) = {} /\ log \in Seq(Called) /\ Never \in Int
    BY <2>1 DEF Never
  <2>5. StreakOf(log, Len(log) + 1) = {}
    <3>1. 1..((Len(log) + 1) - 1) = {}
      BY <2>4
    <3> QED
      BY <3>1 DEF StreakOf, RunsOf
  <2>6. Cardinality({}) = 0
    BY FS_EmptySet
  <2>7. Remembers(o, log)
    <3>1. o.state = "closed" /\ o.failure_count = Cardinality({}) /\ Cardinality({}) < o.threshold
      BY <2>2, <2>3, <2>6
    <3> QED
      BY <2>5, <3>1, RemembersClosed
  <2> QED
    BY <2>2, <2>3, <2>4, <2>7 DEF BreakerOK
<1> QED
  BY <1>2, <1>5, <1>6

LEMMA TestIsFixed == ASSUME [TestsNext]_testsVars PROVE test' = test
BY DEF TestsNext, send_case, evaluate, HostTimeout, Supervisor, _run_case, write_step, read_step, send_shutdown,
       wait_candidate, Candidate, _step, start_batch, end_batch, refuse_step, answer_anything, exit, fork,
              descendants_end, run_callback,
       Generated, worker_ends, cancel_batch, test_allow, test_call, test_reset, test_feed, decode, test_finish,
       resolve, generatedOnly, testsVars

LEMMA QuietStays ==
  ASSUME Quiet, [TestsNext]_testsVars
  PROVE  Quiet' /\ (Generated \/ run_callback \/ UNCHANGED testsVars)
<1>1. Generated \/ run_callback \/ UNCHANGED testsVars
  BY DEF Quiet, TestsNext, send_case, evaluate, HostTimeout, Supervisor, _run_case, write_step, read_step,
         send_shutdown, wait_candidate, Candidate, _step, start_batch, end_batch, refuse_step,
         answer_anything, exit, fork, descendants_end, PipeOpen
<1>2. UNCHANGED <<host, sup, cand, descendants>>
  BY <1>1 DEF run_callback, Generated, worker_ends, cancel_batch, test_allow, test_call, test_reset, test_feed,
              decode, test_finish, resolve, generatedOnly, testsVars, officialVars, hostVars, supVars, candVars
<1> QED
  BY <1>1, <1>2 DEF Quiet

LEMMA NextOracles == OraclesInv /\ [TestsNext]_testsVars => OraclesInv'
<1> SUFFICES ASSUME OraclesInv, [TestsNext]_testsVars PROVE OraclesInv'
  OBVIOUS
<1>1. test' = test
  BY TestIsFixed
<1> SUFFICES ASSUME test.kind = "generated"
             PROVE  /\ Quiet'
                    /\ test.task = "rate-limiter" => LimiterOK'
                    /\ test.task = "circuit-breaker" => BreakerOK'
  BY <1>1 DEF OraclesInv
<1>2. /\ Quiet
      /\ test.task = "rate-limiter" => LimiterOK
      /\ test.task = "circuit-breaker" => BreakerOK
  BY DEF OraclesInv
<1>3. Quiet' /\ (Generated \/ run_callback \/ UNCHANGED testsVars)
  BY <1>2, QuietStays
<1>5. ASSUME test.task = "rate-limiter" PROVE LimiterOK'
  <2>1. \/ UNCHANGED <<o, log>>
        \/ \E key \in Limited, now \in 0..MaxTime : test_allow(key, now)
    BY <1>3, <1>5 DEF run_callback, Generated, worker_ends, cancel_batch, test_call, test_reset, test_feed,
                      decode, test_finish, resolve, Generating, testsVars
  <2>2. CASE UNCHANGED <<o, log>>
    BY <1>2, <1>5, <2>2 DEF LimiterOK
  <2>3. ASSUME NEW key \in Limited, NEW now \in 0..MaxTime, test_allow(key, now) PROVE LimiterOK'
    <3>1. now \in Int
      OBVIOUS
    <3>2. /\ o' = allow(o, key, now).object
          /\ log' = Append(log, [key |-> key, now |-> now, answer |-> allow(o, key, now).value])
      BY <2>3 DEF test_allow
    <3> QED
      BY <1>2, <1>5, <3>1, <3>2, AllowKeepsLimiter
  <2> QED
    BY <2>1, <2>2, <2>3
<1>6. ASSUME test.task = "circuit-breaker" PROVE BreakerOK'
  <2>1. \/ UNCHANGED <<o, log>>
        \/ \E kind \in {"return", "raise", "interrupt"}, now \in 0..MaxTime : test_call(kind, now)
        \/ test_reset
    BY <1>3, <1>6 DEF run_callback, Generated, worker_ends, cancel_batch, test_allow, test_feed,
                      decode, test_finish, resolve, Generating, testsVars
  <2>2. CASE UNCHANGED <<o, log>>
    BY <1>2, <1>6, <2>2 DEF BreakerOK
  <2>3. ASSUME NEW kind \in {"return", "raise", "interrupt"}, NEW now \in 0..MaxTime, test_call(kind, now)
        PROVE  BreakerOK'
    <3>1. now \in Int
      OBVIOUS
    <3>2. /\ o' = call(o, [kind |-> kind, value |-> "ok"], now).object
          /\ log' = Append(log, [kind |-> kind, now |-> now,
                                 answer |-> call(o, [kind |-> kind, value |-> "ok"], now).value])
      BY <2>3 DEF test_call
    <3> QED
      BY <1>2, <1>6, <3>1, <3>2, CallKeepsBreaker
  <2>4. CASE test_reset
    BY <1>2, <1>6, <2>4, ResetKeepsBreaker DEF test_reset
  <2> QED
    BY <2>1, <2>2, <2>3, <2>4
<1> QED
  BY <1>3, <1>5, <1>6

LEMMA OraclesFollow == OraclesInv => AnswersFollowHistory
<1> SUFFICES ASSUME OraclesInv PROVE LimiterIsExact /\ BreakerFollowsHistory
  BY DEF AnswersFollowHistory
<1>1. LimiterIsExact
  <2> SUFFICES ASSUME Generating("rate-limiter"), NEW n \in DOMAIN log
               PROVE  LET allowed == {m \in Earlier(n) : log[m].answer = "True" /\ log[m].now > log[n].now - o.window}
                          later == {m \in Earlier(n) : log[m].answer # "ValueError" /\ log[m].now > log[n].now}
                      IN /\ log[n].answer = "ValueError" <=> later # {}
                         /\ log[n].answer = "False" => Cardinality(allowed) = o.limit
                         /\ log[n].answer = "True" => Cardinality(allowed) < o.limit
    BY DEF LimiterIsExact
  <2>1. LimiterOK
    BY DEF OraclesInv, Generating
  <2>2. n \in 1..Len(log)
    BY <2>1 DEF LimiterOK
  <2>3. ExactAt(log, n, o.limit, o.window)
    BY <2>1, <2>2 DEF LimiterOK
  <2> QED
    BY <2>3 DEF ExactAt, Earlier
<1>2. BreakerFollowsHistory
  <2> SUFFICES ASSUME Generating("circuit-breaker"), NEW n \in DOMAIN log, log[n].kind # "reset", log[n].answer # "ValueError"
               PROVE  log[n].answer = "CircuitOpenError" <=>
                        /\ Cardinality(Streak(n)) >= o.threshold
                        /\ log[n].now < log[Max(Streak(n))].now + o.recovery_timeout
    BY DEF BreakerFollowsHistory
  <2>1. BreakerOK
    BY DEF OraclesInv, Generating
  <2>2. n \in 1..Len(log)
    BY <2>1 DEF BreakerOK
  <2>3. RefusedAt(log, n, o.threshold, o.recovery_timeout)
    BY <2>1, <2>2 DEF BreakerOK
  <2>4. Streak(n) = StreakOf(log, n)
    BY DEF Streak, StreakOf, Runs, RunsOf
  <2> QED
    BY <2>3, <2>4 DEF RefusedAt
<1> QED
  BY <1>1, <1>2

\* SlidingWindowRateLimiter.allow, CircuitBreaker.call: for any limits and times and
\* after any calls, an answer is what the whole history of calls demands, although the
\* limiter forgets all calls outside the window and the breaker keeps one count and one
\* time.
THEOREM HistoryIsFollowed == TestsSpec => []AnswersFollowHistory
<1>1. TestsInit => OraclesInv
  BY InitOracles
<1>2. OraclesInv /\ [TestsNext]_testsVars => OraclesInv'
  BY NextOracles
<1>3. OraclesInv => AnswersFollowHistory
  BY OraclesFollow
<1> QED
  BY <1>1, <1>2, <1>3, PTL DEF TestsSpec

-----------------------------------------------------------------------------
(***************************************************************************)
(* resolve_dependencies, for any graph.  What is resolved so far is an     *)
(* order in which every node follows its dependencies, none of the orders  *)
(* of the whole graph departs from it to a smaller node, and what is       *)
(* available is exactly what may come next.                                *)
(***************************************************************************)

NeededBy(graph, n) == Lookup(graph, n, {})

Placed(r) == {r.resolved[i] : i \in 1..Len(r.resolved)}

\* Every node of s follows what it needs.
EachFollows(graph, s) ==
  \A i \in 1..Len(s) : \A d \in NeededBy(graph, s[i]) : \E j \in 1..(i - 1) : s[j] = d

\* The same of an order of all nodes.
AllFollow(graph, f) ==
  \A k \in 1..Cardinality(AllNodes(graph)) : \A d \in NeededBy(graph, f[k]) :
    \E i \in 1..Cardinality(AllNodes(graph)) : i < k /\ f[i] = d

\* No order of all nodes departs from s to a smaller node.
NoneDeparts(graph, s) ==
  \A f \in Orders(graph) :
    ~\E i \in 1..Len(s) : f[i] < s[i] /\ \A j \in 1..(i - 1) : f[j] = s[j]

GraphOK(r) ==
  /\ AllNodes(r.graph) \subseteq Nat /\ IsFiniteSet(AllNodes(r.graph))
  /\ DOMAIN r.graph \subseteq AllNodes(r.graph) /\ \A n \in DOMAIN r.graph : r.graph[n] \subseteq AllNodes(r.graph)

ResolverHas(r) ==
  /\ r = [class |-> "resolver", graph |-> r.graph, indegree |-> r.indegree,
          available |-> r.available, resolved |-> r.resolved, phase |-> r.phase]
  /\ r.phase \in {"loop", "returned", "DependencyCycleError"}
  /\ GraphOK(r)
  /\ r.resolved \in Seq(AllNodes(r.graph))
  /\ \A i, j \in 1..Len(r.resolved) : r.resolved[i] = r.resolved[j] => i = j
  /\ DOMAIN r.indegree = AllNodes(r.graph)
  /\ \A n \in AllNodes(r.graph) : r.indegree[n] = Cardinality(NeededBy(r.graph, n) \ Placed(r))
  /\ r.available = {n \in AllNodes(r.graph) \ Placed(r) : NeededBy(r.graph, n) \subseteq Placed(r)}
  /\ EachFollows(r.graph, r.resolved) /\ NoneDeparts(r.graph, r.resolved)
  /\ r.phase = "returned" => Len(r.resolved) = Cardinality(AllNodes(r.graph))
  /\ r.phase = "DependencyCycleError" => r.available = {} /\ Len(r.resolved) # Cardinality(AllNodes(r.graph))

ResolverInv ==
  test.kind = "generated" =>
    /\ Quiet
    /\ test.task = "dependency-resolver" => ResolverHas(o)

LEMMA MinIs ==
  ASSUME NEW S \in SUBSET Nat, S # {}
  PROVE  Min(S) \in S /\ \A y \in S : Min(S) <= y
<1>1. PICK x \in S : \A y \in S : x <= y
  BY LeastExists
<1>2. \A z \in S : (\A y \in S : z =< y) => z = x
  BY <1>1
<1>3. Min(S) = x
  BY <1>1, <1>2 DEF Min
<1> QED
  BY <1>1, <1>3

\* In an order of all nodes, what a node needs stands before it.
LEMMA OrdersGiveEarlier ==
  ASSUME NEW graph, NEW f \in Orders(graph)
  PROVE  AllFollow(graph, f)
<1> SUFFICES ASSUME NEW k \in 1..Cardinality(AllNodes(graph)), NEW d \in NeededBy(graph, f[k])
             PROVE  \E i \in 1..Cardinality(AllNodes(graph)) : i < k /\ f[i] = d
  BY DEF AllFollow
<1>1. PICK size : size = Cardinality(AllNodes(graph))
  OBVIOUS
<1>2. /\ f \in [1..size -> AllNodes(graph)] /\ DOMAIN f = 1..size
      /\ \A i, j \in 1..size : f[i] = f[j] => i = j
      /\ \A n \in DOMAIN graph : \A x \in graph[n] :
           \E i, j \in DOMAIN f : f[i] = x /\ f[j] = n /\ i < j
  BY <1>1 DEF Orders, IsInjective
<1>3. f[k] \in DOMAIN graph /\ d \in graph[f[k]]
  BY DEF NeededBy, Lookup
<1>4. PICK i, j \in 1..size : f[i] = d /\ f[j] = f[k] /\ i < j
  BY <1>2, <1>3
<1>5. j = k
  BY <1>1, <1>2, <1>4
<1> QED
  BY <1>1, <1>4, <1>5

LEMMA PlacedCount ==
  ASSUME NEW r, ResolverHas(r)
  PROVE  /\ Placed(r) \subseteq AllNodes(r.graph) /\ IsFiniteSet(Placed(r))
         /\ Cardinality(Placed(r)) = Len(r.resolved) /\ Len(r.resolved) \in Nat
<1>1. PICK s, N : s = r.resolved /\ N = AllNodes(r.graph)
  OBVIOUS
<1>2. s \in Seq(N) /\ \A i, j \in 1..Len(s) : s[i] = s[j] => i = j
  BY <1>1 DEF ResolverHas
<1>3. Len(s) \in Nat /\ DOMAIN s = 1..Len(s) /\ \A i \in 1..Len(s) : s[i] \in N
  BY <1>2
<1>4. PICK P : P = {s[i] : i \in 1..Len(s)}
  OBVIOUS
<1>5. s \in [1..Len(s) -> P] /\ \A x \in P : \E i \in 1..Len(s) : s[i] = x
  BY <1>2, <1>3, <1>4
<1>6. s \in Bijection(1..Len(s), P)
  BY <1>2, <1>3, <1>5 DEF Bijection, Injection, Surjection, IsInjective
<1>7. 1 \in Int /\ Len(s) \in Int
  BY <1>3
<1>8. IsFiniteSet(1..Len(s)) /\ Cardinality(1..Len(s)) = Len(s)
  BY <1>3, <1>7, FS_Interval
<1>9. IsFiniteSet(P) /\ Cardinality(P) = Len(s)
  BY <1>6, <1>8, FS_Bijection DEF ExistsBijection
<1> QED
  BY <1>1, <1>3, <1>4, <1>9 DEF Placed

\* The smallest available node is placed.
LEMMA ResolvePlaces ==
  ASSUME NEW r, ResolverHas(r), r.phase = "loop", r.available # {}
  PROVE  ResolverHas(Resolve(r))
<1>1. PICK g, N, P, s, A, node : /\ g = r.graph /\ N = AllNodes(g) /\ P = Placed(r) /\ s = r.resolved
                                 /\ A = r.available /\ node = Min(A)
  OBVIOUS
<1>2. /\ N \subseteq Nat /\ IsFiniteSet(N) /\ DOMAIN g \subseteq N /\ \A n \in DOMAIN g : g[n] \subseteq N
      /\ s \in Seq(N) /\ \A i, j \in 1..Len(s) : s[i] = s[j] => i = j
      /\ DOMAIN r.indegree = N /\ \A n \in N : r.indegree[n] = Cardinality(NeededBy(g, n) \ P)
      /\ A = {n \in N \ P : NeededBy(g, n) \subseteq P}
      /\ EachFollows(g, s) /\ NoneDeparts(g, s)
  BY <1>1 DEF ResolverHas, GraphOK
<1>3. node \in A /\ \A n \in A : node <= n
  BY <1>1, <1>2, MinIs
<1>4. node \in N \ P /\ NeededBy(g, node) \subseteq P
  BY <1>2, <1>3
<1>5. PICK degree : degree = [n \in N |-> r.indegree[n] - IF n \in Dependents(r, node) THEN 1 ELSE 0]
  OBVIOUS
<1>6. PICK A2, s2 : A2 = (A \ {node}) \cup {n \in Dependents(r, node) : degree[n] = 0} /\ s2 = Append(s, node)
  OBVIOUS
<1>7. PICK r2 : r2 = Resolve(r)
  OBVIOUS
<1>8. r2 = [class |-> "resolver", graph |-> g, indegree |-> degree, available |-> A2, resolved |-> s2, phase |-> "loop"]
  <2>1. r = [class |-> "resolver", graph |-> g, indegree |-> r.indegree, available |-> A, resolved |-> s, phase |-> "loop"]
    BY <1>1 DEF ResolverHas
  <2>2. r2 = [r EXCEPT !.indegree = degree, !.resolved = Append(@, node),
                       !.available = (@ \ {node}) \cup {n \in Dependents(r, node) : degree[n] = 0}]
    <3>1. node = Min(r.available) /\ r.available # {}
          /\ degree = [n \in DOMAIN r.indegree |-> r.indegree[n] - IF n \in Dependents(r, node) THEN 1 ELSE 0]
      BY <1>1, <1>2, <1>5
    <3> QED
      BY <1>7, <3>1 DEF Resolve
  <2>3. r2 = [r EXCEPT !.indegree = degree, !.resolved = s2, !.available = A2]
    BY <1>1, <1>6, <2>2
  <2>4. PICK before : before = r.indegree
    OBVIOUS
  <2>5. r = [class |-> "resolver", graph |-> g, indegree |-> before, available |-> A, resolved |-> s, phase |-> "loop"]
    BY <2>1, <2>4
  <2> QED
    BY <2>3, <2>5
<1>9. r2.graph = g /\ r2.indegree = degree /\ r2.available = A2 /\ r2.resolved = s2 /\ r2.phase = "loop"
  BY <1>8
<1>10. PICK size : size = Len(s) /\ size \in Nat
  BY <1>2
<1>11. \A i \in 1..size : \A d \in NeededBy(g, s[i]) : \E j \in 1..(i - 1) : s[j] = d
  BY <1>2, <1>10 DEF EachFollows
<1>12. /\ s2 \in Seq(N) /\ Len(s2) = size + 1 /\ s2[size + 1] = node /\ \A i \in 1..size : s2[i] = s[i]
       /\ 1..Len(s2) = 1..size \cup {size + 1} /\ size + 1 \notin 1..size
  BY <1>2, <1>4, <1>6, <1>10, OneMore
<1>13. P = {s[i] : i \in 1..size}
  BY <1>1, <1>10 DEF Placed
<1>14. Placed(r2) = P \cup {node}
  <2>1. Placed(r2) = {s2[i] : i \in 1..Len(s2)}
    BY <1>9 DEF Placed
  <2> QED
    BY <1>12, <1>13, <2>1
<1>15. \A i, j \in 1..Len(s2) : s2[i] = s2[j] => i = j
  <2>1. \A i \in 1..size : s2[i] # node
    BY <1>4, <1>12, <1>13
  <2> QED
    BY <1>2, <1>10, <1>12, <2>1
<1>16. \A n \in N : n \in Dependents(r, node) <=> node \in NeededBy(g, n)
  BY <1>1, <1>2 DEF Dependents, NeededBy, Lookup
<1>17. ASSUME NEW n \in N PROVE degree[n] = Cardinality(NeededBy(g, n) \ (P \cup {node}))
  <2>1. PICK D : D = NeededBy(g, n) \ P
    OBVIOUS
  <2>2. IsFiniteSet(D)
    <3>1. D \subseteq N
      BY <1>2, <2>1 DEF NeededBy, Lookup
    <3> QED
      BY <1>2, <3>1, FS_Subset
  <2>3. NeededBy(g, n) \ (P \cup {node}) = D \ {node} /\ (node \in D <=> node \in NeededBy(g, n))
    BY <1>4, <2>1
  <2>4. Cardinality(D \ {node}) = IF node \in D THEN Cardinality(D) - 1 ELSE Cardinality(D)
    BY <2>2, FS_RemoveElement
  <2>5. degree[n] = Cardinality(D) - IF n \in Dependents(r, node) THEN 1 ELSE 0
    BY <1>2, <1>5, <1>17, <2>1
  <2>6. Cardinality(D) \in Nat
    BY <2>2, FS_CardinalityType
  <2> QED
    <3>1. CASE node \in NeededBy(g, n)
      <4>1. degree[n] = Cardinality(D) - 1 /\ Cardinality(D \ {node}) = Cardinality(D) - 1
        BY <1>16, <1>17, <2>3, <2>4, <2>5, <3>1
      <4> QED
        BY <2>3, <4>1
    <3>2. CASE node \notin NeededBy(g, n)
      <4>1. degree[n] = Cardinality(D) - 0 /\ Cardinality(D \ {node}) = Cardinality(D)
        BY <1>16, <1>17, <2>3, <2>4, <2>5, <3>2
      <4> QED
        BY <2>3, <2>6, <4>1
    <3> QED
      BY <3>1, <3>2
<1>18. A2 = {n \in N \ (P \cup {node}) : NeededBy(g, n) \subseteq P \cup {node}}
  <2>1. ASSUME NEW n \in N \ (P \cup {node}), NeededBy(g, n) \subseteq P \cup {node} PROVE n \in A2
    <3>1. CASE node \in NeededBy(g, n)
      <4>1. NeededBy(g, n) \ (P \cup {node}) = {} /\ n \in Dependents(r, node)
        BY <1>16, <2>1, <3>1
      <4>2. degree[n] = 0
        BY <1>17, <2>1, <4>1, FS_EmptySet
      <4> QED
        BY <1>6, <4>1, <4>2
    <3>2. CASE node \notin NeededBy(g, n)
      BY <1>2, <1>6, <2>1, <3>2
    <3> QED
      BY <3>1, <3>2
  <2>2. ASSUME NEW n \in A \ {node}
        PROVE  n \in N \ (P \cup {node}) /\ NeededBy(g, n) \subseteq P \cup {node}
    BY <1>2, <2>2
  <2>3. ASSUME NEW n \in Dependents(r, node), degree[n] = 0
        PROVE  n \in N \ (P \cup {node}) /\ NeededBy(g, n) \subseteq P \cup {node}
    <3>1. n \in N
      BY <1>1, <1>2, <2>3 DEF Dependents
    <3>2. node \in NeededBy(g, n)
      BY <1>16, <2>3, <3>1
    <3>3. NeededBy(g, n) \subseteq P \cup {node}
      <4>1. Cardinality(NeededBy(g, n) \ (P \cup {node})) = 0
        BY <1>17, <2>3, <3>1
      <4>2. IsFiniteSet(NeededBy(g, n) \ (P \cup {node}))
        <5>1. NeededBy(g, n) \ (P \cup {node}) \subseteq N
          BY <1>2 DEF NeededBy, Lookup
        <5> QED
          BY <1>2, <5>1, FS_Subset
      <4>3. NeededBy(g, n) \ (P \cup {node}) = {}
        BY <4>1, <4>2, FS_EmptySet
      <4> QED
        BY <4>3
    <3>4. n # node
      BY <1>4, <3>2
    <3>5. ASSUME n \in P PROVE FALSE
      <4>1. PICK i \in 1..size : s[i] = n
        BY <1>13, <3>5
      <4>2. PICK j \in 1..(i - 1) : s[j] = node
        BY <1>11, <3>2, <4>1
      <4>3. j \in 1..size
        BY <1>10, <4>1, <4>2
      <4> QED
        BY <1>4, <1>13, <4>2, <4>3
    <3> QED
      BY <3>1, <3>3, <3>4, <3>5
  <2> QED
    BY <1>6, <2>1, <2>2, <2>3
<1>19. \A i \in 1..Len(s2) : \A d \in NeededBy(g, s2[i]) : \E j \in 1..(i - 1) : s2[j] = d
  <2> SUFFICES ASSUME NEW i \in 1..Len(s2), NEW d \in NeededBy(g, s2[i]) PROVE \E j \in 1..(i - 1) : s2[j] = d
    OBVIOUS
  <2>1. CASE i \in 1..size
    <3>1. PICK j \in 1..(i - 1) : s[j] = d
      BY <1>12, <1>11, <2>1
    <3>2. j \in 1..size
      BY <1>10, <2>1, <3>1
    <3> QED
      BY <1>12, <3>1, <3>2
  <2>2. CASE i = size + 1
    <3>1. d \in P
      BY <1>4, <1>12, <2>2
    <3>2. PICK j \in 1..size : s[j] = d
      BY <1>13, <3>1
    <3>3. j \in 1..(i - 1)
      BY <1>10, <2>2, <3>2
    <3> QED
      BY <1>12, <3>2, <3>3
  <2> QED
    BY <1>12, <2>1, <2>2
<1>20. ASSUME NEW f \in Orders(g), NEW i \in 1..Len(s2), f[i] < s2[i], \A j \in 1..(i - 1) : f[j] = s2[j]
       PROVE  FALSE
  <2>1. CASE i \in 1..size
    <3>1. \A j \in 1..(i - 1) : f[j] = s[j]
      <4>1. \A j \in 1..(i - 1) : j \in 1..size
        BY <1>10, <2>1
      <4> QED
        BY <1>12, <1>20, <4>1
    <3>2. f[i] < s[i]
      BY <1>12, <1>20, <2>1
    <3>3. ~\E k \in 1..size : f[k] < s[k] /\ \A j \in 1..(k - 1) : f[j] = s[j]
      BY <1>2, <1>10, <1>20 DEF NoneDeparts
    <3> QED
      BY <2>1, <3>1, <3>2, <3>3
  <2>2. CASE i = size + 1
    <3>1. PICK c : c = Cardinality(N) /\ c \in Nat
      BY <1>2, FS_CardinalityType
    <3>2. /\ f \in [1..c -> N] /\ \A j, k \in 1..c : f[j] = f[k] => j = k
      BY <1>1, <1>20, <3>1 DEF Orders, IsInjective
    <3>3. \A j \in 1..size : f[j] = s[j]
      <4>1. \A j \in 1..size : j \in 1..(i - 1)
        BY <1>10, <2>2
      <4> QED
        BY <1>12, <1>20, <4>1
    <3>4. i \in 1..c
      <4>1. Cardinality(P) = size /\ P \subseteq N /\ IsFiniteSet(P)
        BY <1>1, <1>10, PlacedCount
      <4>2. IsFiniteSet(P \cup {node}) /\ Cardinality(P \cup {node}) = size + 1
        BY <1>4, <4>1, FS_AddElement
      <4>3. P \cup {node} \in SUBSET N
        BY <1>4, <4>1
      <4>4. size + 1 <= c
        BY <1>2, <3>1, <4>2, <4>3, FS_Subset
      <4> QED
        BY <1>10, <2>2, <3>1, <4>4
    <3>5. f[i] \in N \ P
      <4>1. f[i] \in N
        BY <3>2, <3>4
      <4>2. ASSUME f[i] \in P PROVE FALSE
        <5>1. PICK j \in 1..size : s[j] = f[i]
          BY <1>13, <4>2
        <5>2. f[j] = f[i] /\ j \in 1..c /\ j # i
          BY <1>10, <2>2, <3>1, <3>3, <3>4, <5>1
        <5> QED
          BY <3>2, <3>4, <5>2
      <4> QED
        BY <4>1, <4>2
    <3>6. NeededBy(g, f[i]) \subseteq P
      <4> SUFFICES ASSUME NEW d \in NeededBy(g, f[i]) PROVE d \in P
        OBVIOUS
      <4>1. PICK j \in 1..c : j < i /\ f[j] = d
        <5>1. i \in 1..Cardinality(AllNodes(g))
          BY <1>1, <3>1, <3>4
        <5>2. \E j \in 1..Cardinality(AllNodes(g)) : j < i /\ f[j] = d
          <6>1. AllFollow(g, f)
            BY OrdersGiveEarlier
          <6> QED
            BY <5>1, <6>1 DEF AllFollow
        <5> QED
          BY <1>1, <3>1, <5>2
      <4>2. j \in 1..size
        BY <1>10, <2>2, <4>1
      <4> QED
        BY <1>13, <3>3, <4>1, <4>2
    <3>7. f[i] \in A
      BY <1>2, <3>5, <3>6
    <3>8. node <= f[i] /\ f[i] \in Nat /\ node \in Nat /\ f[i] < node
      BY <1>2, <1>3, <1>4, <1>12, <1>20, <2>2, <3>5, <3>7
    <3> QED
      BY <3>8
  <2> QED
    BY <1>12, <2>1, <2>2
<1>21. EachFollows(g, s2) /\ NoneDeparts(g, s2)
  BY <1>19, <1>20 DEF EachFollows, NoneDeparts
<1>22. /\ DOMAIN degree = N /\ \A n \in N : degree[n] = Cardinality(NeededBy(g, n) \ Placed(r2))
       /\ A2 = {n \in N \ Placed(r2) : NeededBy(g, n) \subseteq Placed(r2)}
  BY <1>5, <1>14, <1>17, <1>18
<1>23. GraphOK(r2)
  BY <1>1, <1>2, <1>9 DEF GraphOK
<1>24. ResolverHas(r2)
  <2>1. AllNodes(r2.graph) = N
    BY <1>1, <1>9
  <2>2. /\ r2 = [class |-> "resolver", graph |-> r2.graph, indegree |-> r2.indegree,
                  available |-> r2.available, resolved |-> r2.resolved, phase |-> r2.phase]
        /\ r2.phase = "loop"
    BY <1>8, <1>9
  <2>3. /\ r2.resolved \in Seq(AllNodes(r2.graph))
        /\ \A i, j \in 1..Len(r2.resolved) : r2.resolved[i] = r2.resolved[j] => i = j
    BY <1>9, <1>12, <1>15, <2>1
  <2>4. /\ DOMAIN r2.indegree = AllNodes(r2.graph)
        /\ \A n \in AllNodes(r2.graph) : r2.indegree[n] = Cardinality(NeededBy(r2.graph, n) \ Placed(r2))
        /\ r2.available = {n \in AllNodes(r2.graph) \ Placed(r2) : NeededBy(r2.graph, n) \subseteq Placed(r2)}
    BY <1>9, <1>22, <2>1
  <2> QED
    BY <1>9, <1>21, <1>23, <2>2, <2>3, <2>4 DEF ResolverHas
<1> QED
  BY <1>7, <1>24

\* Nothing is available any more.
LEMMA ResolveEnds ==
  ASSUME NEW r, ResolverHas(r), r.phase = "loop", r.available = {}
  PROVE  ResolverHas(Resolve(r))
<1>1. PICK r2, phase : /\ r2 = Resolve(r)
                       /\ phase = IF Len(r.resolved) = Cardinality(AllNodes(r.graph)) THEN "returned"
                                  ELSE "DependencyCycleError"
  OBVIOUS
<1>2. r2 = [r EXCEPT !.phase = phase]
  BY <1>1 DEF Resolve, ResolverHas
<1>3. r = [class |-> "resolver", graph |-> r.graph, indegree |-> r.indegree,
           available |-> r.available, resolved |-> r.resolved, phase |-> r.phase]
  BY DEF ResolverHas
<1>4. r2 = [class |-> "resolver", graph |-> r.graph, indegree |-> r.indegree,
            available |-> r.available, resolved |-> r.resolved, phase |-> phase]
  BY <1>2, <1>3
<1>5. /\ r2.graph = r.graph /\ r2.indegree = r.indegree /\ r2.available = r.available
      /\ r2.resolved = r.resolved /\ r2.phase = phase
  BY <1>4
<1>6. Placed(r2) = Placed(r) /\ (GraphOK(r) => GraphOK(r2))
  BY <1>5 DEF Placed, GraphOK
<1>7. ResolverHas(r2)
  BY <1>1, <1>4, <1>5, <1>6 DEF ResolverHas
<1> QED
  BY <1>1, <1>7

LEMMA NewResolver ==
  ASSUME NEW graph \in Graphs
  PROVE  ResolverHas(resolve_dependencies(graph))
<1>1. PICK r, N : r = resolve_dependencies(graph) /\ N = AllNodes(graph)
  OBVIOUS
<1>2. PICK keys \in SUBSET Nodes : graph \in [keys -> SUBSET Nodes]
  BY DEF Graphs
<1>3. /\ N \subseteq Nodes /\ DOMAIN graph \subseteq N /\ \A n \in DOMAIN graph : graph[n] \subseteq N
  BY <1>1, <1>2 DEF AllNodes, Range
<1>4. N \subseteq Nat /\ IsFiniteSet(N)
  BY <1>3, NodesAssumption, FS_Subset
<1>5. PICK degree : degree = [n \in N |-> Cardinality(Lookup(graph, n, {}))]
  OBVIOUS
<1>6. r = [class |-> "resolver", graph |-> graph, indegree |-> degree,
           available |-> {n \in N : degree[n] = 0}, resolved |-> <<>>, phase |-> "loop"]
  BY <1>1, <1>5 DEF resolve_dependencies
<1>7. /\ r.graph = graph /\ r.indegree = degree /\ r.available = {n \in N : degree[n] = 0}
      /\ r.resolved = <<>> /\ r.phase = "loop"
  BY <1>6
<1>8. Len(r.resolved) = 0 /\ 1..Len(r.resolved) = {} /\ r.resolved \in Seq(N)
  BY <1>7
<1>9. Placed(r) = {}
  BY <1>8 DEF Placed
<1>10. ASSUME NEW n \in N PROVE degree[n] = Cardinality(NeededBy(graph, n)) /\ (degree[n] = 0 <=> NeededBy(graph, n) = {})
  <2>1. NeededBy(graph, n) \subseteq N
    BY <1>3 DEF NeededBy, Lookup
  <2>2. IsFiniteSet(NeededBy(graph, n))
    BY <1>4, <2>1, FS_Subset
  <2>3. degree[n] = Cardinality(NeededBy(graph, n))
    BY <1>5, <1>10 DEF NeededBy
  <2> QED
    BY <2>2, <2>3, FS_EmptySet
<1>11. /\ DOMAIN degree = N /\ \A n \in N : degree[n] = Cardinality(NeededBy(graph, n) \ {})
       /\ {n \in N : degree[n] = 0} = {n \in N \ {} : NeededBy(graph, n) \subseteq {}}
  <2>1. \A n : NeededBy(graph, n) \ {} = NeededBy(graph, n)
    OBVIOUS
  <2> QED
    BY <1>5, <1>10, <2>1
<1>12. EachFollows(r.graph, r.resolved) /\ NoneDeparts(r.graph, r.resolved) /\ GraphOK(r)
  BY <1>1, <1>3, <1>4, <1>7, <1>8 DEF EachFollows, NoneDeparts, GraphOK
<1>13. /\ DOMAIN r.indegree = AllNodes(r.graph)
       /\ \A n \in AllNodes(r.graph) : r.indegree[n] = Cardinality(NeededBy(r.graph, n) \ Placed(r))
       /\ r.available = {n \in AllNodes(r.graph) \ Placed(r) : NeededBy(r.graph, n) \subseteq Placed(r)}
  BY <1>1, <1>7, <1>9, <1>11
<1>14. ResolverHas(r)
  BY <1>1, <1>6, <1>7, <1>8, <1>12, <1>13 DEF ResolverHas
<1> QED
  BY <1>1, <1>14

LEMMA InitResolver == TestsInit => ResolverInv
<1> SUFFICES ASSUME TestsInit, test.kind = "generated"
             PROVE  Quiet /\ (test.task = "dependency-resolver" => ResolverHas(o))
  BY DEF ResolverInv
<1>1. GeneratedInit /\ cand = "none"
  <2>1. ASSUME OfficialInit PROVE test.kind = "official"
    <3>1. PICK t, c : test = [kind |-> "official", task |-> t, candidate |-> c]
      BY <2>1, Zenon DEF OfficialInit
    <3> QED
      BY <3>1
  <2> QED
    BY <2>1 DEF TestsInit
<1>2. Quiet
  BY <1>1 DEF TestsInit, GeneratedInit, Quiet
<1>3. PICK t : /\ test = [kind |-> "generated", task |-> t, candidate |-> "reference"]
               /\ CASE t = "rate-limiter" -> \E limit, window \in Limits : o = NewLimiter(Integer(limit), Integer(window)).object
                    [] t = "circuit-breaker" -> \E threshold \in Limits, recovery \in Timeouts :
                                                 o = NewBreaker(Integer(threshold), Integer(recovery)).object
                    [] t = "frame-decoder" -> o = NewDecoder(10)
                    [] t = "dependency-resolver" -> \E graph \in Graphs : o = resolve_dependencies(graph)
                    [] OTHER -> o = NoObject
  BY <1>1, Zenon DEF GeneratedInit
<1>4. ASSUME test.task = "dependency-resolver" PROVE ResolverHas(o)
  <2>1. t = "dependency-resolver"
    BY <1>3, <1>4
  <2>2. PICK graph \in Graphs : o = resolve_dependencies(graph)
    BY <1>3, <2>1
  <2> QED
    BY <2>2, NewResolver
<1> QED
  BY <1>2, <1>4

LEMMA NextResolver == ResolverInv /\ [TestsNext]_testsVars => ResolverInv'
<1> SUFFICES ASSUME ResolverInv, [TestsNext]_testsVars PROVE ResolverInv'
  OBVIOUS
<1>1. test' = test
  BY TestIsFixed
<1> SUFFICES ASSUME test.kind = "generated"
             PROVE  Quiet' /\ (test.task = "dependency-resolver" => ResolverHas(o)')
  BY <1>1 DEF ResolverInv
<1>2. Quiet /\ (test.task = "dependency-resolver" => ResolverHas(o))
  BY DEF ResolverInv
<1>3. Quiet' /\ (Generated \/ run_callback \/ UNCHANGED testsVars)
  BY <1>2, QuietStays
<1>4. ASSUME test.task = "dependency-resolver" PROVE ResolverHas(o')
  <2>1. UNCHANGED o \/ (o.phase = "loop" /\ o' = Resolve(o))
    BY <1>3, <1>4 DEF run_callback, Generated, worker_ends, cancel_batch, test_allow, test_call, test_reset,
                      test_feed, decode, test_finish, resolve, Generating, testsVars
  <2> QED
    BY <1>2, <1>4, <2>1, ResolvePlaces, ResolveEnds
<1> QED
  BY <1>3, <1>4

LEMMA ResolverFollows == ResolverInv => ResolverIsLeast
<1> SUFFICES ASSUME ResolverInv, Generating("dependency-resolver")
             PROVE  /\ o.phase = "returned" => /\ o.resolved \in Orders(o.graph)
                                               /\ ~\E f \in Orders(o.graph) : Precedes(f, o.resolved)
                    /\ o.phase = "DependencyCycleError" => Orders(o.graph) = {}
  BY DEF ResolverIsLeast
<1>1. ResolverHas(o)
  BY DEF ResolverInv, Generating
<1>2. PICK g, N, P, s, c : g = o.graph /\ N = AllNodes(g) /\ P = Placed(o) /\ s = o.resolved /\ c = Cardinality(N)
  OBVIOUS
<1>3. /\ IsFiniteSet(N) /\ DOMAIN g \subseteq N /\ \A n \in DOMAIN g : g[n] \subseteq N
      /\ s \in Seq(N) /\ \A i, j \in 1..Len(s) : s[i] = s[j] => i = j
      /\ o.available = {n \in N \ P : NeededBy(g, n) \subseteq P}
  BY <1>1, <1>2 DEF ResolverHas, GraphOK
<1>4. /\ \A i \in 1..Len(s) : \A d \in NeededBy(g, s[i]) : \E j \in 1..(i - 1) : s[j] = d
      /\ \A f \in Orders(g) : ~\E i \in 1..Len(s) : f[i] < s[i] /\ \A j \in 1..(i - 1) : f[j] = s[j]
  <2>1. EachFollows(g, s) /\ NoneDeparts(g, s)
    BY <1>1, <1>2 DEF ResolverHas
  <2> QED
    BY <2>1 DEF EachFollows, NoneDeparts
<1>5. P \subseteq N /\ IsFiniteSet(P) /\ Cardinality(P) = Len(s) /\ Len(s) \in Nat /\ c \in Nat
  BY <1>1, <1>2, <1>3, PlacedCount, FS_CardinalityType
<1>6. P = {s[i] : i \in 1..Len(s)}
  BY <1>2 DEF Placed
<1>7. ASSUME o.phase = "returned" PROVE s \in Orders(g) /\ ~\E f \in Orders(g) : Precedes(f, s)
  <2>1. Len(s) = c
    BY <1>1, <1>2, <1>7 DEF ResolverHas
  <2>2. P = N
    BY <1>2, <1>3, <1>5, <2>1, SameSize
  <2>3. s \in [1..c -> N] /\ DOMAIN s = 1..c /\ IsInjective(s)
    BY <1>3, <2>1 DEF IsInjective
  <2>4. ASSUME NEW n \in DOMAIN g, NEW d \in g[n]
        PROVE  \E i, j \in DOMAIN s : s[i] = d /\ s[j] = n /\ i < j
    <3>1. n \in P /\ d \in NeededBy(g, n)
      BY <1>3, <2>2, <2>4 DEF NeededBy, Lookup
    <3>2. PICK j \in 1..Len(s) : s[j] = n
      BY <1>6, <3>1
    <3>3. PICK i \in 1..(j - 1) : s[i] = d
      BY <1>4, <3>1, <3>2
    <3>4. i \in 1..Len(s) /\ i < j
      BY <1>5, <3>2, <3>3
    <3> QED
      BY <2>1, <2>3, <3>2, <3>3, <3>4
  <2>5. s \in Orders(g)
    BY <1>2, <2>3, <2>4 DEF Orders
  <2>6. ASSUME NEW f \in Orders(g), Precedes(f, s) PROVE FALSE
    <3>1. DOMAIN f = 1..Len(s)
      BY <1>2, <2>1, <2>6 DEF Orders
    <3>2. \E i \in 1..Len(s) : f[i] < s[i] /\ \A j \in 1..(i - 1) : f[j] = s[j]
      BY <2>6, <3>1 DEF Precedes
    <3> QED
      BY <1>4, <2>6, <3>2
  <2> QED
    BY <2>5, <2>6
<1>8. ASSUME o.phase = "DependencyCycleError", NEW f \in Orders(g) PROVE FALSE
  <2>1. o.available = {} /\ Len(s) # c
    BY <1>1, <1>2, <1>8 DEF ResolverHas
  <2>2. /\ f \in [1..c -> N] /\ \A i, j \in 1..c : f[i] = f[j] => i = j
    BY <1>2, <1>8 DEF Orders, IsInjective
  <2>3. PICK left : left = {i \in 1..c : f[i] \notin P}
    OBVIOUS
  <2>4. left # {}
    <3> SUFFICES ASSUME left = {} PROVE FALSE
      OBVIOUS
    <3>1. f \in [1..c -> P]
      BY <2>2, <2>3
    <3>2. 1 \in Int /\ c \in Int
      BY <1>5
    <3>3. IsFiniteSet(1..c) /\ Cardinality(1..c) = c
      <4>1. /\ IsFiniteSet(1..c) /\ Cardinality(1..c) = IF 1 > c THEN 0 ELSE c - 1 + 1
        BY <3>2, FS_Interval
      <4> QED
        BY <1>5, <4>1
    <3>4. Cardinality(P) <= c /\ Cardinality(P) \in Nat
      BY <1>2, <1>3, <1>5, FS_Subset
    <3>5. Cardinality(P) < Cardinality(1..c)
      BY <1>5, <2>1, <3>3, <3>4
    <3>6. \E x, y \in 1..c : x # y /\ f[x] = f[y]
      BY <1>5, <3>1, <3>3, <3>5, FS_PigeonHole
    <3> QED
      BY <2>2, <3>6
  <2>5. left \in SUBSET Nat
    BY <2>3
  <2>6. PICK k \in left : \A i \in left : k <= i
    BY <2>4, <2>5, LeastExists
  <2>7. k \in 1..c /\ f[k] \in N \ P
    BY <2>2, <2>3, <2>6
  <2>8. NeededBy(g, f[k]) \subseteq P
    <3> SUFFICES ASSUME NEW d \in NeededBy(g, f[k]) PROVE d \in P
      OBVIOUS
    <3>1. AllFollow(g, f)
      BY OrdersGiveEarlier
    <3>2. PICK i \in 1..c : i < k /\ f[i] = d
      BY <1>2, <2>7, <3>1 DEF AllFollow
    <3>3. i \notin left
      BY <1>5, <2>6, <2>7, <3>2
    <3> QED
      BY <2>3, <3>2, <3>3
  <2>9. f[k] \in o.available
    BY <1>3, <2>7, <2>8
  <2> QED
    BY <2>1, <2>9
<1> QED
  BY <1>2, <1>7, <1>8

\* resolve_dependencies: for any graph, the answer is the first, in the order of the
\* names, of all orders in which every node follows its dependencies, and there is a
\* cycle error only when there is no such order.
THEOREM OrdersAreLeast == TestsSpec => []ResolverIsLeast
<1>1. TestsInit => ResolverInv
  BY InitResolver
<1>2. ResolverInv /\ [TestsNext]_testsVars => ResolverInv'
  BY NextResolver
<1>3. ResolverInv => ResolverIsLeast
  BY ResolverFollows
<1> QED
  BY <1>1, <1>2, <1>3, PTL DEF TestsSpec

=============================================================================
