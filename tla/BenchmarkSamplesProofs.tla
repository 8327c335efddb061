---------------------- MODULE BenchmarkSamplesProofs ----------------------
(***************************************************************************)
(* Proofs about BenchmarkSamples, for any number of samples, workers,      *)
(* attempts and faults, and any lease and retry delays.                    *)
(***************************************************************************)
EXTENDS BenchmarkSamples, TLAPS

\* The row e has had its effect: the attempt it asked for was claimed, or no
\* attempt will be needed.
Passed(e) == attempt_count[e[1]] > e[2] \/ status[e[1]] \in Terminal

\* The states of a worker between the claim and the record of the outcome.
Working == {"confirm", "load", "generate", "store", "evaluate", "complete", "fail"}

\* Nothing is claimed before the plan is stored.
Planned == run_status = "absent" => \A s \in Samples : status[s] = "absent"

\* A sample that waits has an attempt left and an outbox row that asks for it.
SampleOK(s) ==
  /\ status[s] \in Waiting => /\ attempt_count[s] < MaxAttempts
                              /\ outbox[<<s, attempt_count[s]>>] # "absent"
  /\ status[s] \in Active => attempt_count[s] > 0
  /\ status[s] = "absent" => attempt_count[s] = 0 /\ artifact[s] = NoSource

\* Which outbox rows exist, how far each has come, and when it was published.
RowOK(e) ==
  /\ outbox[e] # "absent" =>
       \/ e[2] < attempt_count[e[1]]
       \/ e[2] = attempt_count[e[1]] /\ status[e[1]] \in Waiting
  /\ added[e] > 0 => outbox[e] # "absent"
  /\ outbox[e] = "published" => added[e] > 0
  /\ added[e] > 0 /\ outbox_attempts[e] = 0 => outbox_due[e] <= 0

\* A worker that sees time left on its lease holds it, on the current attempt.
LeaseOK(w) ==
  known[w] > 0 => /\ Owns(w, SampleOf(w))
                  /\ known[w] <= lease_expires_at[SampleOf(w)]

\* What a worker knows of the sample it works on, although it may have lost it.
WorkerOK(w) ==
  /\ pc[w] \notin {"idle", "dead"} => held[w] # NoMessage
  /\ known[w] > 0 => pc[w] \in Working
  /\ pc[w] \in Working => claimed[w] > 0
  /\ pc[w] \in Working \cup {"ack"} => Passed(held[w][1])
  /\ pc[w] \in Working /\ Owns(w, SampleOf(w)) => claimed[w] = attempt_count[SampleOf(w)]
  /\ LeaseOK(w)
  /\ pc[w] \in {"generate", "store"} /\ Owns(w, SampleOf(w)) => artifact[SampleOf(w)] = NoSource
  /\ pc[w] = "store" => source[w] # NoSource
  /\ pc[w] \in {"evaluate", "complete"} =>
       source[w] # NoSource /\ source[w] = artifact[SampleOf(w)]

SamplesOK == \A s \in Samples : SampleOK(s)
RowsOK == \A e \in Events : RowOK(e)
WorkersOK == \A w \in Workers : WorkerOK(w)

\* A message is acknowledged only when its row has had its effect.
Answered == \A m \in acked : Passed(m[1])

IInv ==
  /\ TypeOK
  /\ Planned
  /\ SamplesOK
  /\ RowsOK
  /\ Answered
  /\ WorkersOK
  /\ EvaluatesStoredArtifact

-----------------------------------------------------------------------------
(* Entries, events and messages *)

\* Every entry of the stream was made of an outbox row.
LEMMA EntryDef ==
  ASSUME NEW m
  PROVE  m \in Entries <=> \E e \in Events : \E c \in 1 .. added[e] : m = <<e, c>>
BY DEF Entries

\* What an entry says of its outbox row.
LEMMA EntryFacts ==
  ASSUME added \in [Events -> Nat], NEW m \in Entries
  PROVE  m[1] \in Events /\ added[m[1]] > 0 /\ m # NoMessage
<1>1. PICK e \in Events : \E c \in 1 .. added[e] : m = <<e, c>>
  BY EntryDef
<1> QED
  BY <1>1 DEF NoMessage

\* What an event is made of.
LEMMA EventFacts ==
  ASSUME NEW e \in Events
  PROVE  /\ e[1] \in Samples
         /\ e[2] \in 0 .. MaxAttempts - 1
         /\ e = <<e[1], e[2]>>
BY DEF Events

\* A sample and a number of attempts make an event.
LEMMA EventMade ==
  ASSUME NEW s \in Samples, NEW k \in 0 .. MaxAttempts - 1
  PROVE  <<s, k>> \in Events
BY DEF Events

\* A step that adds no entry leaves the entries alone.
LEMMA EntriesSame ==
  ASSUME added' = added
  PROVE  Entries' = Entries
BY DEF Entries

\* A step that adds and loses no entry leaves the stream alone.
LEMMA StreamSame ==
  ASSUME added' = added, lost' = lost
  PROVE  Entries' = Entries /\ Stream' = Stream
BY EntriesSame DEF Stream

\* An entry that is added keeps the others.
LEMMA EntriesGrow ==
  ASSUME added \in [Events -> Nat], NEW e \in Events,
         added' = [added EXCEPT ![e] = @ + 1]
  PROVE  Entries \subseteq Entries'
BY DEF Entries

\* A worker that holds a message holds an entry of an existing outbox row.
LEMMA HeldFacts ==
  ASSUME IInv, NEW w \in Workers, pc[w] \notin {"idle", "dead"}
  PROVE  /\ held[w] \in Entries
         /\ held[w][1] \in Events
         /\ SampleOf(w) \in Samples
         /\ held[w][1][2] \in 0 .. MaxAttempts - 1
         /\ held[w][1] = <<SampleOf(w), held[w][1][2]>>
         /\ added[held[w][1]] > 0
         /\ outbox[held[w][1]] # "absent"
         /\ \/ held[w][1][2] < attempt_count[SampleOf(w)]
            \/ /\ held[w][1][2] = attempt_count[SampleOf(w)]
               /\ status[SampleOf(w)] \in Waiting
<1>1. held[w] \in Entries
  BY DEF IInv, TypeOK, WorkersOK, WorkerOK
<1>2. held[w][1] \in Events /\ added[held[w][1]] > 0
  BY <1>1, EntryFacts DEF IInv, TypeOK
<1>3. SampleOf(w) = held[w][1][1]
  BY DEF SampleOf
<1>4. RowOK(held[w][1])
  BY <1>2 DEF IInv, RowsOK
<1> QED
  BY <1>1, <1>2, <1>3, <1>4, EventFacts DEF RowOK

\* The event a waiting sample waits for is one of the events.
LEMMA WaitingEvent ==
  ASSUME IInv, NEW s \in Samples, status[s] \in Waiting
  PROVE  <<s, attempt_count[s]>> \in Events
<1>1. attempt_count[s] \in 0 .. MaxAttempts
  BY DEF IInv, TypeOK
<1>2. attempt_count[s] < MaxAttempts
  BY DEF IInv, SamplesOK, SampleOK
<1>3. attempt_count[s] \in 0 .. MaxAttempts - 1
  BY <1>1, <1>2, MaxAttemptsAssumption
<1> QED
  BY <1>3, EventMade

-----------------------------------------------------------------------------
(* The invariant implies what the run checks. *)

\* With the invariant, no waiting sample is stranded.
LEMMA NotStranded == IInv => NoStrandedSample
<1> SUFFICES ASSUME IInv, NEW s \in Samples, status[s] \in Waiting, ~ Lost(s),
                    outbox[<<s, attempt_count[s]>>] # "unpublished"
             PROVE  \E m \in Stream \ acked : m[1] = <<s, attempt_count[s]>>
  BY DEF NoStrandedSample
<1> DEFINE e == <<s, attempt_count[s]>>
           m == <<e, 1>>
<1>1. e \in Events
  BY WaitingEvent
<1>2. RowOK(e) /\ SampleOK(s) /\ added[e] \in Nat
  BY <1>1 DEF IInv, TypeOK, RowsOK, SamplesOK
<1>3. outbox[e] = "published"
  BY <1>1, <1>2 DEF IInv, TypeOK, SampleOK
<1>4. added[e] > 0
  BY <1>2, <1>3 DEF RowOK
<1>5. m \in Entries
  BY <1>1, <1>2, <1>4, EntryDef
<1>6. m \notin lost
  BY DEF Lost
<1>7. m \notin acked
  <2> SUFFICES ASSUME m \in acked PROVE FALSE
    OBVIOUS
  <2>1. Passed(e)
    BY DEF IInv, Answered
  <2> QED
    BY <2>1 DEF Passed, Waiting, Terminal, IInv, TypeOK
<1> QED
  BY <1>5, <1>6, <1>7 DEF Stream

\* With the invariant, a lease a worker believes in is a lease it holds.
LEMMA LeaseKnown == IInv => ConfirmedLeaseHolds
BY DEF IInv, TypeOK, WorkersOK, WorkerOK, LeaseOK, ConfirmedLeaseHolds, Working

\* With the invariant, a sample has one artifact and its result is about it.
LEMMA ArtifactKept == IInv => OneArtifact
BY DEF IInv, WorkersOK, WorkerOK, OneArtifact, NoSecondGeneration, Working

\* The initial states satisfy the invariant.
LEMMA InitInvariant == Init => IInv
<1> SUFFICES ASSUME Init PROVE IInv
  OBVIOUS
<1>1. Entries = {} /\ Stream = {}
  BY EntryDef DEF Init, Stream
<1>2. TypeOK
  BY <1>1, MaxAttemptsAssumption, LeaseAssumption, FaultsAssumption
  DEF Init, TypeOK, Statuses, RunTerminal, NULL, Expired
<1>3. Planned /\ SamplesOK
  BY DEF Init, Planned, SamplesOK, SampleOK, Waiting, Active
<1>4. RowsOK /\ Answered
  BY DEF Init, RowsOK, RowOK, Answered
<1>5. WorkersOK
  BY DEF Init, WorkersOK, WorkerOK, LeaseOK, Working
<1>6. EvaluatesStoredArtifact
  BY DEF Init, EvaluatesStoredArtifact
<1> QED
  BY <1>2, <1>3, <1>4, <1>5, <1>6 DEF IInv

-----------------------------------------------------------------------------
(* What steps keep *)

\* The step leaves the worker v, and what it knows, alone.
SameWorker(v) ==
  /\ pc'[v] = pc[v]
  /\ held'[v] = held[v]
  /\ claimed'[v] = claimed[v]
  /\ known'[v] = known[v]
  /\ source'[v] = source[v]

\* The step takes nothing from the worker v that works on the sample s: an owner
\* keeps its attempt and its artifact, and the time on its lease.
SparesWorker(v, s) ==
  /\ status'[s] \in Active /\ worker_id'[s] = v =>
       /\ Owns(v, s)
       /\ attempt_count'[s] = attempt_count[s]
       /\ artifact'[s] = artifact[s]
  /\ known[v] > 0 => /\ status'[s] \in Active /\ worker_id'[s] = v
                     /\ known[v] <= lease_expires_at'[s]
  /\ artifact[s] # NoSource => artifact'[s] = artifact[s]

\* The types of what the workers hold.
WorkerTypes ==
  /\ pc \in [Workers -> {"idle", "claim", "confirm", "load", "generate", "store",
                         "evaluate", "complete", "fail", "ack", "dead"}]
  /\ held \in [Workers -> Entries \cup {NoMessage}]
  /\ claimed \in [Workers -> 0 .. MaxAttempts]
  /\ known \in [Workers -> 0 .. LeaseSeconds]
  /\ source \in [Workers -> Sources \cup {NoSource}]
  /\ error \in [Workers -> Errors \cup {"none"}]

\* A worker that a step leaves alone keeps what it knows of its sample.
LEMMA WorkerSpared ==
  ASSUME IInv, NEW v \in Workers, SameWorker(v),
         \A e \in Events : Passed(e) => Passed(e)',
         pc[v] \in Working => SparesWorker(v, SampleOf(v))
  PROVE  WorkerOK(v)'
<1>1. WorkerOK(v)
  BY DEF IInv, WorkersOK
<1>2. SampleOf(v)' = SampleOf(v)
  BY DEF SameWorker, SampleOf
<1>3. pc[v] \in Working \cup {"ack"} => held[v][1] \in Events /\ Passed(held[v][1])
  BY <1>1, HeldFacts DEF Working, WorkerOK
<1>4. pc'[v] \in Working \cup {"ack"} => Passed(held[v][1])'
  BY <1>3 DEF SameWorker, Passed
<1>5. /\ pc'[v] \notin {"idle", "dead"} => held'[v] # NoMessage
      /\ known'[v] > 0 => pc'[v] \in Working
      /\ pc'[v] \in Working => claimed'[v] > 0
      /\ pc'[v] = "store" => source'[v] # NoSource
  BY <1>1 DEF SameWorker, WorkerOK
<1>6. CASE pc[v] \notin Working
  BY <1>1, <1>4, <1>5, <1>6 DEF SameWorker, WorkerOK, LeaseOK, Working, Passed
<1>7. CASE pc[v] \in Working
  BY <1>1, <1>2, <1>4, <1>5, <1>7 DEF SameWorker, SparesWorker, WorkerOK, LeaseOK, Working, Passed, Owns
<1> QED
  BY <1>6, <1>7

\* A worker that a step leaves alone keeps what it knows when the step changes no
\* sample.
LEMMA WorkerSame ==
  ASSUME IInv, NEW v \in Workers, SameWorker(v), UNCHANGED sampleVars
  PROVE  WorkerOK(v)'
<1> USE DEF sampleVars
<1>1. \A e \in Events : Passed(e) => Passed(e)'
  BY DEF Passed
<1>2. WorkerOK(v)
  BY DEF IInv, WorkersOK
<1>3. pc[v] \in Working => SparesWorker(v, SampleOf(v))
  BY <1>2 DEF SparesWorker, WorkerOK, LeaseOK, Owns
<1> QED
  BY <1>1, <1>3, WorkerSpared

\* A worker that leaves process_message, or dies, works on nothing.
LEMMA LeaveStep ==
  ASSUME IInv, NEW w \in Workers, NEW label \in {"idle", "dead"},
         pc' = [pc EXCEPT ![w] = label],
         held' = [held EXCEPT ![w] = NoMessage],
         claimed' = [claimed EXCEPT ![w] = 0],
         known' = [known EXCEPT ![w] = 0],
         source' = [source EXCEPT ![w] = NoSource],
         error' = [error EXCEPT ![w] = "none"],
         added' = added
  PROVE  /\ WorkerTypes'
         /\ WorkerOK(w)'
         /\ \A v \in Workers \ {w} : SameWorker(v)
<1>1. WorkerTypes'
  BY EntriesSame, MaxAttemptsAssumption, LeaseAssumption DEF IInv, TypeOK, WorkerTypes
<1>2. pc'[w] = label /\ known'[w] = 0
  BY DEF IInv, TypeOK
<1>3. WorkerOK(w)'
  BY <1>2 DEF WorkerOK, LeaseOK, Working
<1> QED
  BY <1>1, <1>3 DEF SameWorker, IInv, TypeOK

\* A step of a worker that changes nothing but itself.
LEMMA WorkerStep ==
  ASSUME IInv, NEW w \in Workers,
         UNCHANGED <<sampleVars, run_status, outboxVars, streamVars>>,
         faults' \in 0 .. MaxFaults, WorkerTypes',
         WorkerOK(w)', \A v \in Workers \ {w} : SameWorker(v)
  PROVE  IInv'
<1> USE DEF outboxVars, streamVars
<1>1. TypeOK'
  BY StreamSame DEF IInv, TypeOK, WorkerTypes, sampleVars
<1>2. Planned' /\ SamplesOK' /\ RowsOK' /\ EvaluatesStoredArtifact'
  BY DEF IInv, Planned, SamplesOK, SampleOK, RowsOK, RowOK, EvaluatesStoredArtifact, sampleVars
<1>3. Answered'
  BY DEF IInv, Answered, Passed, sampleVars
<1>4. WorkersOK'
  BY WorkerSame DEF WorkersOK
<1> QED
  BY <1>1, <1>2, <1>3, <1>4 DEF IInv

-----------------------------------------------------------------------------
(* Steps of one worker alone *)

\* The invariant is preserved by LoseLease.
LEMMA LoseLeaseInv ==
  ASSUME IInv, NEW w \in Workers, LoseLease(w)
  PROVE  IInv'
<1>1. Leave(w) /\ UNCHANGED <<sampleVars, run_status, outboxVars, streamVars, faults>>
  BY DEF LoseLease
<1>2. WorkerTypes' /\ WorkerOK(w)' /\ \A v \in Workers \ {w} : SameWorker(v)
  BY <1>1, LeaveStep DEF Leave, streamVars
<1> QED
  BY <1>1, <1>2, WorkerStep DEF IInv, TypeOK

\* The invariant is preserved by LoseConnection.
LEMMA LoseConnectionInv ==
  ASSUME IInv, NEW w \in Workers, LoseConnection(w)
  PROVE  IInv'
<1>1. Leave(w) /\ UNCHANGED <<sampleVars, run_status, outboxVars, streamVars>>
  BY DEF LoseConnection
<1>2. WorkerTypes' /\ WorkerOK(w)' /\ \A v \in Workers \ {w} : SameWorker(v)
  BY <1>1, LeaveStep DEF Leave, streamVars
<1>3. faults' \in 0 .. MaxFaults
  BY FaultsAssumption DEF LoseConnection, Fault, IInv, TypeOK
<1> QED
  BY <1>1, <1>2, <1>3, WorkerStep

\* The invariant is preserved by CrashWorker.
LEMMA CrashWorkerInv ==
  ASSUME IInv, NEW w \in Workers, CrashWorker(w)
  PROVE  IInv'
<1>1. UNCHANGED <<sampleVars, run_status, outboxVars, streamVars>>
  BY DEF CrashWorker
<1>2. WorkerTypes' /\ WorkerOK(w)' /\ \A v \in Workers \ {w} : SameWorker(v)
  BY LeaveStep DEF CrashWorker, streamVars
<1>3. faults' \in 0 .. MaxFaults
  BY FaultsAssumption DEF CrashWorker, Fault, IInv, TypeOK
<1> QED
  BY <1>1, <1>2, <1>3, WorkerStep

\* A worker that receives a message knows nothing yet.
LEMMA ReceiveStep ==
  ASSUME IInv, NEW w \in Workers, NEW m \in Entries, Receive(w, m), pc[w] = "idle",
         added' = added
  PROVE  /\ WorkerTypes'
         /\ WorkerOK(w)'
         /\ \A v \in Workers \ {w} : SameWorker(v)
<1>1. WorkerTypes'
  BY EntriesSame DEF Receive, IInv, TypeOK, WorkerTypes
<1>2. known[w] = 0 /\ m # NoMessage
  BY EntryFacts DEF IInv, TypeOK, WorkersOK, WorkerOK, Working
<1>3. pc'[w] = "claim" /\ held'[w] = m /\ known'[w] = 0
  BY <1>2 DEF Receive, IInv, TypeOK
<1>4. WorkerOK(w)'
  BY <1>2, <1>3 DEF WorkerOK, LeaseOK, Working
<1> QED
  BY <1>1, <1>4 DEF Receive, SameWorker, IInv, TypeOK

\* The invariant is preserved by reclaim.
LEMMA ReclaimInv ==
  ASSUME IInv, NEW w \in Workers, NEW m \in Stream, reclaim(w, m)
  PROVE  IInv'
<1>1. /\ Receive(w, m) /\ pc[w] = "idle" /\ m \in Entries
      /\ UNCHANGED <<sampleVars, run_status, outboxVars, streamVars, faults>>
  BY DEF reclaim, Stream
<1>2. WorkerTypes' /\ WorkerOK(w)' /\ \A v \in Workers \ {w} : SameWorker(v)
  BY <1>1, ReceiveStep DEF streamVars
<1> QED
  BY <1>1, <1>2, WorkerStep DEF IInv, TypeOK

\* The invariant is preserved by consume.
LEMMA ConsumeInv ==
  ASSUME IInv, NEW w \in Workers, NEW m \in Stream, consume(w, m)
  PROVE  IInv'
<1>1. /\ pc[w] = "idle" /\ m \in Entries /\ delivered' = delivered \cup {m}
      /\ UNCHANGED <<sampleVars, run_status, outboxVars, added, acked, lost>>
  BY DEF consume, Stream
<1>2. WorkerTypes' /\ \A v \in Workers : WorkerOK(v)'
  <2>1. CASE Receive(w, m)
    BY <1>1, <2>1, ReceiveStep, WorkerSame
  <2>2. CASE UNCHANGED workerVars
    <3>1. \A v \in Workers : SameWorker(v)
      BY <2>2 DEF workerVars, SameWorker
    <3>2. WorkerTypes'
      BY <1>1, <2>2, EntriesSame DEF workerVars, WorkerTypes, IInv, TypeOK
    <3> QED
      BY <1>1, <3>1, <3>2, WorkerSame
  <2> QED
    BY <2>1, <2>2 DEF consume
<1>3. faults' \in 0 .. MaxFaults
  BY FaultsAssumption DEF consume, Fault, IInv, TypeOK
<1>4. TypeOK'
  BY <1>1, <1>2, <1>3, StreamSame DEF IInv, TypeOK, WorkerTypes, sampleVars, outboxVars
<1>5. Planned' /\ SamplesOK' /\ RowsOK' /\ EvaluatesStoredArtifact' /\ Answered'
  BY <1>1 DEF IInv, Planned, SamplesOK, SampleOK, RowsOK, RowOK, EvaluatesStoredArtifact,
              Answered, Passed, sampleVars, outboxVars
<1> QED
  BY <1>2, <1>4, <1>5 DEF IInv, WorkersOK

\* The invariant is preserved by acknowledge.
LEMMA AcknowledgeInv ==
  ASSUME IInv, NEW w \in Workers, acknowledge(w)
  PROVE  IInv'
<1>1. /\ pc[w] = "ack" /\ Leave(w) /\ acked' = acked \cup ({held[w]} \cap delivered)
      /\ UNCHANGED <<sampleVars, run_status, outboxVars, added, delivered, lost, faults>>
  BY DEF acknowledge
<1>2. WorkerTypes' /\ WorkerOK(w)' /\ \A v \in Workers \ {w} : SameWorker(v)
  BY <1>1, LeaveStep DEF Leave
<1>3. TypeOK'
  BY <1>1, <1>2, StreamSame DEF IInv, TypeOK, WorkerTypes, sampleVars, outboxVars
<1>4. Planned' /\ SamplesOK' /\ RowsOK' /\ EvaluatesStoredArtifact'
  BY <1>1 DEF IInv, Planned, SamplesOK, SampleOK, RowsOK, RowOK, EvaluatesStoredArtifact,
              sampleVars, outboxVars
<1>5. Answered'
  <2>1. Passed(held[w][1])
    BY <1>1 DEF IInv, WorkersOK, WorkerOK
  <2> QED
    BY <1>1, <2>1 DEF IInv, Answered, Passed, sampleVars
<1>6. WorkersOK'
  BY <1>1, <1>2, WorkerSame DEF WorkersOK
<1> QED
  BY <1>3, <1>4, <1>5, <1>6 DEF IInv

\* A working worker moves on, keeping its message and its lease.
LEMMA MoveStep ==
  ASSUME IInv, NEW w \in Workers, pc[w] \in Working, NEW label \in Working \ {"confirm"},
         NEW text \in Sources \cup {NoSource},
         pc' = [pc EXCEPT ![w] = label],
         source' = [source EXCEPT ![w] = text],
         error' \in [Workers -> Errors \cup {"none"}],
         UNCHANGED <<held, claimed, known>>, UNCHANGED <<sampleVars, added>>,
         label \in {"generate", "store"} /\ Owns(w, SampleOf(w)) => artifact[SampleOf(w)] = NoSource,
         label = "store" => text # NoSource,
         label \in {"evaluate", "complete"} =>
           text # NoSource /\ text = artifact[SampleOf(w)]
  PROVE  /\ WorkerTypes'
         /\ WorkerOK(w)'
         /\ \A v \in Workers \ {w} : SameWorker(v)
<1>1. WorkerTypes'
  BY EntriesSame DEF IInv, TypeOK, WorkerTypes, Working
<1>2. pc'[w] = label /\ source'[w] = text
  BY DEF IInv, TypeOK
<1>3. WorkerOK(w)
  BY DEF IInv, WorkersOK
<1>4. WorkerOK(w)'
  BY <1>2, <1>3 DEF WorkerOK, LeaseOK, Working, Passed, Owns, SampleOf, sampleVars
<1> QED
  BY <1>1, <1>4 DEF SameWorker, IInv, TypeOK

\* A worker that reaches an exception handler keeps its message and its lease.
LEMMA RaiseStep ==
  ASSUME IInv, NEW w \in Workers, pc[w] \in Working, NEW e \in Errors, Raise(w, e),
         UNCHANGED <<sampleVars, added>>
  PROVE  /\ WorkerTypes'
         /\ WorkerOK(w)'
         /\ \A v \in Workers \ {w} : SameWorker(v)
<1>1. source' = [source EXCEPT ![w] = source[w]] /\ source[w] \in Sources \cup {NoSource}
  BY DEF Raise, IInv, TypeOK
<1>2. error' \in [Workers -> Errors \cup {"none"}]
  BY DEF Raise, IInv, TypeOK
<1>3. pc' = [pc EXCEPT ![w] = "fail"] /\ UNCHANGED <<held, claimed, known>>
  BY DEF Raise
<1>4. "fail" \in Working \ {"confirm"}
  BY DEF Working
<1> QED
  BY <1>1, <1>2, <1>3, <1>4, MoveStep

\* The invariant is preserved by load.
LEMMA LoadInv ==
  ASSUME IInv, NEW w \in Workers, load(w)
  PROVE  IInv'
<1>1. /\ pc[w] \in Working
      /\ UNCHANGED <<sampleVars, run_status, outboxVars, streamVars, faults>>
      /\ "infrastructure" \in Errors
  BY DEF load, Working, Errors
<1>2. WorkerTypes' /\ WorkerOK(w)' /\ \A v \in Workers \ {w} : SameWorker(v)
  <2>1. ASSUME NEW e \in Errors, Raise(w, e)
        PROVE  WorkerTypes' /\ WorkerOK(w)' /\ \A v \in Workers \ {w} : SameWorker(v)
    BY <1>1, <2>1, RaiseStep DEF streamVars
  <2>2. CASE artifact[SampleOf(w)] = NoSource /\ Goto(w, "generate")
    <3>1. source' = [source EXCEPT ![w] = source[w]] /\ source[w] \in Sources \cup {NoSource}
      BY <2>2 DEF Goto, IInv, TypeOK
    <3>2. pc' = [pc EXCEPT ![w] = "generate"] /\ UNCHANGED <<held, claimed, known, error>>
      BY <2>2 DEF Goto
    <3>3. "generate" \in Working \ {"confirm"}
      BY DEF Working
    <3>4. error' \in [Workers -> Errors \cup {"none"}]
      BY <3>2 DEF IInv, TypeOK
    <3> QED
      BY <1>1, <2>2, <3>1, <3>2, <3>3, <3>4, MoveStep DEF streamVars
  <2>3. CASE /\ artifact[SampleOf(w)] # NoSource
             /\ pc' = [pc EXCEPT ![w] = "evaluate"]
             /\ source' = [source EXCEPT ![w] = artifact[SampleOf(w)]]
             /\ UNCHANGED <<held, claimed, known, error>>
    <3>1. SampleOf(w) \in Samples
      BY <1>1, HeldFacts DEF Working
    <3>2. artifact[SampleOf(w)] \in Sources \cup {NoSource}
      BY <3>1 DEF IInv, TypeOK
    <3>3. "evaluate" \in Working \ {"confirm"}
      BY DEF Working
    <3>4. error' \in [Workers -> Errors \cup {"none"}]
      BY <2>3 DEF IInv, TypeOK
    <3> QED
      BY <1>1, <2>3, <3>2, <3>3, <3>4, MoveStep DEF streamVars
  <2> QED
    BY <2>1, <2>2, <2>3 DEF load, Errors
<1> QED
  BY <1>1, <1>2, WorkerStep DEF IInv, TypeOK

\* The invariant is preserved by generate.
LEMMA GenerateInv ==
  ASSUME IInv, NEW w \in Workers, generate(w)
  PROVE  IInv'
<1>1. /\ pc[w] = "generate" /\ pc[w] \in Working
      /\ UNCHANGED <<sampleVars, run_status, outboxVars, streamVars, faults>>
      /\ Generation \cup {"worker"} \subseteq Errors
  BY DEF generate, Working, Errors, Generation
<1>2. WorkerTypes' /\ WorkerOK(w)' /\ \A v \in Workers \ {w} : SameWorker(v)
  <2>1. ASSUME NEW e \in Generation \cup {"worker"}, Raise(w, e)
        PROVE  WorkerTypes' /\ WorkerOK(w)' /\ \A v \in Workers \ {w} : SameWorker(v)
    BY <1>1, <2>1, RaiseStep DEF streamVars
  <2>2. CASE /\ pc' = [pc EXCEPT ![w] = "store"]
             /\ source' = [source EXCEPT ![w] = claimed[w]]
             /\ UNCHANGED <<held, claimed, known, error>>
    <3>1. WorkerOK(w) /\ claimed[w] \in 0 .. MaxAttempts
      BY DEF IInv, TypeOK, WorkersOK
    <3>2. claimed[w] \in Sources \cup {NoSource} /\ claimed[w] # NoSource
      BY <1>1, <3>1, MaxAttemptsAssumption DEF WorkerOK, Sources, NoSource
    <3>3. Owns(w, SampleOf(w)) => artifact[SampleOf(w)] = NoSource
      BY <1>1, <3>1 DEF WorkerOK
    <3>4. "store" \in Working \ {"confirm"}
      BY DEF Working
    <3>5. error' \in [Workers -> Errors \cup {"none"}]
      BY <2>2 DEF IInv, TypeOK
    <3> QED
      BY <1>1, <2>2, <3>2, <3>3, <3>4, <3>5, MoveStep DEF streamVars
  <2> QED
    BY <2>1, <2>2 DEF generate
<1> QED
  BY <1>1, <1>2, WorkerStep DEF IInv, TypeOK

\* The invariant is preserved by evaluate_snapshot.
LEMMA EvaluateSnapshotInv ==
  ASSUME IInv, NEW w \in Workers, evaluate_snapshot(w)
  PROVE  IInv'
<1>1. /\ pc[w] = "evaluate" /\ pc[w] \in Working
      /\ UNCHANGED <<sampleVars, run_status, outboxVars, streamVars, faults>>
      /\ "infrastructure" \in Errors /\ "worker" \in Errors
  BY DEF evaluate_snapshot, Working, Errors
<1>2. WorkerTypes' /\ WorkerOK(w)' /\ \A v \in Workers \ {w} : SameWorker(v)
  <2>1. CASE Raise(w, "infrastructure") \/ Raise(w, "worker")
    BY <1>1, <2>1, RaiseStep DEF streamVars
  <2>2. CASE Goto(w, "complete")
    <3>1. source' = [source EXCEPT ![w] = source[w]] /\ source[w] \in Sources \cup {NoSource}
      BY <2>2 DEF Goto, IInv, TypeOK
    <3>2. pc' = [pc EXCEPT ![w] = "complete"] /\ UNCHANGED <<held, claimed, known, error>>
      BY <2>2 DEF Goto
    <3>3. source[w] # NoSource /\ source[w] = artifact[SampleOf(w)]
      BY <1>1 DEF IInv, WorkersOK, WorkerOK
    <3>4. "complete" \in Working \ {"confirm"}
      BY DEF Working
    <3>5. error' \in [Workers -> Errors \cup {"none"}]
      BY <3>2 DEF IInv, TypeOK
    <3> QED
      BY <1>1, <3>1, <3>2, <3>3, <3>4, <3>5, MoveStep DEF streamVars
  <2> QED
    BY <2>1, <2>2 DEF evaluate_snapshot
<1> QED
  BY <1>1, <1>2, WorkerStep DEF IInv, TypeOK

-----------------------------------------------------------------------------
(* The plan, the outbox and the stream *)

\* A step that changes no sample and no worker keeps what the workers know.
LEMMA WorkersSame ==
  ASSUME IInv, UNCHANGED <<sampleVars, workerVars>>
  PROVE  WorkersOK'
<1>1. \A v \in Workers : SameWorker(v)
  BY DEF workerVars, SameWorker
<1> QED
  BY <1>1, WorkerSame DEF WorkersOK

\* Before the plan there is no outbox row and no entry.
LEMMA NothingPlanned ==
  ASSUME IInv, run_status = "absent"
  PROVE  /\ \A s \in Samples : status[s] = "absent" /\ attempt_count[s] = 0 /\ artifact[s] = NoSource
         /\ \A e \in Events : outbox[e] = "absent" /\ added[e] = 0
<1>1. \A s \in Samples : status[s] = "absent" /\ attempt_count[s] = 0 /\ artifact[s] = NoSource
  BY DEF IInv, Planned, SamplesOK, SampleOK
<1>2. ASSUME NEW e \in Events PROVE outbox[e] = "absent" /\ added[e] = 0
  <2>1. e[1] \in Samples /\ e[2] \in 0 .. MaxAttempts - 1
    BY EventFacts
  <2>2. RowOK(e) /\ added[e] \in Nat
    BY DEF IInv, TypeOK, RowsOK
  <2> QED
    BY <1>1, <2>1, <2>2, MaxAttemptsAssumption DEF RowOK, Waiting
<1> QED
  BY <1>1, <1>2

\* The invariant is preserved by create_plan.
LEMMA CreatePlanInv ==
  ASSUME IInv, create_plan
  PROVE  IInv'
<1>0. run_status = "absent"
  BY DEF create_plan
<1>1. TypeOK'
  BY StreamSame DEF create_plan, streamVars, workerVars, IInv, TypeOK, Statuses, Waiting
<1>2. Planned' /\ EvaluatesStoredArtifact'
  BY <1>0, NothingPlanned DEF create_plan, Planned, EvaluatesStoredArtifact, IInv, TypeOK
<1>3. SamplesOK'
  <2> SUFFICES ASSUME NEW s \in Samples PROVE SampleOK(s)'
    BY DEF SamplesOK
  <2>1. attempt_count'[s] = 0 /\ status'[s] = "queued" /\ <<s, 0>> \in Events
    BY <1>0, NothingPlanned, EventMade, MaxAttemptsAssumption DEF create_plan
  <2>2. outbox'[<<s, 0>>] = "unpublished"
    BY <2>1 DEF create_plan
  <2> QED
    BY <2>1, <2>2, MaxAttemptsAssumption DEF SampleOK, Active, Waiting
<1>4. RowsOK'
  <2> SUFFICES ASSUME NEW e \in Events PROVE RowOK(e)'
    BY DEF RowsOK
  <2>1. e[1] \in Samples /\ e[2] \in 0 .. MaxAttempts - 1
    BY EventFacts
  <2>2. attempt_count'[e[1]] = 0 /\ status'[e[1]] = "queued" /\ added'[e] = 0
    BY <1>0, <2>1, NothingPlanned DEF create_plan, streamVars
  <2>3. outbox'[e] = IF e[2] = 0 THEN "unpublished" ELSE "absent"
    BY DEF create_plan
  <2> QED
    BY <2>2, <2>3 DEF RowOK, Waiting
<1>5. \A e \in Events : Passed(e) => Passed(e)'
  BY <1>0, NothingPlanned, EventFacts DEF create_plan, Passed, Terminal
<1>6. Answered'
  BY <1>5, EntryFacts DEF create_plan, streamVars, IInv, TypeOK, Stream, Answered
<1>7. WorkersOK'
  <2> SUFFICES ASSUME NEW v \in Workers PROVE WorkerOK(v)'
    BY DEF WorkersOK
  <2>1. SameWorker(v)
    BY DEF create_plan, workerVars, SameWorker
  <2>2. pc[v] \in Working => SparesWorker(v, SampleOf(v))
    <3> SUFFICES ASSUME pc[v] \in Working PROVE FALSE
      OBVIOUS
    <3>1. SampleOf(v) \in Samples /\ held[v][1] \in Events /\ added[held[v][1]] > 0
      BY HeldFacts DEF Working
    <3> QED
      BY <1>0, <3>1, NothingPlanned
  <2> QED
    BY <1>5, <2>1, <2>2, WorkerSpared
<1> QED
  BY <1>1, <1>2, <1>3, <1>4, <1>6, <1>7 DEF IInv

\* The invariant is preserved by enqueue.
LEMMA EnqueueInv ==
  ASSUME IInv, NEW e \in Events, enqueue(e)
  PROVE  IInv'
<1>1. /\ added' = [added EXCEPT ![e] = @ + 1]
      /\ OutboxReady(e) \/ added[e] > 0
      /\ UNCHANGED <<sampleVars, run_status, outboxVars, delivered, acked, lost, workerVars>>
  BY DEF enqueue
<1>2. added \in [Events -> Nat] /\ faults' \in 0 .. MaxFaults
  BY FaultsAssumption DEF enqueue, Fault, IInv, TypeOK
<1>3. Entries \subseteq Entries' /\ Stream \subseteq Stream'
  BY <1>1, <1>2, EntriesGrow DEF Stream
<1>4. TypeOK'
  BY <1>1, <1>2, <1>3 DEF IInv, TypeOK, sampleVars, outboxVars, workerVars
<1>5. Planned' /\ SamplesOK' /\ EvaluatesStoredArtifact' /\ Answered'
  BY <1>1 DEF IInv, Planned, SamplesOK, SampleOK, EvaluatesStoredArtifact, Answered, Passed,
              sampleVars, outboxVars
<1>6. RowsOK'
  <2> SUFFICES ASSUME NEW d \in Events PROVE RowOK(d)'
    BY DEF RowsOK
  <2>1. RowOK(d) /\ added[d] \in Nat
    BY <1>2 DEF IInv, RowsOK
  <2>2. CASE d = e
    BY <1>1, <1>2, <2>1, <2>2 DEF RowOK, OutboxReady, sampleVars, outboxVars
  <2>3. CASE d # e
    BY <1>1, <1>2, <2>1, <2>3 DEF RowOK, sampleVars, outboxVars
  <2> QED
    BY <2>2, <2>3
<1>7. WorkersOK'
  BY <1>1, WorkersSame
<1> QED
  BY <1>4, <1>5, <1>6, <1>7 DEF IInv

\* The invariant is preserved by mark_outbox_published.
LEMMA MarkPublishedInv ==
  ASSUME IInv, NEW e \in Events, mark_outbox_published(e)
  PROVE  IInv'
<1>1. /\ outbox[e] = "unpublished" /\ added[e] > 0
      /\ outbox' = [outbox EXCEPT ![e] = "published"]
      /\ outbox_attempts' = [outbox_attempts EXCEPT ![e] = @ + 1]
      /\ UNCHANGED <<sampleVars, run_status, outbox_due, streamVars, workerVars, faults>>
  BY DEF mark_outbox_published
<1>2. TypeOK'
  BY <1>1, StreamSame DEF IInv, TypeOK, sampleVars, streamVars, workerVars
<1>3. Planned' /\ EvaluatesStoredArtifact' /\ Answered'
  BY <1>1 DEF IInv, Planned, EvaluatesStoredArtifact, Answered, Passed, sampleVars, streamVars
<1>4. \A d \in Events : /\ (outbox'[d] = "absent") <=> (outbox[d] = "absent")
                        /\ outbox'[d] = "published" => outbox[d] = "published" \/ d = e
                        /\ outbox_attempts'[d] = 0 => outbox_attempts[d] = 0
  BY <1>1 DEF IInv, TypeOK
<1>5. SamplesOK'
  BY <1>1, <1>4, WaitingEvent DEF IInv, SamplesOK, SampleOK, sampleVars
<1>6. RowsOK'
  BY <1>1, <1>4 DEF IInv, RowsOK, RowOK, sampleVars, streamVars
<1>7. WorkersOK'
  BY <1>1, WorkersSame
<1> QED
  BY <1>2, <1>3, <1>5, <1>6, <1>7 DEF IInv

\* The invariant is preserved by mark_outbox_failed.
LEMMA MarkFailedInv ==
  ASSUME IInv, NEW e \in Events, mark_outbox_failed(e)
  PROVE  IInv'
<1>1. /\ OutboxReady(e) /\ Fault
      /\ outbox_attempts' = [outbox_attempts EXCEPT ![e] = @ + 1]
      /\ outbox_due' = [outbox_due EXCEPT ![e] = retry_delay_seconds(outbox_attempts'[e])]
      /\ UNCHANGED <<sampleVars, run_status, outbox, streamVars, workerVars>>
  BY DEF mark_outbox_failed
<1>2. outbox_attempts'[e] \in Nat \ {0} /\ outbox_attempts' \in [Events -> Nat]
  BY <1>1 DEF IInv, TypeOK
<1>3. outbox_due' \in [Events -> Int]
  BY <1>1, <1>2, DelayAssumption DEF IInv, TypeOK, retry_delay_seconds
<1>4. faults' \in 0 .. MaxFaults
  BY <1>1, FaultsAssumption DEF Fault, IInv, TypeOK
<1>5. TypeOK'
  BY <1>1, <1>2, <1>3, <1>4, StreamSame DEF IInv, TypeOK, sampleVars, streamVars, workerVars
<1>6. Planned' /\ SamplesOK' /\ EvaluatesStoredArtifact' /\ Answered'
  BY <1>1 DEF IInv, Planned, SamplesOK, SampleOK, EvaluatesStoredArtifact, Answered, Passed,
              sampleVars, streamVars
<1>7. RowsOK'
  <2>1. \A d \in Events \ {e} : outbox_attempts'[d] = outbox_attempts[d] /\ outbox_due'[d] = outbox_due[d]
    BY <1>1 DEF IInv, TypeOK
  <2> QED
    BY <1>1, <1>2, <2>1 DEF IInv, RowsOK, RowOK, sampleVars, streamVars
<1>8. WorkersOK'
  BY <1>1, WorkersSame
<1> QED
  BY <1>5, <1>6, <1>7, <1>8 DEF IInv

\* The invariant is preserved by a restart of Redis, whatever it forgets.
LEMMA RedisRestartInv ==
  ASSUME IInv, RedisRestart
  PROVE  IInv'
<1>1. PICK L \in SUBSET Stream, D \in SUBSET delivered, A \in SUBSET acked :
        /\ lost' = lost \cup L
        /\ delivered' = D \ L
        /\ acked' = A \cap delivered'
  BY DEF RedisRestart
<1>2. UNCHANGED <<sampleVars, run_status, outboxVars, added, workerVars>>
  BY DEF RedisRestart
<1>3. Entries' = Entries /\ Stream' = Stream \ L
  BY <1>1, <1>2, EntriesSame DEF Stream
<1>4. /\ delivered' \subseteq Stream' /\ acked' \subseteq delivered' /\ lost' \subseteq Entries'
      /\ faults' \in 0 .. MaxFaults
  BY <1>1, <1>3, FaultsAssumption DEF RedisRestart, Fault, Stream, IInv, TypeOK
<1>5. TypeOK'
  BY <1>2, <1>3, <1>4 DEF IInv, TypeOK, sampleVars, outboxVars, workerVars
<1>6. Planned' /\ SamplesOK' /\ RowsOK' /\ EvaluatesStoredArtifact'
  BY <1>2 DEF IInv, Planned, SamplesOK, SampleOK, RowsOK, RowOK, EvaluatesStoredArtifact,
              sampleVars, outboxVars
<1>7. Answered'
  BY <1>1, <1>2 DEF IInv, Answered, Passed, sampleVars
<1>8. WorkersOK'
  BY <1>2, WorkersSame
<1> QED
  BY <1>5, <1>6, <1>7, <1>8 DEF IInv

\* The invariant is preserved by the passing of time: a lease runs out no sooner
\* than the owner's own count of it.
LEMMA TickInv ==
  ASSUME IInv, Tick
  PROVE  IInv'
<1>1. /\ lease_expires_at' = [s \in Samples |-> CountDown(lease_expires_at[s], Expired)]
      /\ outbox_due' = [e \in Events |-> CountDown(outbox_due[e], 0)]
      /\ known' = [w \in Workers |-> CountDown(known[w], 0)]
      /\ UNCHANGED <<status, attempt_count, worker_id, artifact, evaluation, run_status,
                     outbox, outbox_attempts, streamVars, pc, held, claimed, source, error, faults>>
  BY DEF Tick
<1>2. /\ lease_expires_at' \in [Samples -> {NULL, Expired} \cup 0 .. LeaseSeconds]
      /\ outbox_due' \in [Events -> Int]
      /\ known' \in [Workers -> 0 .. LeaseSeconds]
  BY <1>1, LeaseAssumption, SMTT(30) DEF IInv, TypeOK, CountDown, NULL, Expired
<1>3. TypeOK'
  BY <1>1, <1>2, StreamSame DEF IInv, TypeOK, streamVars
<1>4. Planned' /\ SamplesOK' /\ EvaluatesStoredArtifact' /\ Answered'
  BY <1>1 DEF IInv, Planned, SamplesOK, SampleOK, EvaluatesStoredArtifact, Answered, Passed,
              streamVars
<1>5. RowsOK'
  BY <1>1 DEF IInv, TypeOK, RowsOK, RowOK, CountDown, streamVars
<1>6. ASSUME NEW v \in Workers PROVE WorkerOK(v)'
  <2>1. WorkerOK(v) /\ known[v] \in 0 .. LeaseSeconds
    BY DEF IInv, TypeOK, WorkersOK
  <2>2. known'[v] > 0 => known[v] > 0 /\ known'[v] = known[v] - 1
    BY <1>1, <2>1, LeaseAssumption DEF CountDown
  <2>3. LeaseOK(v)'
    <3> SUFFICES ASSUME known'[v] > 0
                 PROVE  /\ status[SampleOf(v)] \in Active /\ worker_id[SampleOf(v)] = v
                        /\ known'[v] <= lease_expires_at'[SampleOf(v)]
      BY <1>1 DEF LeaseOK, Owns, SampleOf
    <3>1. Owns(v, SampleOf(v)) /\ known[v] <= lease_expires_at[SampleOf(v)]
      BY <2>1, <2>2 DEF WorkerOK, LeaseOK
    <3>2. SampleOf(v) \in Samples
      BY <2>1, <2>2, HeldFacts DEF WorkerOK, Working
    <3>3. lease_expires_at[SampleOf(v)] \in Int
      BY <3>2, LeaseAssumption DEF IInv, TypeOK, NULL, Expired
    <3>4. lease_expires_at'[SampleOf(v)] = lease_expires_at[SampleOf(v)] - 1
      BY <1>1, <2>1, <2>2, <3>1, <3>2, <3>3, LeaseAssumption DEF CountDown, Expired
    <3> QED
      BY <2>1, <2>2, <3>1, <3>3, <3>4, LeaseAssumption DEF Owns
  <2> QED
    BY <1>1, <2>1, <2>2, <2>3 DEF WorkerOK, Owns, SampleOf, Passed
<1> QED
  BY <1>3, <1>4, <1>5, <1>6 DEF IInv, WorkersOK

-----------------------------------------------------------------------------
(* Steps of a worker on its sample *)

\* The outcome is recorded, or its record was refused: the worker is done with the
\* message or leaves it.
LEMMA RecordedStep ==
  ASSUME IInv, NEW w \in Workers, pc[w] \in Working,
         Recorded(w) \/ (Leave(w) /\ UNCHANGED faults),
         \A e \in Events : Passed(e) => Passed(e)', added' = added
  PROVE  /\ WorkerTypes'
         /\ WorkerOK(w)'
         /\ \A v \in Workers \ {w} : SameWorker(v)
         /\ faults' \in 0 .. MaxFaults
<1>1. faults' \in 0 .. MaxFaults
  BY FaultsAssumption DEF Recorded, Fault, IInv, TypeOK
<1>2. CASE Leave(w)
  BY <1>1, <1>2, LeaveStep DEF Leave
<1>3. CASE Done(w)
  <2>1. WorkerTypes'
    BY <1>3, EntriesSame, MaxAttemptsAssumption, LeaseAssumption
    DEF Done, IInv, TypeOK, WorkerTypes
  <2>2. pc'[w] = "ack" /\ held'[w] = held[w] /\ known'[w] = 0
    BY <1>3 DEF Done, IInv, TypeOK
  <2>3. held[w][1] \in Events /\ Passed(held[w][1]) /\ held[w] # NoMessage
    BY HeldFacts DEF Working, IInv, WorkersOK, WorkerOK
  <2>4. Passed(held[w][1])'
    BY <2>2, <2>3 DEF Passed
  <2>5. WorkerOK(w)'
    BY <2>2, <2>3, <2>4 DEF WorkerOK, LeaseOK, Working
  <2> QED
    BY <1>1, <1>3, <2>1, <2>5 DEF Done, SameWorker, IInv, TypeOK
<1> QED
  BY <1>2, <1>3 DEF Recorded

\* The invariant is preserved by renew_lease.
LEMMA RenewLeaseInv ==
  ASSUME IInv, NEW w \in Workers, renew_lease(w)
  PROVE  IInv'
<1> DEFINE s == SampleOf(w)
<1>1. /\ pc[w] \in Working /\ Owns(w, s)
      /\ lease_expires_at' = [lease_expires_at EXCEPT ![s] = LeaseSeconds]
      /\ UNCHANGED <<status, attempt_count, worker_id, artifact, evaluation, run_status,
                     outboxVars, streamVars, held, claimed, source, error>>
  BY DEF renew_lease, Processing, Working, MayRenew, Renewable, NewExpiry
<1>2. \/ /\ known' = [known EXCEPT ![w] = LeaseSeconds]
         /\ pc' = [pc EXCEPT ![w] = IF @ = "confirm" THEN "load" ELSE @]
         /\ UNCHANGED faults
      \/ Fault /\ UNCHANGED <<pc, known>>
  BY DEF renew_lease
<1>3. s \in Samples
  BY <1>1, HeldFacts DEF Working
<1>4. /\ known' \in [Workers -> 0 .. LeaseSeconds] /\ faults' \in 0 .. MaxFaults
      /\ pc' \in [Workers -> {"idle", "claim", "confirm", "load", "generate", "store",
                              "evaluate", "complete", "fail", "ack", "dead"}]
      /\ known'[w] \in {known[w], LeaseSeconds}
      /\ pc'[w] = pc[w] \/ pc'[w] = "load"
      /\ \A v \in Workers \ {w} : pc'[v] = pc[v] /\ known'[v] = known[v]
  BY <1>2, LeaseAssumption, FaultsAssumption DEF Fault, IInv, TypeOK
<1>5. lease_expires_at' \in [Samples -> {NULL, Expired} \cup 0 .. LeaseSeconds]
  <2>1. LeaseSeconds \in 0 .. LeaseSeconds
    BY LeaseAssumption
  <2> QED
    BY <1>1, <2>1 DEF IInv, TypeOK
<1>6. TypeOK'
  BY <1>1, <1>4, <1>5, StreamSame DEF IInv, TypeOK, outboxVars, streamVars
<1>7. Planned' /\ SamplesOK' /\ RowsOK' /\ EvaluatesStoredArtifact' /\ Answered'
  BY <1>1 DEF IInv, Planned, SamplesOK, SampleOK, RowsOK, RowOK, EvaluatesStoredArtifact,
              Answered, Passed, outboxVars, streamVars
<1>8. ASSUME NEW v \in Workers \ {w} PROVE WorkerOK(v)'
  <2>1. SameWorker(v)
    BY <1>1, <1>4 DEF SameWorker
  <2>2. \A e \in Events : Passed(e) => Passed(e)'
    BY <1>1 DEF Passed
  <2>3. WorkerOK(v)
    BY DEF IInv, WorkersOK
  <2>4. known[v] > 0 => lease_expires_at'[SampleOf(v)] = lease_expires_at[SampleOf(v)]
    BY <1>1, <2>3 DEF WorkerOK, LeaseOK, Owns, IInv, TypeOK
  <2>5. pc[v] \in Working => SparesWorker(v, SampleOf(v))
    BY <1>1, <2>3, <2>4 DEF SparesWorker, WorkerOK, LeaseOK, Owns
  <2> QED
    BY <2>1, <2>2, <2>5, WorkerSpared
<1>9. WorkerOK(w)'
  <2>1. WorkerOK(w) /\ known[w] \in 0 .. LeaseSeconds
    BY DEF IInv, TypeOK, WorkersOK
  <2>2. SampleOf(w)' = s /\ (Owns(w, SampleOf(w)) <=> Owns(w, SampleOf(w))')
    BY <1>1 DEF Owns, SampleOf
  <2>3. lease_expires_at'[s] = LeaseSeconds
    BY <1>1, <1>3 DEF IInv, TypeOK
  <2>4. LeaseOK(w)'
    BY <1>1, <1>4, <2>1, <2>2, <2>3, LeaseAssumption DEF LeaseOK
  <2> QED
    BY <1>1, <1>4, <2>1, <2>2, <2>4 DEF WorkerOK, Passed, Working
<1> QED
  BY <1>6, <1>7, <1>8, <1>9 DEF IInv, WorkersOK

\* The invariant is preserved by store_artifact.
LEMMA StoreArtifactInv ==
  ASSUME IInv, NEW w \in Workers, store_artifact(w)
  PROVE  IInv'
<1> DEFINE s == SampleOf(w)
<1>1. /\ pc[w] = "store" /\ pc[w] \in Working
      /\ UNCHANGED <<attempt_count, worker_id, lease_expires_at, evaluation, run_status,
                     outboxVars, streamVars>>
  BY DEF store_artifact, Working
<1>2. s \in Samples /\ held[w][1] \in Events /\ WorkerOK(w)
  BY <1>1, HeldFacts DEF Working, IInv, WorkersOK
<1>A. CASE Leave(w) /\ UNCHANGED <<artifact, status, faults>>
  <2>1. UNCHANGED <<sampleVars, run_status, outboxVars, streamVars>>
    BY <1>1, <1>A DEF sampleVars
  <2>2. WorkerTypes' /\ WorkerOK(w)' /\ \A v \in Workers \ {w} : SameWorker(v)
    BY <1>1, <1>A, LeaveStep DEF Leave, streamVars
  <2> QED
    BY <1>A, <2>1, <2>2, WorkerStep DEF IInv, TypeOK
<1>B. CASE /\ Owns(w, s) /\ artifact[s] = NoSource /\ status[s] = "generating"
           /\ artifact' = [artifact EXCEPT ![s] = source[w]]
           /\ status' = [status EXCEPT ![s] = "evaluating"]
           /\ \/ Goto(w, "evaluate") /\ UNCHANGED faults
              \/ Leave(w) /\ Fault
  <2>1. source[w] \in Sources /\ source[w] # NoSource
    BY <1>1, <1>2 DEF WorkerOK, IInv, TypeOK
  <2>2. /\ status' \in [Samples -> Statuses]
        /\ artifact' \in [Samples -> Sources \cup {NoSource}]
        /\ status'[s] = "evaluating" /\ artifact'[s] = source[w]
        /\ \A t \in Samples \ {s} : status'[t] = status[t] /\ artifact'[t] = artifact[t]
    BY <1>2, <1>B, <2>1 DEF IInv, TypeOK, Statuses, Active
  <2>3. \A e \in Events : Passed(e) => Passed(e)'
    BY <1>1, <1>B, <2>2, EventFacts DEF Passed, Terminal
  <2>4. /\ WorkerTypes' /\ WorkerOK(w)' /\ \A v \in Workers \ {w} : SameWorker(v)
        /\ faults' \in 0 .. MaxFaults
    <3>1. CASE Leave(w) /\ Fault
      <4>1. faults' \in 0 .. MaxFaults
        BY <3>1, FaultsAssumption DEF Fault, IInv, TypeOK
      <4> QED
        BY <1>1, <3>1, <4>1, LeaveStep DEF Leave, streamVars
    <3>2. CASE Goto(w, "evaluate") /\ UNCHANGED faults
      <4>1. /\ pc' = [pc EXCEPT ![w] = "evaluate"] /\ pc'[w] = "evaluate"
            /\ UNCHANGED <<held, claimed, known, source, error>>
        BY <3>2 DEF Goto, IInv, TypeOK
      <4>2. WorkerTypes'
        BY <1>1, <4>1, EntriesSame DEF streamVars, IInv, TypeOK, WorkerTypes
      <4>3. SampleOf(w)' = s /\ Owns(w, SampleOf(w))'
        BY <1>1, <1>B, <2>2, <4>1 DEF SampleOf, Owns, Active
      <4>4. Passed(held[w][1])'
        BY <1>1, <1>2, <2>3, <4>1 DEF WorkerOK, Passed
      <4>5. artifact'[SampleOf(w)'] = source'[w]
        BY <2>2, <4>1, <4>3
      <4>6. LeaseOK(w)'
        BY <1>1, <1>2, <4>1, <4>3 DEF WorkerOK, LeaseOK
      <4>7. claimed'[w] > 0 /\ claimed'[w] = attempt_count'[SampleOf(w)'] /\ held'[w] # NoMessage
        BY <1>1, <1>2, <1>B, <4>1, <4>3 DEF WorkerOK
      <4>8. source'[w] # NoSource /\ pc'[w] \in Working
        BY <2>1, <4>1 DEF Working
      <4>9. WorkerOK(w)'
        BY <4>1, <4>4, <4>5, <4>6, <4>7, <4>8 DEF WorkerOK
      <4> QED
        BY <3>2, <4>1, <4>2, <4>9 DEF SameWorker, IInv, TypeOK
    <3> QED
      BY <1>B, <3>1, <3>2
  <2>5. TypeOK'
    BY <1>1, <2>2, <2>4, StreamSame DEF IInv, TypeOK, WorkerTypes, outboxVars, streamVars
  <2>6. Planned' /\ EvaluatesStoredArtifact'
    BY <1>1, <1>2, <1>B, <2>1, <2>2 DEF IInv, Planned, EvaluatesStoredArtifact
  <2>7. SamplesOK'
    BY <1>1, <1>2, <1>B, <2>2 DEF IInv, SamplesOK, SampleOK, Active, Waiting, outboxVars
  <2>8. RowsOK'
    BY <1>1, <1>2, <1>B, <2>2, EventFacts DEF IInv, RowsOK, RowOK, Waiting, outboxVars, streamVars
  <2>9. Answered'
    BY <1>1, <2>3, EntryFacts DEF streamVars, IInv, TypeOK, Stream, Answered
  <2>10. ASSUME NEW v \in Workers \ {w} PROVE WorkerOK(v)'
    <3>1. WorkerOK(v) /\ SameWorker(v)
      BY <2>4 DEF IInv, WorkersOK
    <3>2. SampleOf(v) = s => ~ Owns(v, s)
      BY <1>B DEF Owns
    <3>3. ASSUME pc[v] \in Working PROVE SparesWorker(v, SampleOf(v))
      <4>1. SampleOf(v) \in Samples
        BY <3>3, HeldFacts DEF Working
      <4>2. CASE SampleOf(v) = s
        BY <1>1, <1>B, <3>1, <3>2, <4>2 DEF SparesWorker, WorkerOK, LeaseOK, Owns, Active
      <4>3. CASE SampleOf(v) # s
        BY <1>1, <2>2, <3>1, <4>1, <4>3 DEF SparesWorker, WorkerOK, LeaseOK, Owns
      <4> QED
        BY <4>2, <4>3
    <3> QED
      BY <2>3, <3>1, <3>3, WorkerSpared
  <2> QED
    BY <2>4, <2>5, <2>6, <2>7, <2>8, <2>9, <2>10 DEF IInv, WorkersOK
<1> QED
  BY <1>A, <1>B DEF store_artifact, MayWrite

\* The invariant is preserved by claim.
LEMMA ClaimInv ==
  ASSUME IInv, NEW w \in Workers, claim(w)
  PROVE  IInv'
<1> DEFINE s == SampleOf(w)
<1>1. pc[w] = "claim" /\ UNCHANGED <<artifact, evaluation, outboxVars, streamVars>>
  BY DEF claim
<1>2. /\ s \in Samples /\ held[w][1] \in Events /\ held[w][1][1] = s
      /\ held[w][1][2] \in 0 .. MaxAttempts - 1 /\ held[w] # NoMessage
      /\ \/ held[w][1][2] < attempt_count[s]
         \/ held[w][1][2] = attempt_count[s] /\ status[s] \in Waiting
  BY <1>1, HeldFacts, EntryFacts DEF SampleOf, IInv, TypeOK
<1>3. /\ WorkerOK(w) /\ attempt_count[s] \in 0 .. MaxAttempts
      /\ known[w] = 0
  BY <1>1, <1>2 DEF IInv, TypeOK, WorkersOK, WorkerOK, Working
<1>A. CASE /\ ~ Claimable(s)
           /\ Goto(w, "ack")
           /\ UNCHANGED <<status, attempt_count, worker_id, lease_expires_at, run_status, faults>>
  <2>1. UNCHANGED <<sampleVars, run_status, outboxVars, streamVars, faults>>
    BY <1>1, <1>A DEF sampleVars
  <2>2. pc' = [pc EXCEPT ![w] = "ack"] /\ UNCHANGED <<held, claimed, known, source, error>>
    BY <1>A DEF Goto
  <2>3. WorkerTypes' /\ \A v \in Workers \ {w} : SameWorker(v)
    BY <2>1, <2>2, EntriesSame DEF streamVars, IInv, TypeOK, WorkerTypes, SameWorker
  <2>4. pc'[w] = "ack" /\ Passed(held[w][1])'
    BY <1>2, <1>3, <1>A, <2>1, <2>2 DEF Claimable, Passed, sampleVars, IInv, TypeOK
  <2>5. WorkerOK(w)'
    BY <1>2, <1>3, <2>2, <2>4 DEF WorkerOK, LeaseOK, Working
  <2> QED
    BY <2>1, <2>3, <2>5, WorkerStep DEF IInv, TypeOK
<1>B. CASE /\ Claimable(s)
           /\ status' = [status EXCEPT ![s] = IF artifact[s] # NoSource THEN "evaluating"
                                              ELSE "generating"]
           /\ attempt_count' = [attempt_count EXCEPT ![s] = attempt_count[s] + 1]
           /\ worker_id' = [worker_id EXCEPT ![s] = w]
           /\ lease_expires_at' = [lease_expires_at EXCEPT ![s] = LeaseSeconds]
           /\ run_status' = IF run_status = "queued" THEN "running" ELSE run_status
           /\ \/ /\ pc' = [pc EXCEPT ![w] = "confirm"]
                 /\ claimed' = [claimed EXCEPT ![w] = attempt_count[s] + 1]
                 /\ known' = [known EXCEPT ![w] = LeaseSeconds]
                 /\ UNCHANGED <<held, source, error, faults>>
              \/ Leave(w) /\ Fault
  <2>1. SampleOK(s) /\ status[s] \in Waiting /\ attempt_count[s] + 1 \in 1 .. MaxAttempts
    BY <1>2, <1>3, <1>B, MaxAttemptsAssumption DEF Claimable, IInv, SamplesOK, SampleOK
  <2>2. /\ status'[s] = IF artifact[s] # NoSource THEN "evaluating" ELSE "generating"
        /\ attempt_count'[s] = attempt_count[s] + 1
        /\ worker_id'[s] = w
        /\ lease_expires_at'[s] = LeaseSeconds
        /\ \A t \in Samples \ {s} : /\ status'[t] = status[t]
                                    /\ attempt_count'[t] = attempt_count[t]
                                    /\ worker_id'[t] = worker_id[t]
                                    /\ lease_expires_at'[t] = lease_expires_at[t]
    BY <1>2, <1>B DEF IInv, TypeOK
  <2>3. LeaseSeconds \in 0 .. LeaseSeconds
    BY LeaseAssumption
  <2>4. /\ status' \in [Samples -> Statuses]
        /\ attempt_count' \in [Samples -> 0 .. MaxAttempts]
        /\ worker_id' \in [Samples -> Workers \cup {NoWorker}]
        /\ lease_expires_at' \in [Samples -> {NULL, Expired} \cup 0 .. LeaseSeconds]
        /\ run_status' \in {"absent", "queued", "running"} \cup RunTerminal
        /\ run_status' = "absent" => run_status = "absent"
    BY <1>2, <1>B, <2>1, <2>3 DEF IInv, TypeOK, Statuses, Active
  <2>5. \A e \in Events : Passed(e) => Passed(e)'
    <3> SUFFICES ASSUME NEW e \in Events, Passed(e) PROVE Passed(e)'
      OBVIOUS
    <3>1. e[1] \in Samples /\ e[2] \in 0 .. MaxAttempts - 1
      BY EventFacts
    <3> QED
      BY <1>3, <2>1, <2>2, <3>1, MaxAttemptsAssumption DEF Passed, Waiting, Terminal
  <2>6. /\ WorkerTypes' /\ WorkerOK(w)' /\ \A v \in Workers \ {w} : SameWorker(v)
        /\ faults' \in 0 .. MaxFaults
    <3>1. CASE Leave(w) /\ Fault
      <4>1. faults' \in 0 .. MaxFaults
        BY <3>1, FaultsAssumption DEF Fault, IInv, TypeOK
      <4> QED
        BY <1>1, <3>1, <4>1, LeaveStep DEF Leave, streamVars
    <3>2. CASE /\ pc' = [pc EXCEPT ![w] = "confirm"]
               /\ claimed' = [claimed EXCEPT ![w] = attempt_count[s] + 1]
               /\ known' = [known EXCEPT ![w] = LeaseSeconds]
               /\ UNCHANGED <<held, source, error, faults>>
      <4>1. attempt_count[s] + 1 \in 0 .. MaxAttempts
        BY <2>1
      <4>2. /\ WorkerTypes' /\ faults' \in 0 .. MaxFaults
            /\ \A v \in Workers \ {w} : SameWorker(v)
        BY <1>1, <2>3, <3>2, <4>1, EntriesSame
        DEF streamVars, IInv, TypeOK, WorkerTypes, SameWorker
      <4>3. /\ pc'[w] = "confirm" /\ held'[w] = held[w]
            /\ claimed'[w] = attempt_count[s] + 1 /\ known'[w] = LeaseSeconds
        BY <3>2 DEF IInv, TypeOK
      <4>4. SampleOf(w)' = s /\ Owns(w, SampleOf(w))'
        BY <2>2, <4>3 DEF SampleOf, Owns, Active
      <4>5. Passed(held[w][1])'
        BY <1>2, <1>3, <2>1, <2>2, <4>3 DEF Passed
      <4>6. LeaseOK(w)'
        BY <2>2, <4>3, <4>4, LeaseAssumption DEF LeaseOK
      <4>7. WorkerOK(w)'
        BY <1>2, <2>1, <2>2, <4>3, <4>4, <4>5, <4>6 DEF WorkerOK, Working
      <4> QED
        BY <4>2, <4>7
    <3> QED
      BY <1>B, <3>1, <3>2
  <2>7. TypeOK'
    BY <1>1, <2>4, <2>6, StreamSame DEF IInv, TypeOK, WorkerTypes, outboxVars, streamVars
  <2>8. Planned'
    <3>1. run_status # "absent"
      BY <1>2, <2>1, NothingPlanned DEF Waiting
    <3> QED
      BY <2>4, <3>1 DEF Planned
  <2>9. EvaluatesStoredArtifact'
    BY <1>1, <1>2, <2>1, <2>2 DEF IInv, EvaluatesStoredArtifact, Waiting
  <2>10. SamplesOK'
    <3> SUFFICES ASSUME NEW t \in Samples PROVE SampleOK(t)'
      BY DEF SamplesOK
    <3>1. CASE t = s
      BY <1>3, <2>1, <2>2, <3>1 DEF SampleOK, Waiting, Active
    <3>2. CASE t # s
      BY <1>1, <2>2, <3>2 DEF IInv, SamplesOK, SampleOK, outboxVars
    <3> QED
      BY <3>1, <3>2
  <2>11. RowsOK'
    <3> SUFFICES ASSUME NEW e \in Events PROVE RowOK(e)'
      BY DEF RowsOK
    <3>1. e[1] \in Samples /\ e[2] \in 0 .. MaxAttempts - 1 /\ RowOK(e)
      BY EventFacts DEF IInv, RowsOK
    <3>2. CASE e[1] = s
      BY <1>1, <1>3, <2>1, <2>2, <3>1, <3>2 DEF RowOK, outboxVars, streamVars
    <3>3. CASE e[1] # s
      BY <1>1, <2>2, <3>1, <3>3 DEF RowOK, outboxVars, streamVars
    <3> QED
      BY <3>2, <3>3
  <2>12. Answered'
    BY <1>1, <2>5, EntryFacts DEF streamVars, IInv, TypeOK, Stream, Answered
  <2>13. ASSUME NEW v \in Workers \ {w} PROVE WorkerOK(v)'
    <3>1. WorkerOK(v) /\ SameWorker(v)
      BY <2>6 DEF IInv, WorkersOK
    <3>2. ~ Owns(v, s)
      BY <2>1 DEF Owns, Waiting, Active
    <3>3. ASSUME pc[v] \in Working PROVE SparesWorker(v, SampleOf(v))
      <4>1. SampleOf(v) \in Samples
        BY <3>3, HeldFacts DEF Working
      <4>2. CASE SampleOf(v) = s
        BY <1>1, <2>2, <3>1, <3>2, <4>2 DEF SparesWorker, WorkerOK, LeaseOK
      <4>3. CASE SampleOf(v) # s
        BY <1>1, <2>2, <3>1, <4>1, <4>3 DEF SparesWorker, WorkerOK, LeaseOK, Owns
      <4> QED
        BY <4>2, <4>3
    <3> QED
      BY <2>5, <3>1, <3>3, WorkerSpared
  <2> QED
    BY <2>6, <2>7, <2>8, <2>9, <2>10, <2>11, <2>12, <2>13 DEF IInv, WorkersOK
<1> QED
  BY <1>A, <1>B DEF claim, NewExpiry

-----------------------------------------------------------------------------
(* Attempts that end *)

\* What a run becomes has the type of a run, and no run that exists is forgotten.
LEMMA FinishRunType ==
  ASSUME IInv, NEW statuses
  PROVE  /\ FinishRun(statuses) \in {"absent", "queued", "running"} \cup RunTerminal
         /\ FinishRun(statuses) = "absent" => run_status = "absent"
BY DEF FinishRun, RunTerminal, IInv, TypeOK

\* GiveUpAttempt, in a transaction of recover_stale or record_failure, on samples that
\* somebody works on: those that may be tried again get a row of their own.
LEMMA GiveUpStep ==
  ASSUME IInv, NEW S \in SUBSET Samples, \A s \in S : status[s] \in Active,
         NEW retryable \in BOOLEAN, NEW final \in Terminal \ {"completed"},
         GiveUpAttempt(S, retryable, final), UNCHANGED streamVars
  PROVE  /\ status' \in [Samples -> Statuses]
         /\ worker_id' \in [Samples -> Workers \cup {NoWorker}]
         /\ lease_expires_at' \in [Samples -> {NULL, Expired} \cup 0 .. LeaseSeconds]
         /\ run_status' \in {"absent", "queued", "running"} \cup RunTerminal
         /\ outbox' \in [Events -> {"absent", "unpublished", "published"}]
         /\ outbox_due' \in [Events -> Int]
         /\ Planned'
         /\ SamplesOK'
         /\ RowsOK'
         /\ EvaluatesStoredArtifact'
         /\ \A e \in Events : Passed(e) => Passed(e)'
         /\ \A v \in Workers : pc[v] \in Working /\ (known[v] > 0 => SampleOf(v) \notin S)
                                 => SparesWorker(v, SampleOf(v))
<1> DEFINE again == {s \in S : retryable /\ MayRetry(s)}
           delay == [s \in Samples |-> retry_delay_seconds(attempt_count[s])]
           event == {<<s, attempt_count[s]>> : s \in again}
<1>a. /\ status' = [s \in Samples |-> IF s \in again THEN Resume(s)
                                      ELSE IF s \in S THEN final ELSE status[s]]
      /\ worker_id' = [s \in Samples |-> IF s \in S THEN NoWorker ELSE worker_id[s]]
      /\ lease_expires_at' = [s \in Samples |-> IF s \in S THEN NULL ELSE lease_expires_at[s]]
      /\ outbox' = [e \in Events |-> IF e \in event THEN "unpublished" ELSE outbox[e]]
      /\ outbox_due' = [e \in Events |-> IF e \in event THEN delay[e[1]] ELSE outbox_due[e]]
      /\ run_status' = IF S \subseteq again THEN run_status ELSE FinishRun(status')
      /\ UNCHANGED <<attempt_count, artifact, evaluation, outbox_attempts>>
  BY DEF GiveUpAttempt
<1>b. ASSUME NEW s \in again
      PROVE  /\ s \in Samples /\ attempt_count[s] \in 1 .. MaxAttempts - 1
             /\ delay[s] \in Nat
             /\ <<s, attempt_count[s]>> \in Events
             /\ outbox[<<s, attempt_count[s]>>] = "absent"
             /\ added[<<s, attempt_count[s]>>] = 0
  <2>1. s \in Samples /\ status[s] \in Active /\ attempt_count[s] < MaxAttempts
    BY DEF MayRetry
  <2>2. attempt_count[s] \in 1 .. MaxAttempts - 1
    <3>1. attempt_count[s] \in 0 .. MaxAttempts /\ SampleOK(s)
      BY <2>1 DEF IInv, TypeOK, SamplesOK
    <3> QED
      BY <2>1, <3>1, MaxAttemptsAssumption DEF SampleOK
  <2>3. delay[s] \in Nat
    BY <2>1, <2>2, MaxAttemptsAssumption, DelayAssumption
  <2>4. <<s, attempt_count[s]>> \in Events
    BY <2>1, <2>2, MaxAttemptsAssumption, EventMade
  <2>5. RowOK(<<s, attempt_count[s]>>) /\ added[<<s, attempt_count[s]>>] \in Nat
    BY <2>4 DEF IInv, TypeOK, RowsOK
  <2> QED
    BY <2>1, <2>2, <2>3, <2>4, <2>5 DEF RowOK, Waiting, Active
<1> HIDE DEF delay
<1>c. \A e \in event : e[1] \in again /\ e = <<e[1], attempt_count[e[1]]>>
  OBVIOUS
<1>d. \A s \in Samples : Resume(s) \in Waiting
  BY DEF Resume, Waiting
<1>e. ASSUME NEW t \in Samples \ S
      PROVE  status'[t] = status[t] /\ worker_id'[t] = worker_id[t]
             /\ lease_expires_at'[t] = lease_expires_at[t]
  BY <1>a
<1>f. ASSUME NEW t \in S
      PROVE  /\ t \in again => status'[t] = Resume(t)
             /\ t \notin again => status'[t] = final
             /\ worker_id'[t] = NoWorker
  BY <1>a
<1> HIDE DEF again
<1>1. /\ status' \in [Samples -> Statuses]
      /\ worker_id' \in [Samples -> Workers \cup {NoWorker}]
      /\ lease_expires_at' \in [Samples -> {NULL, Expired} \cup 0 .. LeaseSeconds]
      /\ outbox' \in [Events -> {"absent", "unpublished", "published"}]
  BY <1>a, <1>d DEF IInv, TypeOK, Statuses
<1>2. outbox_due' \in [Events -> Int]
  <2> SUFFICES ASSUME NEW e \in Events PROVE outbox_due'[e] \in Int
    BY <1>a
  <2>1. CASE e \in event
    BY <1>a, <1>b, <1>c, <2>1
  <2>2. CASE e \notin event
    BY <1>a, <2>2 DEF IInv, TypeOK
  <2> QED
    BY <2>1, <2>2
<1>3. /\ run_status' \in {"absent", "queued", "running"} \cup RunTerminal
      /\ run_status' = "absent" => run_status = "absent"
  BY <1>a, FinishRunType DEF IInv, TypeOK
<1>4. Planned'
  <2> SUFFICES ASSUME run_status' = "absent", NEW s \in Samples PROVE status'[s] = "absent"
    BY DEF Planned
  <2>1. \A t \in Samples : status[t] = "absent"
    BY <1>3 DEF IInv, Planned
  <2> QED
    BY <1>e, <2>1 DEF Active
<1>5. SamplesOK'
  <2> SUFFICES ASSUME NEW s \in Samples PROVE SampleOK(s)'
    BY DEF SamplesOK
  <2>1. SampleOK(s)
    BY DEF IInv, SamplesOK
  <2>2. CASE s \in again
    <3>1. <<s, attempt_count[s]>> \in event /\ s \in S
      BY <2>2 DEF again
    <3>2. outbox'[<<s, attempt_count[s]>>] = "unpublished" /\ status'[s] = Resume(s)
      BY <1>a, <1>b, <1>f, <2>2, <3>1
    <3> QED
      BY <1>a, <1>b, <1>d, <2>2, <3>2, MaxAttemptsAssumption DEF SampleOK, Waiting, Active
  <2>3. CASE s \notin again /\ s \in S
    BY <1>a, <1>f, <2>3 DEF SampleOK, Waiting, Active, Terminal
  <2>4. CASE s \notin S
    <3>1. status'[s] = status[s]
      BY <1>e, <2>4
    <3>2. status[s] \in Waiting => <<s, attempt_count[s]>> \in Events
      BY WaitingEvent
    <3>3. status[s] \in Waiting => outbox'[<<s, attempt_count[s]>>] # "absent"
      BY <1>a, <2>1, <3>2 DEF SampleOK
    <3> QED
      BY <1>a, <2>1, <3>1, <3>3 DEF SampleOK
  <2> QED
    BY <2>2, <2>3, <2>4
<1>6. RowsOK'
  <2> SUFFICES ASSUME NEW e \in Events PROVE RowOK(e)'
    BY DEF RowsOK
  <2>1. RowOK(e) /\ e[1] \in Samples
    BY EventFacts DEF IInv, RowsOK
  <2>2. CASE e \in event
    <3>1. /\ e[1] \in again /\ e[2] = attempt_count[e[1]] /\ added[e] = 0
          /\ outbox'[e] = "unpublished"
      BY <1>a, <1>b, <1>c, <2>2
    <3>2. status'[e[1]] \in Waiting
      BY <1>d, <1>f, <2>1, <3>1 DEF again
    <3> QED
      BY <1>a, <3>1, <3>2 DEF RowOK, streamVars
  <2>3. CASE e \notin event
    <3>1. outbox'[e] = outbox[e] /\ outbox_due'[e] = outbox_due[e]
      BY <1>a, <2>3
    <3>2. status[e[1]] \in Waiting => status'[e[1]] = status[e[1]]
      BY <1>e, <2>1 DEF Waiting, Active
    <3> QED
      BY <1>a, <2>1, <3>1, <3>2 DEF RowOK, streamVars
  <2> QED
    BY <2>2, <2>3
<1>7. EvaluatesStoredArtifact'
  <2> SUFFICES ASSUME NEW s \in Samples
               PROVE  /\ status'[s] \in {"queued", "generating"} => artifact'[s] = NoSource
                      /\ status'[s] \in {"generated", "evaluating", "completed"} => artifact'[s] # NoSource
                      /\ status'[s] = "completed" => evaluation'[s] = artifact'[s]
                      /\ status'[s] # "completed" => evaluation'[s] = NoSource
    BY DEF EvaluatesStoredArtifact
  <2>1. CASE s \in S
    <3>1. evaluation[s] = NoSource
      BY <2>1 DEF IInv, EvaluatesStoredArtifact, Active
    <3> QED
      BY <1>a, <1>f, <2>1, <3>1 DEF Resume, Terminal
  <2>2. CASE s \notin S
    BY <1>a, <1>e, <2>2 DEF IInv, EvaluatesStoredArtifact
  <2> QED
    BY <2>1, <2>2
<1>8. ASSUME NEW e \in Events, Passed(e) PROVE Passed(e)'
  <2>1. e[1] \in Samples
    BY EventFacts
  <2>2. status[e[1]] \in Terminal => status'[e[1]] = status[e[1]]
    BY <1>e, <2>1 DEF Terminal, Active
  <2> QED
    BY <1>a, <1>8, <2>2 DEF Passed
<1>9. ASSUME NEW v \in Workers, pc[v] \in Working, known[v] > 0 => SampleOf(v) \notin S
      PROVE  SparesWorker(v, SampleOf(v))
  <2>1. SampleOf(v) \in Samples /\ WorkerOK(v)
    BY <1>9, HeldFacts DEF Working, IInv, WorkersOK
  <2>2. CASE SampleOf(v) \in S
    <3>1. worker_id'[SampleOf(v)] # v
      BY <1>f, <2>2, WorkersAssumption
    <3> QED
      BY <1>9, <1>a, <2>2, <3>1 DEF SparesWorker
  <2>3. CASE SampleOf(v) \notin S
    BY <1>a, <1>e, <2>1, <2>3 DEF SparesWorker, WorkerOK, LeaseOK, Owns
  <2> QED
    BY <2>2, <2>3
<1> QED
  BY <1>1, <1>2, <1>3, <1>4, <1>5, <1>6, <1>7, <1>8, <1>9

\* The invariant is preserved by recover_stale.
LEMMA RecoverStaleInv ==
  ASSUME IInv, NEW S \in SUBSET Stale, recover_stale(S)
  PROVE  IInv'
<1>1. /\ GiveUpAttempt(S, TRUE, "skipped") /\ UNCHANGED <<streamVars, workerVars>>
      /\ S \in SUBSET Samples /\ (\A s \in S : status[s] \in Active)
      /\ "skipped" \in Terminal \ {"completed"} /\ TRUE \in BOOLEAN
  BY DEF recover_stale, Stale, Terminal
<1>2. UNCHANGED <<attempt_count, artifact, evaluation, outbox_attempts>>
  BY <1>1 DEF GiveUpAttempt
<1>3. faults' \in 0 .. MaxFaults
  BY FaultsAssumption DEF recover_stale, Fault, IInv, TypeOK
<1>4. /\ status' \in [Samples -> Statuses]
      /\ worker_id' \in [Samples -> Workers \cup {NoWorker}]
      /\ lease_expires_at' \in [Samples -> {NULL, Expired} \cup 0 .. LeaseSeconds]
      /\ run_status' \in {"absent", "queued", "running"} \cup RunTerminal
      /\ outbox' \in [Events -> {"absent", "unpublished", "published"}]
      /\ outbox_due' \in [Events -> Int]
  BY <1>1, GiveUpStep
<1>5. Planned' /\ SamplesOK' /\ RowsOK' /\ EvaluatesStoredArtifact'
  BY <1>1, GiveUpStep
<1>6. \A e \in Events : Passed(e) => Passed(e)'
  BY <1>1, GiveUpStep
<1>7. TypeOK'
  BY <1>1, <1>2, <1>3, <1>4, StreamSame DEF IInv, TypeOK, streamVars, workerVars
<1>8. Answered'
  BY <1>1, <1>6, EntryFacts DEF streamVars, IInv, TypeOK, Stream, Answered
<1>9. ASSUME NEW v \in Workers PROVE WorkerOK(v)'
  <2>1. SameWorker(v) /\ WorkerOK(v)
    BY <1>1 DEF workerVars, SameWorker, IInv, WorkersOK
  <2>2. known[v] > 0 => SampleOf(v) \notin S
    BY <2>1 DEF WorkerOK, LeaseOK, Stale, Expired, IInv, TypeOK
  <2>3. pc[v] \in Working => SparesWorker(v, SampleOf(v))
    BY <1>1, <2>2, GiveUpStep
  <2> QED
    BY <1>6, <2>1, <2>3, WorkerSpared
<1> QED
  BY <1>5, <1>7, <1>8, <1>9 DEF IInv, WorkersOK

\* A worker that ends the attempt on its sample takes nothing from the others.
LEMMA OthersSpared ==
  ASSUME IInv, NEW w \in Workers, Owns(w, SampleOf(w)), NEW v \in Workers \ {w}
  PROVE  known[v] > 0 => SampleOf(v) # SampleOf(w)
BY DEF IInv, WorkersOK, WorkerOK, LeaseOK, Owns

\* The invariant is preserved by record_failure.
LEMMA RecordFailureInv ==
  ASSUME IInv, NEW w \in Workers, record_failure(w)
  PROVE  IInv'
<1> DEFINE s == SampleOf(w)
           final == IF error[w] \in Generation THEN "generation_failed" ELSE "evaluation_failed"
<1>1. pc[w] = "fail" /\ pc[w] \in Working /\ UNCHANGED streamVars /\ s \in Samples
  BY HeldFacts DEF record_failure, Working
<1>A. CASE Leave(w) /\ UNCHANGED <<sampleVars, run_status, outboxVars, faults>>
  <2>1. WorkerTypes' /\ WorkerOK(w)' /\ \A v \in Workers \ {w} : SameWorker(v)
    BY <1>1, <1>A, LeaveStep DEF Leave, streamVars
  <2> QED
    BY <1>1, <1>A, <2>1, WorkerStep DEF IInv, TypeOK
<1>B. CASE Owns(w, s) /\ GiveUpAttempt({s}, error[w] \in Retryable, final) /\ Recorded(w)
  <2>1. /\ {s} \in SUBSET Samples /\ (\A t \in {s} : status[t] \in Active)
        /\ final \in Terminal \ {"completed"} /\ (error[w] \in Retryable) \in BOOLEAN
    BY <1>1, <1>B DEF Owns, Terminal
  <2>2. UNCHANGED <<attempt_count, artifact, evaluation, outbox_attempts>>
    BY <1>B DEF GiveUpAttempt
  <2>3. /\ status' \in [Samples -> Statuses]
        /\ worker_id' \in [Samples -> Workers \cup {NoWorker}]
        /\ lease_expires_at' \in [Samples -> {NULL, Expired} \cup 0 .. LeaseSeconds]
        /\ run_status' \in {"absent", "queued", "running"} \cup RunTerminal
        /\ outbox' \in [Events -> {"absent", "unpublished", "published"}]
        /\ outbox_due' \in [Events -> Int]
    BY <1>1, <1>B, <2>1, GiveUpStep
  <2>4. Planned' /\ SamplesOK' /\ RowsOK' /\ EvaluatesStoredArtifact'
    BY <1>1, <1>B, <2>1, GiveUpStep
  <2>5. \A e \in Events : Passed(e) => Passed(e)'
    BY <1>1, <1>B, <2>1, GiveUpStep
  <2>6. /\ WorkerTypes' /\ WorkerOK(w)' /\ \A v \in Workers \ {w} : SameWorker(v)
        /\ faults' \in 0 .. MaxFaults
    BY <1>1, <1>B, <2>5, RecordedStep DEF streamVars
  <2>7. TypeOK'
    BY <1>1, <2>2, <2>3, <2>6, StreamSame DEF IInv, TypeOK, WorkerTypes, streamVars
  <2>8. Answered'
    BY <1>1, <2>5, EntryFacts DEF streamVars, IInv, TypeOK, Stream, Answered
  <2>9. ASSUME NEW v \in Workers \ {w} PROVE WorkerOK(v)'
    <3>1. pc[v] \in Working => SparesWorker(v, SampleOf(v))
      BY <1>1, <1>B, <2>1, OthersSpared, GiveUpStep
    <3> QED
      BY <2>5, <2>6, <3>1, WorkerSpared
  <2> QED
    BY <2>4, <2>6, <2>7, <2>8, <2>9 DEF IInv, WorkersOK
<1> QED
  BY <1>A, <1>B DEF record_failure, MayWrite

\* The invariant is preserved by complete.
LEMMA CompleteInv ==
  ASSUME IInv, NEW w \in Workers, complete(w)
  PROVE  IInv'
<1> DEFINE s == SampleOf(w)
<1>1. /\ pc[w] = "complete" /\ pc[w] \in Working /\ s \in Samples
      /\ UNCHANGED <<attempt_count, artifact, outboxVars, streamVars>>
  BY HeldFacts DEF complete, Working
<1>A. CASE /\ Recorded(w) \/ (Leave(w) /\ UNCHANGED faults)
           /\ UNCHANGED <<status, worker_id, lease_expires_at, evaluation, run_status>>
  <2>1. UNCHANGED <<sampleVars, run_status, outboxVars, streamVars>>
    BY <1>1, <1>A DEF sampleVars
  <2>2. \A e \in Events : Passed(e) => Passed(e)'
    BY <2>1 DEF Passed, sampleVars
  <2>3. /\ WorkerTypes' /\ WorkerOK(w)' /\ \A v \in Workers \ {w} : SameWorker(v)
        /\ faults' \in 0 .. MaxFaults
    BY <1>1, <1>A, <2>2, RecordedStep DEF streamVars
  <2> QED
    BY <2>1, <2>3, WorkerStep
<1>B. CASE /\ Owns(w, s)
           /\ status' = [status EXCEPT ![s] = "completed"]
           /\ evaluation' = [evaluation EXCEPT ![s] = source[w]]
           /\ worker_id' = [worker_id EXCEPT ![s] = NoWorker]
           /\ lease_expires_at' = [lease_expires_at EXCEPT ![s] = NULL]
           /\ run_status' = FinishRun(status')
           /\ Recorded(w)
  <2>1. source[w] = artifact[s] /\ artifact[s] # NoSource /\ artifact[s] \in Sources \cup {NoSource}
    BY <1>1 DEF IInv, TypeOK, WorkersOK, WorkerOK
  <2>2. /\ status'[s] = "completed" /\ evaluation'[s] = artifact[s] /\ worker_id'[s] = NoWorker
        /\ \A t \in Samples \ {s} : /\ status'[t] = status[t]
                                    /\ evaluation'[t] = evaluation[t]
                                    /\ worker_id'[t] = worker_id[t]
                                    /\ lease_expires_at'[t] = lease_expires_at[t]
    BY <1>1, <1>B, <2>1 DEF IInv, TypeOK
  <2>3. /\ status' \in [Samples -> Statuses]
        /\ evaluation' \in [Samples -> Sources \cup {NoSource}]
        /\ worker_id' \in [Samples -> Workers \cup {NoWorker}]
        /\ lease_expires_at' \in [Samples -> {NULL, Expired} \cup 0 .. LeaseSeconds]
    BY <1>1, <1>B, <2>1 DEF IInv, TypeOK, Statuses, Terminal
  <2>4. /\ run_status' \in {"absent", "queued", "running"} \cup RunTerminal
        /\ run_status' = "absent" => run_status = "absent"
    BY <1>B, FinishRunType
  <2>5. \A e \in Events : Passed(e) => Passed(e)'
    BY <1>1, <2>2, EventFacts DEF Passed, Terminal
  <2>6. /\ WorkerTypes' /\ WorkerOK(w)' /\ \A v \in Workers \ {w} : SameWorker(v)
        /\ faults' \in 0 .. MaxFaults
    BY <1>1, <1>B, <2>5, RecordedStep DEF streamVars
  <2>7. TypeOK'
    BY <1>1, <2>3, <2>4, <2>6, StreamSame DEF IInv, TypeOK, WorkerTypes, outboxVars, streamVars
  <2>8. Planned'
    BY <1>1, <1>B, <2>4 DEF Planned, IInv, Owns, Active
  <2>9. SamplesOK'
    BY <1>1, <2>2 DEF IInv, SamplesOK, SampleOK, Waiting, Active, outboxVars
  <2>10. RowsOK'
    <3>1. \A t \in Samples : status[t] \in Waiting => status'[t] = status[t]
      BY <1>B, <2>2 DEF Owns, Active, Waiting
    <3> QED
      BY <1>1, <3>1, EventFacts DEF IInv, RowsOK, RowOK, outboxVars, streamVars
  <2>11. EvaluatesStoredArtifact'
    BY <1>1, <2>1, <2>2 DEF IInv, EvaluatesStoredArtifact
  <2>12. Answered'
    BY <1>1, <2>5, EntryFacts DEF streamVars, IInv, TypeOK, Stream, Answered
  <2>13. ASSUME NEW v \in Workers \ {w} PROVE WorkerOK(v)'
    <3>1. WorkerOK(v) /\ SameWorker(v) /\ v # NoWorker
      BY <2>6, WorkersAssumption DEF IInv, WorkersOK
    <3>2. ASSUME pc[v] \in Working PROVE SparesWorker(v, SampleOf(v))
      <4>1. SampleOf(v) \in Samples
        BY <3>2, HeldFacts DEF Working
      <4>2. CASE SampleOf(v) = s
        <5>1. ~ (known[v] > 0)
          BY <1>B, <4>2, OthersSpared
        <5> QED
          BY <1>1, <2>2, <3>1, <4>2, <5>1 DEF SparesWorker
      <4>3. CASE SampleOf(v) # s
        BY <1>1, <2>2, <3>1, <4>1, <4>3 DEF SparesWorker, WorkerOK, LeaseOK, Owns
      <4> QED
        BY <4>2, <4>3
    <3> QED
      BY <2>5, <3>1, <3>2, WorkerSpared
  <2> QED
    BY <2>6, <2>7, <2>8, <2>9, <2>10, <2>11, <2>12, <2>13 DEF IInv, WorkersOK
<1> QED
  BY <1>A, <1>B DEF complete, MayWrite

-----------------------------------------------------------------------------
(* The invariant is inductive. *)

\* Every step preserves the invariant.
LEMMA InductiveStep == IInv /\ [Next]_vars => IInv'
<1> SUFFICES ASSUME IInv, [Next]_vars PROVE IInv'
  OBVIOUS
<1>1. CASE create_plan
  BY <1>1, CreatePlanInv
<1>2. ASSUME NEW e \in Events, Publish(e) \/ mark_outbox_failed(e) PROVE IInv'
  BY <1>2, EnqueueInv, MarkPublishedInv, MarkFailedInv DEF Publish
<1>3. ASSUME NEW S \in SUBSET Stale, recover_stale(S) PROVE IInv'
  BY <1>3, RecoverStaleInv
<1>4. ASSUME NEW w \in Workers, Fetch(w) PROVE IInv'
  BY <1>4, ConsumeInv, ReclaimInv DEF Fetch
<1>5. ASSUME NEW w \in Workers, Process(w) PROVE IInv'
  BY <1>5, ClaimInv, LoadInv, GenerateInv, StoreArtifactInv, EvaluateSnapshotInv, CompleteInv,
     RecordFailureInv, AcknowledgeInv DEF Process
<1>6. ASSUME NEW w \in Workers, Heartbeat(w) \/ LoseConnection(w) \/ CrashWorker(w) PROVE IInv'
  BY <1>6, RenewLeaseInv, LoseLeaseInv, LoseConnectionInv, CrashWorkerInv DEF Heartbeat
<1>7. CASE RedisRestart
  BY <1>7, RedisRestartInv
<1>8. CASE Tick
  BY <1>8, TickInv
<1>9. CASE UNCHANGED vars
  <2> USE <1>9 DEF vars
  <2>1. TypeOK'
    BY StreamSame DEF IInv, TypeOK, sampleVars, outboxVars, streamVars, workerVars
  <2>2. Planned' /\ SamplesOK' /\ RowsOK' /\ EvaluatesStoredArtifact' /\ Answered'
    BY DEF IInv, Planned, SamplesOK, SampleOK, RowsOK, RowOK, EvaluatesStoredArtifact,
           Answered, Passed, sampleVars, outboxVars, streamVars
  <2>3. WorkersOK'
    BY WorkersSame
  <2> QED
    BY <2>1, <2>2, <2>3 DEF IInv
<1> QED
  BY <1>1, <1>2, <1>3, <1>4, <1>5, <1>6, <1>7, <1>8, <1>9 DEF Next

\* The invariant holds in every state of the benchmark queue.
LEMMA Invariant == Spec => []IInv
BY InitInvariant, InductiveStep, PTL DEF Spec

\* Every variable keeps its type: in particular a sample is never claimed more than
\* MaxAttempts times, and what a restart of Redis loses is not delivered any more.
THEOREM TypeCorrect == Spec => []TypeOK
<1>1. IInv => TypeOK
  BY DEF IInv
<1> QED
  BY <1>1, Invariant, PTL

\* recover_stale, record_failure, process_message: a sample that waits for an attempt
\* has a notification on its way, unless Redis lost that very notification.
THEOREM SamplesNeverStranded == Spec => []NoStrandedSample
BY NotStranded, Invariant, PTL

\* _renew_before_expiry, _run_with_lease: a worker that sees time left on the lease
\* it has confirmed is the owner, on the current attempt, for at least that time.
THEOREM LeasesHold == Spec => []ConfirmedLeaseHolds
BY LeaseKnown, Invariant, PTL

\* load, store_artifact, complete: the owner pays for a generation only while no
\* artifact is stored, and what is evaluated and recorded is the stored artifact.
THEOREM ArtifactsAreKept == Spec => []OneArtifact
BY ArtifactKept, Invariant, PTL

-----------------------------------------------------------------------------
(* What steps may do to a sample *)

\* The steps that write an artifact or an evaluation are the owner's.
LEMMA WriterOwns ==
  ASSUME IInv, Next, NEW s \in Samples,
         artifact'[s] # artifact[s] \/ evaluation'[s] # evaluation[s]
  PROVE  \E w \in Workers :
           /\ SampleOf(w) = s /\ Owns(w, s)
           /\ \/ pc[w] = "store" /\ artifact[s] = NoSource
              \/ pc[w] = "complete" /\ artifact'[s] = artifact[s]
           /\ pc'[w] \in {"evaluate", "ack", "idle"}
<1>1. \A S, retryable, final : GiveUpAttempt(S, retryable, final) => UNCHANGED <<artifact, evaluation>>
  BY DEF GiveUpAttempt
<1>2. PICK w \in Workers : store_artifact(w) \/ complete(w)
  BY <1>1 DEF Next, sampleVars, create_plan, Publish, enqueue, mark_outbox_published,
     mark_outbox_failed, recover_stale, Fetch, consume, reclaim, Process, claim, load, generate,
     evaluate_snapshot, record_failure, acknowledge, Heartbeat, renew_lease, LoseLease,
     LoseConnection, CrashWorker, RedisRestart, Tick
<1>3. SampleOf(w) \in Samples /\ pc[w] \in {"store", "complete"}
  BY <1>2, HeldFacts DEF store_artifact, complete
<1>4. CASE store_artifact(w)
  <2>1. /\ pc[w] = "store" /\ Owns(w, SampleOf(w)) /\ artifact[SampleOf(w)] = NoSource
        /\ artifact' = [artifact EXCEPT ![SampleOf(w)] = source[w]]
        /\ evaluation' = evaluation
    BY <1>4 DEF store_artifact, MayWrite
  <2>2. pc'[w] \in {"evaluate", "idle"}
    BY <1>4, <2>1 DEF store_artifact, Goto, Leave, IInv, TypeOK
  <2>3. SampleOf(w) = s
    BY <1>3, <2>1 DEF IInv, TypeOK
  <2> QED
    BY <2>1, <2>2, <2>3
<1>5. CASE complete(w)
  <2>1. /\ pc[w] = "complete" /\ Owns(w, SampleOf(w)) /\ artifact' = artifact
        /\ evaluation' = [evaluation EXCEPT ![SampleOf(w)] = source[w]]
        /\ Recorded(w)
    BY <1>5 DEF complete, MayWrite
  <2>2. pc'[w] \in {"ack", "idle"}
    BY <2>1 DEF Recorded, Done, Leave, IInv, TypeOK
  <2>3. SampleOf(w) = s
    BY <1>3, <2>1 DEF IInv, TypeOK
  <2> QED
    BY <2>1, <2>2, <2>3
<1> QED
  BY <1>2, <1>4, <1>5

\* store_artifact, complete_evaluation: a stale owner neither stores nor completes; what
\* is written is written by the worker on the current attempt, and an artifact is
\* never replaced.
THEOREM StaleOwnersWriteNothing == Spec => OnlyCurrentAttemptWrites
<1>1. ASSUME IInv, [Next]_vars
      PROVE  [\A s \in Samples :
                artifact'[s] # artifact[s] \/ evaluation'[s] # evaluation[s] =>
                  /\ artifact[s] \in {NoSource, artifact'[s]}
                  /\ \E w \in Workers : /\ Processing(w) /\ pc'[w] # pc[w]
                                       /\ SampleOf(w) = s
                                       /\ claimed[w] = attempt_count[s]]_vars
  <2>1. CASE UNCHANGED vars
    BY <2>1
  <2>2. CASE Next
    <3> SUFFICES ASSUME NEW s \in Samples,
                        artifact'[s] # artifact[s] \/ evaluation'[s] # evaluation[s]
                 PROVE  /\ artifact[s] \in {NoSource, artifact'[s]}
                        /\ \E w \in Workers : /\ Processing(w) /\ pc'[w] # pc[w]
                                             /\ SampleOf(w) = s
                                             /\ claimed[w] = attempt_count[s]
      OBVIOUS
    <3>1. PICK w \in Workers :
            /\ SampleOf(w) = s /\ Owns(w, s)
            /\ \/ pc[w] = "store" /\ artifact[s] = NoSource
               \/ pc[w] = "complete" /\ artifact'[s] = artifact[s]
            /\ pc'[w] \in {"evaluate", "ack", "idle"}
      BY <1>1, <2>2, WriterOwns
    <3>2. WorkerOK(w)
      BY <1>1 DEF IInv, WorkersOK
    <3> QED
      BY <3>1, <3>2 DEF WorkerOK, Working, Processing
  <2> QED
    BY <1>1, <2>1, <2>2
<1> QED
  BY <1>1, Invariant, PTL DEF Spec, OnlyCurrentAttemptWrites

\* What a step does to the row of a sample, as LeasedWork sees it.
RowMove(s) ==
  \/ status'[s] \in Waiting /\ status[s] \in Waiting /\ attempt_count'[s] = attempt_count[s]
  \/ status'[s] \in Active /\ status[s] \in Active /\ attempt_count'[s] = attempt_count[s]
  \/ status'[s] = status[s] /\ attempt_count'[s] = attempt_count[s]
  \/ /\ status[s] = "absent" /\ status'[s] = "queued"
     /\ attempt_count'[s] = 0
  \/ /\ status[s] \in Waiting /\ attempt_count[s] < MaxAttempts
     /\ status'[s] \in Active /\ attempt_count'[s] = attempt_count[s] + 1
  \/ /\ status[s] \in Active /\ attempt_count[s] < MaxAttempts
     /\ status'[s] \in Waiting /\ attempt_count'[s] = attempt_count[s]
  \/ /\ status[s] \in Active /\ status'[s] \in Terminal
     /\ attempt_count'[s] = attempt_count[s]

\* Giving up an attempt is a move of the abstract row.
LEMMA GiveUpMoves ==
  ASSUME IInv, NEW S \in SUBSET Samples, \A s \in S : status[s] \in Active,
         NEW retryable, NEW final \in Terminal, GiveUpAttempt(S, retryable, final)
  PROVE  \A s \in Samples : RowMove(s)
<1> SUFFICES ASSUME NEW s \in Samples PROVE RowMove(s)
  OBVIOUS
<1>1. /\ attempt_count' = attempt_count
      /\ s \in S /\ retryable /\ MayRetry(s) => status'[s] = Resume(s)
      /\ s \in S /\ ~ (retryable /\ MayRetry(s)) => status'[s] = final
      /\ s \notin S => status'[s] = status[s]
  BY DEF GiveUpAttempt
<1>2. Resume(s) \in Waiting
  BY DEF Resume, Waiting
<1> QED
  BY <1>1, <1>2 DEF RowMove, MayRetry

\* Every step moves each row as the abstract specification allows.
LEMMA RowsMove ==
  ASSUME IInv, [Next]_vars
  PROVE  \A s \in Samples : RowMove(s)
<1>1. CASE create_plan
  <2>1. run_status = "absent"
    BY <1>1 DEF create_plan
  <2> QED
    BY <1>1, <2>1, NothingPlanned DEF create_plan, RowMove
<1>2. ASSUME NEW S \in SUBSET Stale, recover_stale(S) PROVE \A s \in Samples : RowMove(s)
  <2>1. /\ S \in SUBSET Samples /\ (\A s \in S : status[s] \in Active) /\ "skipped" \in Terminal
        /\ GiveUpAttempt(S, TRUE, "skipped")
    BY <1>2 DEF recover_stale, Stale, Terminal
  <2> QED
    BY <2>1, GiveUpMoves
<1>3. ASSUME NEW w \in Workers, claim(w) PROVE \A s \in Samples : RowMove(s)
  <2>1. SampleOf(w) \in Samples
    BY <1>3, HeldFacts DEF claim
  <2>2. CASE ~ Claimable(SampleOf(w))
    BY <1>3, <2>2 DEF claim, RowMove
  <2>3. CASE Claimable(SampleOf(w))
    <3>1. attempt_count[SampleOf(w)] < MaxAttempts /\ status[SampleOf(w)] \in Waiting
      BY <2>1, <2>3 DEF Claimable, IInv, SamplesOK, SampleOK
    <3>2. /\ status'[SampleOf(w)] \in Active
          /\ attempt_count'[SampleOf(w)] = attempt_count[SampleOf(w)] + 1
          /\ \A s \in Samples \ {SampleOf(w)} : /\ status'[s] = status[s]
                                                /\ attempt_count'[s] = attempt_count[s]
      BY <1>3, <2>1, <2>3 DEF claim, Active, IInv, TypeOK
    <3> QED
      BY <3>1, <3>2 DEF RowMove
  <2> QED
    BY <2>2, <2>3
<1>4. ASSUME NEW w \in Workers, store_artifact(w) PROVE \A s \in Samples : RowMove(s)
  BY <1>4 DEF store_artifact, RowMove, Active, IInv, TypeOK
<1>5. ASSUME NEW w \in Workers, complete(w) PROVE \A s \in Samples : RowMove(s)
  BY <1>5 DEF complete, MayWrite, Owns, RowMove, Terminal, IInv, TypeOK
<1>6. ASSUME NEW w \in Workers, record_failure(w) PROVE \A s \in Samples : RowMove(s)
  <2>1. SampleOf(w) \in Samples
    BY <1>6, HeldFacts DEF record_failure
  <2>2. CASE UNCHANGED sampleVars
    BY <2>2 DEF sampleVars, RowMove
  <2>3. ASSUME Owns(w, SampleOf(w)), NEW retryable, NEW final \in Terminal,
               GiveUpAttempt({SampleOf(w)}, retryable, final)
        PROVE  \A s \in Samples : RowMove(s)
    <3>1. {SampleOf(w)} \in SUBSET Samples /\ \A s \in {SampleOf(w)} : status[s] \in Active
      BY <2>1, <2>3 DEF Owns
    <3> QED
      BY <2>3, <3>1, GiveUpMoves
  <2>4. "generation_failed" \in Terminal /\ "evaluation_failed" \in Terminal
    BY DEF Terminal
  <2> QED
    BY <1>6, <2>2, <2>3, <2>4 DEF record_failure, MayWrite
<1>7. CASE UNCHANGED <<status, attempt_count>>
  BY <1>7 DEF RowMove
<1>8. \/ create_plan
      \/ \E S \in SUBSET Stale : recover_stale(S)
      \/ \E w \in Workers : claim(w) \/ store_artifact(w) \/ complete(w) \/ record_failure(w)
      \/ UNCHANGED <<status, attempt_count>>
  BY DEF Next, vars, sampleVars, Publish, enqueue, mark_outbox_published, mark_outbox_failed,
     Fetch, consume, reclaim, Process, load, generate, evaluate_snapshot, acknowledge, Heartbeat,
     renew_lease, LoseLease, LoseConnection, CrashWorker, RedisRestart, Tick
<1> QED
  BY <1>1, <1>2, <1>3, <1>4, <1>5, <1>6, <1>7, <1>8

\* recover_stale, record_failure, claim: a retry that starts before its delay is over
\* was started by a message of an earlier attempt, never by the retry's own.
THEOREM RetriesWaitTheirDelay == Spec => DelayKeptByOutbox
<1>1. ASSUME IInv, [Next]_vars
      PROVE  [\A s \in Samples :
                /\ attempt_count'[s] > attempt_count[s]
                /\ outbox_attempts[<<s, attempt_count[s]>>] = 0
                /\ outbox_due[<<s, attempt_count[s]>>] > 0
                => \E w \in Workers : /\ pc[w] = "claim" /\ pc'[w] # "claim"
                                      /\ SampleOf(w) = s /\ held[w][1][2] < attempt_count[s]]_vars
  <2>1. CASE UNCHANGED vars
    BY <2>1
  <2>2. CASE Next
    <3> DEFINE event(s) == <<s, attempt_count[s]>>
    <3> SUFFICES ASSUME NEW s \in Samples, attempt_count'[s] > attempt_count[s],
                        outbox_attempts[event(s)] = 0, outbox_due[event(s)] > 0
                 PROVE  \E w \in Workers : /\ pc[w] = "claim" /\ pc'[w] # "claim"
                                           /\ SampleOf(w) = s
                                           /\ held[w][1][2] < attempt_count[s]
      OBVIOUS
    <3>1. attempt_count[s] \in 0 .. MaxAttempts
      BY <1>1 DEF IInv, TypeOK
    <3>2. \A S, retryable, final : GiveUpAttempt(S, retryable, final) => attempt_count' = attempt_count
      BY DEF GiveUpAttempt
    <3>a. attempt_count' # attempt_count
      BY <3>1
    <3>3. PICK w \in Workers : claim(w)
      BY <2>2, <3>a, <3>2 DEF Next, sampleVars, create_plan, Publish, enqueue, mark_outbox_published,
         mark_outbox_failed, recover_stale, Fetch, consume, reclaim, Process, load, generate,
         store_artifact, evaluate_snapshot, complete, record_failure, acknowledge, Heartbeat,
         renew_lease, LoseLease, LoseConnection, CrashWorker, RedisRestart, Tick
    <3>4. /\ pc[w] = "claim" /\ Claimable(SampleOf(w))
          /\ attempt_count' = [attempt_count EXCEPT ![SampleOf(w)] = attempt_count[SampleOf(w)] + 1]
          /\ pc'[w] \in {"confirm", "idle"}
      BY <1>1, <3>1, <3>3 DEF claim, Leave, IInv, TypeOK
    <3>5. SampleOf(w) = s
      BY <1>1, <3>1, <3>4 DEF IInv, TypeOK
    <3>6. /\ held[w][1] \in Events /\ added[held[w][1]] > 0
          /\ held[w][1] = <<s, held[w][1][2]>> /\ held[w][1][2] \in 0 .. MaxAttempts - 1
          /\ held[w][1][2] < attempt_count[s] \/ held[w][1][2] = attempt_count[s]
      BY <1>1, <3>4, <3>5, HeldFacts
    <3>7. ASSUME held[w][1][2] = attempt_count[s] PROVE FALSE
      <4>1. held[w][1] = event(s)
        BY <3>6, <3>7
      <4>2. RowOK(event(s)) /\ outbox_due[event(s)] \in Int
        BY <1>1, <3>6, <4>1 DEF IInv, TypeOK, RowsOK
      <4> QED
        BY <3>6, <4>1, <4>2 DEF RowOK
    <3> QED
      BY <3>4, <3>5, <3>6, <3>7
  <2> QED
    BY <1>1, <2>1, <2>2
<1> QED
  BY <1>1, Invariant, PTL DEF Spec, DelayKeptByOutbox

-----------------------------------------------------------------------------
(* The benchmark queue implements LeasedWork. *)

\* Initial states map to initial states.
LEMMA InitRefines == Init => Abstract!Init
BY DEF Init, Abstract!Init, PhaseOf, Waiting, Active

\* Every step maps to a step or a stutter.
LEMMA StepRefines == IInv /\ IInv' /\ [Next]_vars => Abstract!Next
<1> SUFFICES ASSUME IInv, IInv', [Next]_vars PROVE Abstract!Next
  OBVIOUS
<1>1. /\ [s \in Samples |-> PhaseOf(status'[s])] \in [Samples -> Abstract!Phases]
      /\ attempt_count' \in [Samples -> Nat]
  BY MaxAttemptsAssumption DEF IInv, TypeOK, Statuses, PhaseOf, Abstract!Phases
<1>2. ASSUME NEW s \in Samples PROVE Abstract!Move(s)
  BY RowsMove DEF RowMove, IInv, TypeOK, PhaseOf, Waiting, Active, Terminal, Abstract!Move,
     Abstract!Submit, Abstract!Start, Abstract!GiveBack, Abstract!Finish, Abstract!Keep
<1> QED
  BY <1>1, <1>2 DEF Abstract!Next

\* Whatever crashes, lost leases and forgotten notifications, a sample gets at most
\* MaxAttempts attempts, one at a time, and a final outcome.
THEOREM Refinement == Spec => ImplementsLeasedWork
<1>1. IInv /\ IInv' /\ [Next]_vars => [Abstract!Next]_Abstract!vars
  BY StepRefines
<1> QED
  BY <1>1, InitRefines, Invariant, PTL DEF Spec, ImplementsLeasedWork, Abstract!Spec
=============================================================================
