----------------------- MODULE EvaluationJobsProofs -----------------------
(***************************************************************************)
(* Proofs about EvaluationJobs, for any number of jobs, workers,           *)
(* publishers, attempts and faults.                                        *)
(***************************************************************************)
EXTENDS EvaluationJobs, TLAPS

\* A notification of the outbox row e is in the stream or on its way to it.
InFlight(e) ==
  \/ added[e] > 0
  \/ \E p \in Publishers : e \in batch[p] \/ e = current[p]

\* The row e has had its effect: the attempt it asked for was claimed, or no
\* attempt will be needed.
Passed(e) == attempt_count[e[1]] > e[2] \/ status[e[1]] \in Terminal

\* What a process holds where its program counter says it holds something, and
\* the attempts a job has in each status.
Shape ==
  /\ \A j \in Jobs : status[j] \in Waiting => attempt_count[j] < MaxAttempts
  /\ \A j \in Jobs : status[j] = "running" => attempt_count[j] > 0
  /\ \A j \in Jobs : status[j] = "absent" => attempt_count[j] = 0
  /\ \A w \in Workers : pc[w] \notin {"idle", "dead"} => held[w] # NoMessage
  /\ \A w \in Workers : pc[w] = "fail" => error[w] # "none"
  /\ \A p \in Publishers :
       stage[p] \in {"mark_published", "mark_failed"} => current[p] # NoEvent

\* Which outbox rows exist, and how far each has come.
Rows ==
  /\ \A j \in Jobs : status[j] \in Waiting => outbox[<<j, attempt_count[j]>>] # "absent"
  /\ \A e \in Events : outbox[e] # "absent" =>
       \/ e[2] < attempt_count[e[1]]
       \/ e[2] = attempt_count[e[1]] /\ status[e[1]] \in Waiting
  /\ \A e \in Events : InFlight(e) => outbox[e] # "absent"
  /\ \A e \in Events : outbox[e] = "published" => added[e] > 0
  /\ \A p \in Publishers : stage[p] = "mark_published" => added[current[p]] > 0

\* The row of a retry is not published before the retry is due.
Timing ==
  \A j \in Jobs : status[j] = "retry_wait" =>
    LET e == <<j, attempt_count[j]>>
    IN /\ next_attempt_at[j] # NULL
       /\ next_attempt_at[j] <= 0 \/ next_attempt_at[j] <= outbox_due[e]
       /\ InFlight(e) => next_attempt_at[j] <= 0

\* A message is acknowledged only when its row has had its effect.
Answered ==
  /\ \A m \in acked : Passed(m[1])
  /\ \A w \in Workers : pc[w] \in {"run", "complete", "fail", "ack"} => Passed(held[w][1])

IInv == TypeOK /\ Shape /\ Rows /\ Timing /\ Answered

\* The stream holds one entry for every XADD of an outbox row.
LEMMA StreamDef ==
  ASSUME NEW m
  PROVE  m \in Stream <=> \E e \in Events : \E c \in 1 .. added[e] : m = <<e, c>>
BY DEF Stream

\* Every entry of the stream names an outbox row with an entry.
LEMMA StreamFacts ==
  ASSUME added \in [Events -> Nat], NEW m \in Stream
  PROVE  m[1] \in Events /\ added[m[1]] > 0
<1>1. PICK e \in Events : \E c \in 1 .. added[e] : m = <<e, c>>
  BY StreamDef
<1> QED
  BY <1>1

\* What an event is made of.
LEMMA EventFacts ==
  ASSUME NEW e \in Events
  PROVE  /\ e[1] \in Jobs
         /\ e[2] \in 0 .. MaxAttempts - 1
         /\ e = <<e[1], e[2]>>
BY DEF Events

\* The missing event is none of the events.
LEMMA NoEventFact == NoEvent \notin Events
BY DEF NoEvent, Events

\* A job and an attempt make an event.
LEMMA EventMade ==
  ASSUME NEW j \in Jobs, NEW k \in 0 .. MaxAttempts - 1
  PROVE  <<j, k>> \in Events
BY DEF Events

\* With the invariant, no waiting job is stranded.
THEOREM NotStranded == IInv => NoStrandedJob
<1> SUFFICES ASSUME IInv, NEW j \in Jobs, status[j] \in Waiting,
                    outbox[<<j, attempt_count[j]>>] # "unpublished"
             PROVE  \E m \in Stream \ acked : m[1] = <<j, attempt_count[j]>>
  BY DEF NoStrandedJob
<1> DEFINE e == <<j, attempt_count[j]>>
           m == <<e, 1>>
<1>1. e \in Events
  BY EventMade, MaxAttemptsAssumption DEF IInv, TypeOK, Shape
<1>2. added[e] > 0 /\ added[e] \in Nat
  BY <1>1 DEF IInv, TypeOK, Rows
<1>3. m \in Stream
  BY <1>1, <1>2, StreamDef
<1>4. m \notin acked
  <2> SUFFICES ASSUME m \in acked PROVE FALSE
    OBVIOUS
  <2>1. Passed(e)
    BY DEF IInv, Answered
  <2> QED
    BY <2>1 DEF Passed, Waiting, Terminal, IInv, TypeOK
<1> QED
  BY <1>3, <1>4

\* The initial states satisfy the invariant.
LEMMA InitInvariant == Init => IInv
<1> SUFFICES ASSUME Init PROVE IInv
  OBVIOUS
<1>1. Stream = {}
  BY StreamDef DEF Init
<1>2. TypeOK
  BY <1>1, MaxAttemptsAssumption, FaultsAssumption
  DEF Init, TypeOK, Statuses, Categories, NULL, Expired
<1>3. Shape
  BY MaxAttemptsAssumption DEF Init, Shape, Waiting
<1>4. Rows
  BY NoEventFact DEF Init, Rows, Waiting, InFlight
<1>5. Timing /\ Answered
  BY DEF Init, Timing, Answered
<1> QED
  BY <1>2, <1>3, <1>4, <1>5 DEF IInv

\* A step that adds no entry leaves the stream alone.
LEMMA StreamSame ==
  ASSUME added' = added
  PROVE  Stream' = Stream
BY DEF Stream

\* An entry that is added keeps the others.
LEMMA StreamGrows ==
  ASSUME added \in [Events -> Nat], NEW e \in Events,
         added' = [added EXCEPT ![e] = @ + 1]
  PROVE  Stream \subseteq Stream'
BY DEF Stream

\* A worker that holds a message holds an entry of an existing outbox row.
LEMMA HeldFacts ==
  ASSUME IInv, NEW w \in Workers, pc[w] \notin {"idle", "dead"}
  PROVE  /\ held[w] \in delivered
         /\ held[w][1] \in Events
         /\ JobOf(w) \in Jobs
         /\ held[w][1][2] \in 0 .. MaxAttempts - 1
         /\ held[w][1] = <<JobOf(w), held[w][1][2]>>
         /\ added[held[w][1]] > 0
         /\ outbox[held[w][1]] # "absent"
<1>1. held[w] \in delivered /\ held[w] \in Stream
  BY DEF IInv, TypeOK, Shape
<1>2. held[w][1] \in Events /\ added[held[w][1]] > 0
  BY <1>1, StreamFacts DEF IInv, TypeOK
<1> QED
  BY <1>1, <1>2, EventFacts DEF IInv, Rows, InFlight, JobOf

\* The event of a waiting job is one of the events.
LEMMA WaitingEvent ==
  ASSUME IInv, NEW j \in Jobs, status[j] \in Waiting
  PROVE  <<j, attempt_count[j]>> \in Events
BY EventMade, MaxAttemptsAssumption DEF IInv, TypeOK, Shape

\* Steps of one worker that acknowledge nothing.
LEMMA AnsweredStep ==
  ASSUME IInv, acked' = acked, NEW w \in Workers,
         \A e \in Events : Passed(e) => Passed(e)',
         \A v \in Workers \ {w} : pc'[v] = pc[v] /\ held'[v] = held[v],
         pc'[w] \in {"run", "complete", "fail", "ack"} => Passed(held[w][1])' /\ held'[w] = held[w]
  PROVE  Answered'
<1>1. \A m \in acked' : Passed(m[1])'
  BY StreamFacts DEF IInv, TypeOK, Answered
<1>2. ASSUME NEW v \in Workers, pc'[v] \in {"run", "complete", "fail", "ack"}
      PROVE  Passed(held[v][1])'
  <2>1. CASE v = w
    BY <1>2, <2>1 DEF Passed
  <2>2. CASE v # w
    <3>1. pc[v] \in {"run", "complete", "fail", "ack"} /\ held'[v] = held[v]
      BY <1>2, <2>2
    <3>2. held[v][1] \in Events /\ Passed(held[v][1])
      BY <3>1, HeldFacts DEF IInv, Answered
    <3> QED
      BY <3>1, <3>2 DEF Passed
  <2> QED
    BY <2>1, <2>2
<1> QED
  BY <1>1, <1>2 DEF Answered, Passed

\* Steps that change no outbox row and put nothing in flight.
LEMMA FlightStep ==
  ASSUME IInv, UNCHANGED <<status, attempt_count, next_attempt_at, outbox_due, added>>,
         \A e \in Events : InFlight(e)' => InFlight(e)
  PROVE  Timing'
<1> SUFFICES ASSUME NEW j \in Jobs, status[j] = "retry_wait"
             PROVE  LET e == <<j, attempt_count[j]>>
                    IN /\ next_attempt_at[j] # NULL
                       /\ next_attempt_at[j] <= 0 \/ next_attempt_at[j] <= outbox_due[e]
                       /\ InFlight(e)' => next_attempt_at[j] <= 0
  BY DEF Timing
<1>1. <<j, attempt_count[j]>> \in Events
  BY WaitingEvent DEF Waiting
<1> QED
  BY <1>1 DEF IInv, Timing

\* The invariant is preserved by create.
LEMMA CreateInv ==
  ASSUME IInv, NEW j \in Jobs, create(j)
  PROVE  IInv'
<1> USE DEF jobVars, outboxVars, streamVars, workerVars, publisherVars
<1>0. attempt_count[j] = 0 /\ <<j, 0>> \in Events
  BY EventMade, MaxAttemptsAssumption DEF IInv, Shape, create
<1>1. TypeOK'
  BY StreamSame DEF IInv, TypeOK, Statuses, create
<1>2. Shape'
  BY <1>0, MaxAttemptsAssumption DEF IInv, TypeOK, Shape, Waiting, create
<1>3. Rows'
  <2> USE DEF create, Waiting, IInv, TypeOK
  <2>1. \A i \in Jobs : status'[i] \in Waiting => outbox'[<<i, attempt_count'[i]>>] # "absent"
    <3> SUFFICES ASSUME NEW i \in Jobs, status'[i] \in Waiting
                 PROVE  outbox'[<<i, attempt_count[i]>>] # "absent"
      OBVIOUS
    <3>1. <<i, attempt_count[i]>> \in Events
      BY <1>0, EventMade, MaxAttemptsAssumption DEF Shape
    <3> QED
      BY <1>0, <3>1 DEF Rows
  <2>2. \A e \in Events : outbox'[e] # "absent" =>
          \/ e[2] < attempt_count'[e[1]]
          \/ e[2] = attempt_count'[e[1]] /\ status'[e[1]] \in Waiting
    BY <1>0, EventFacts DEF Rows
  <2>3. \A e \in Events : InFlight(e)' => outbox'[e] # "absent"
    BY <1>0 DEF Rows, InFlight
  <2>4. \A e \in Events : outbox'[e] = "published" => added'[e] > 0
    BY <1>0 DEF Rows
  <2> QED
    BY <2>1, <2>2, <2>3, <2>4 DEF Rows
<1>4. Timing'
  BY DEF IInv, TypeOK, Timing, InFlight, create
<1>5. Answered'
  <2>1. \A e \in Events : Passed(e) => Passed(e)'
    BY EventFacts DEF IInv, TypeOK, Passed, Terminal, create
  <2> QED
    BY <2>1, StreamFacts DEF IInv, TypeOK, Shape, Answered, create
<1> QED
  BY <1>1, <1>2, <1>3, <1>4, <1>5 DEF IInv

\* The invariant is preserved by ready_outbox.
LEMMA ReadyOutboxInv ==
  ASSUME IInv, NEW p \in Publishers, ready_outbox(p)
  PROVE  IInv'
<1> USE DEF jobVars, outboxVars, streamVars, workerVars, publisherVars
<1> USE DEF ready_outbox, OutboxReady
<1>1. TypeOK'
  BY StreamSame DEF IInv, TypeOK
<1>2. Shape'
  BY DEF IInv, TypeOK, Shape, Waiting
<1>3. Rows'
  BY DEF IInv, TypeOK, Shape, Rows, InFlight, Waiting
<1>4. Timing'
  <2> SUFFICES ASSUME NEW j \in Jobs, status[j] = "retry_wait"
               PROVE  LET e == <<j, attempt_count[j]>>
                      IN /\ next_attempt_at[j] # NULL
                         /\ next_attempt_at[j] <= 0 \/ next_attempt_at[j] <= outbox_due[e]
                         /\ InFlight(e)' => next_attempt_at[j] <= 0
    BY DEF Timing
  <2> DEFINE e == <<j, attempt_count[j]>>
  <2>1. e \in Events
    BY WaitingEvent DEF Waiting
  <2>2. InFlight(e)' => InFlight(e) \/ outbox_due[e] <= 0
    BY <2>1 DEF InFlight, IInv, TypeOK
  <2>3. outbox_due[e] \in Int /\ next_attempt_at[j] \in Int
    BY <2>1 DEF IInv, TypeOK, NULL
  <2> QED
    BY <2>1, <2>2, <2>3 DEF IInv, Timing
<1>5. Answered'
  BY DEF IInv, TypeOK, Answered, Passed
<1> QED
  BY <1>1, <1>2, <1>3, <1>4, <1>5 DEF IInv

\* The invariant is preserved by the XADD of enqueue.
LEMMA EnqueueInv ==
  ASSUME IInv, NEW p \in Publishers, NEW e \in Events, enqueue(p, e)
  PROVE  IInv'
<1> USE DEF jobVars, outboxVars, streamVars, workerVars, publisherVars
<1> USE DEF enqueue, Fault
<1>b. InFlight(e) /\ outbox[e] # "absent"
  BY DEF IInv, TypeOK, Rows, InFlight
<1>c. added' = added \/ added' = [added EXCEPT ![e] = @ + 1]
  OBVIOUS
<1>d. added \in [Events -> Nat]
  BY DEF IInv, TypeOK
<1>e. /\ added' \in [Events -> Nat]
      /\ \A d \in Events \ {e} : added'[d] = added[d]
      /\ added'[e] \in {added[e], added[e] + 1}
  <2> HIDE DEF enqueue
  <2> QED BY <1>c, <1>d
<1>f. Stream \subseteq Stream'
  <2> HIDE DEF enqueue
  <2>1. CASE added' = added
    BY <2>1, StreamSame
  <2>2. CASE added' = [added EXCEPT ![e] = @ + 1]
    BY <2>2, <1>d, StreamGrows
  <2> QED
    BY <1>c, <2>1, <2>2
<1>0. /\ InFlight(e) /\ outbox[e] # "absent"
      /\ added' \in [Events -> Nat]
      /\ \A d \in Events \ {e} : added'[d] = added[d]
      /\ added'[e] \in {added[e], added[e] + 1}
      /\ Stream \subseteq Stream'
  BY <1>b, <1>e, <1>f
<1>1. TypeOK'
  BY <1>0, FaultsAssumption DEF IInv, TypeOK
<1>2. Shape'
  BY NoEventFact DEF IInv, TypeOK, Shape, Waiting
<1>a. \A d \in Events : InFlight(d)' => InFlight(d)
  BY <1>0 DEF IInv, TypeOK, InFlight
<1>3. Rows'
  <2>1. \A q \in Publishers : stage'[q] = "mark_published" => added'[current'[q]] > 0
    <3> SUFFICES ASSUME NEW q \in Publishers, stage'[q] = "mark_published"
                 PROVE  added'[current'[q]] > 0
      OBVIOUS
    <3>1. CASE q = p
      BY <3>1 DEF IInv, TypeOK
    <3>2. CASE q # p
      <4>1. current[q] \in Events /\ added[current[q]] > 0 /\ current'[q] = current[q]
        BY <3>2 DEF IInv, TypeOK, Shape, Rows
      <4> QED
        BY <4>1, <1>0 DEF IInv, TypeOK
    <3> QED
      BY <3>1, <3>2
  <2>2. \A d \in Events : outbox[d] = "published" => added'[d] > 0
    BY <1>0 DEF IInv, TypeOK, Rows
  <2> QED
    BY <1>a, <2>1, <2>2 DEF IInv, Rows
<1>4. Timing'
  <2> SUFFICES ASSUME NEW j \in Jobs, status[j] = "retry_wait"
               PROVE  LET d == <<j, attempt_count[j]>>
                      IN /\ next_attempt_at[j] # NULL
                         /\ next_attempt_at[j] <= 0 \/ next_attempt_at[j] <= outbox_due[d]
                         /\ InFlight(d)' => next_attempt_at[j] <= 0
    BY DEF Timing
  <2>1. <<j, attempt_count[j]>> \in Events
    BY WaitingEvent DEF Waiting
  <2> QED
    BY <1>a, <2>1 DEF IInv, Timing
<1>5. Answered'
  BY DEF IInv, TypeOK, Answered, Passed
<1> QED
  BY <1>1, <1>2, <1>3, <1>4, <1>5 DEF IInv

\* The invariant is preserved by mark_published.
LEMMA MarkPublishedInv ==
  ASSUME IInv, NEW p \in Publishers, mark_outbox_published(p)
  PROVE  IInv'
<1> USE DEF jobVars, outboxVars, streamVars, workerVars, publisherVars
<1> USE DEF mark_outbox_published, NextEvent, AbortRound, Fault
<1>0. current[p] \in Events /\ InFlight(current[p])
  BY DEF IInv, TypeOK, Shape, InFlight
<1>a. \A e \in Events : InFlight(e)' => InFlight(e)
  BY NoEventFact DEF IInv, TypeOK, InFlight
<1>b. /\ outbox' \in [Events -> {"absent", "unpublished", "published"}]
      /\ outbox_attempts' \in [Events -> Nat]
  BY <1>0 DEF IInv, TypeOK
<1>c. /\ stage' \in [Publishers -> {"idle", "dispatch", "mark_published", "mark_failed"}]
      /\ batch' \in [Publishers -> SUBSET Events]
      /\ current' \in [Publishers -> Events \cup {NoEvent}]
      /\ faults' \in 0 .. MaxFaults
  BY SMTT(30), FaultsAssumption DEF IInv, TypeOK
<1>1. TypeOK'
  BY <1>b, <1>c, StreamSame DEF IInv, TypeOK
<1>2. Shape'
  BY DEF IInv, TypeOK, Shape, Waiting
<1>3. Rows'
  <2>1. \A e \in Events : (outbox'[e] = "absent") <=> (outbox[e] = "absent")
    BY <1>0 DEF IInv, TypeOK
  <2>2. \A j \in Jobs : status[j] \in Waiting => outbox'[<<j, attempt_count[j]>>] # "absent"
    BY <2>1, WaitingEvent DEF IInv, Rows
  <2>3. \A e \in Events : outbox'[e] = "published" => added[e] > 0
    BY <1>0 DEF IInv, TypeOK, Rows
  <2>4. \A q \in Publishers : stage'[q] = "mark_published" => added[current'[q]] > 0
    BY DEF IInv, TypeOK, Rows
  <2> QED
    BY <1>a, <2>1, <2>2, <2>3, <2>4 DEF IInv, Rows
<1>4. Timing'
  BY <1>a, FlightStep
<1>5. Answered'
  BY DEF IInv, TypeOK, Answered, Passed
<1> QED
  BY <1>1, <1>2, <1>3, <1>4, <1>5 DEF IInv

\* The invariant is preserved by mark_failed.
LEMMA MarkFailedInv ==
  ASSUME IInv, NEW p \in Publishers, mark_outbox_failed(p)
  PROVE  IInv'
<1> USE DEF jobVars, outboxVars, streamVars, workerVars, publisherVars
<1> USE DEF mark_outbox_failed, NextEvent, AbortRound, Fault
<1>0. current[p] \in Events /\ InFlight(current[p])
  BY DEF IInv, TypeOK, Shape, InFlight
<1>a. \A e \in Events : InFlight(e)' => InFlight(e)
  BY NoEventFact DEF IInv, TypeOK, InFlight
<1>b. outbox_due' \in [Events -> Int]
  BY <1>0, DelayAssumption DEF IInv, TypeOK, retry_delay_seconds
<1>1. TypeOK'
  BY SMTT(30), <1>0, <1>b, StreamSame, FaultsAssumption DEF IInv, TypeOK
<1>2. Shape'
  BY DEF IInv, TypeOK, Shape, Waiting
<1>3. Rows'
  <2>1. \A q \in Publishers : stage'[q] = "mark_published" => added[current'[q]] > 0
    BY DEF IInv, TypeOK, Rows
  <2> QED
    BY <1>a, <2>1 DEF IInv, Rows
<1>4. Timing'
  <2> SUFFICES ASSUME NEW j \in Jobs, status[j] = "retry_wait"
               PROVE  LET e == <<j, attempt_count[j]>>
                      IN /\ next_attempt_at[j] # NULL
                         /\ next_attempt_at[j] <= 0 \/ next_attempt_at[j] <= outbox_due'[e]
                         /\ InFlight(e)' => next_attempt_at[j] <= 0
    BY DEF Timing
  <2> DEFINE e == <<j, attempt_count[j]>>
  <2>1. e \in Events
    BY WaitingEvent DEF Waiting
  <2>2. CASE e = current[p]
    BY <1>0, <2>1, <2>2 DEF IInv, Timing
  <2>3. CASE e # current[p]
    <3>1. outbox_due'[e] = outbox_due[e]
      BY <1>0, <2>1, <2>3 DEF IInv, TypeOK
    <3> QED
      BY <1>a, <2>1, <3>1 DEF IInv, Timing
  <2> QED
    BY <2>2, <2>3
<1>5. Answered'
  BY DEF IInv, TypeOK, Answered, Passed
<1> QED
  BY <1>1, <1>2, <1>3, <1>4, <1>5 DEF IInv

\* The invariant is preserved by a publisher round that fails.
LEMMA FailRoundInv ==
  ASSUME IInv, NEW p \in Publishers, FailRound(p)
  PROVE  IInv'
<1> USE DEF jobVars, outboxVars, streamVars, workerVars, publisherVars
<1> USE DEF FailRound, AbortRound, Fault
<1>a. \A e \in Events : InFlight(e)' => InFlight(e)
  BY NoEventFact DEF IInv, TypeOK, InFlight
<1>1. TypeOK'
  BY StreamSame, FaultsAssumption DEF IInv, TypeOK
<1>2. Shape'
  BY DEF IInv, TypeOK, Shape, Waiting
<1>3. Rows'
  <2>1. \A q \in Publishers : stage'[q] = "mark_published" => added[current'[q]] > 0
    BY DEF IInv, TypeOK, Rows
  <2> QED
    BY <1>a, <2>1 DEF IInv, Rows
<1>4. Timing'
  BY <1>a, FlightStep
<1>5. Answered'
  BY DEF IInv, TypeOK, Answered, Passed
<1> QED
  BY <1>1, <1>2, <1>3, <1>4, <1>5 DEF IInv

\* The invariant is preserved by consume.
LEMMA ConsumeInv ==
  ASSUME IInv, NEW w \in Workers, NEW m \in Stream, consume(w, m)
  PROVE  IInv'
<1> USE DEF jobVars, outboxVars, streamVars, workerVars, publisherVars
<1> USE DEF consume, Receive, Fault
<1>0. m # NoMessage
  BY StreamDef DEF NoMessage
<1>1. TypeOK'
  BY StreamSame, FaultsAssumption DEF IInv, TypeOK
<1>2. Shape'
  BY <1>0 DEF IInv, TypeOK, Shape
<1>3. Rows'
  BY DEF IInv, Rows, InFlight
<1>4. Timing'
  BY DEF IInv, Timing, InFlight
<1>5. Answered'
  <2>1. pc'[w] \notin {"run", "complete", "fail", "ack"}
    BY DEF IInv, TypeOK
  <2> QED
    BY <2>1, AnsweredStep DEF IInv, TypeOK, Passed
<1> QED
  BY <1>1, <1>2, <1>3, <1>4, <1>5 DEF IInv

\* The invariant is preserved by reclaim.
LEMMA ReclaimInv ==
  ASSUME IInv, NEW w \in Workers, NEW m \in Stream, reclaim(w, m)
  PROVE  IInv'
<1> USE DEF jobVars, outboxVars, streamVars, workerVars, publisherVars
<1> USE DEF reclaim, Receive
<1>0. m # NoMessage
  BY StreamDef DEF NoMessage
<1>1. TypeOK'
  BY StreamSame, FaultsAssumption DEF IInv, TypeOK
<1>2. Shape'
  BY <1>0 DEF IInv, TypeOK, Shape
<1>3. Rows'
  BY DEF IInv, Rows, InFlight
<1>4. Timing'
  BY DEF IInv, Timing, InFlight
<1>5. Answered'
  <2>1. pc'[w] \notin {"run", "complete", "fail", "ack"}
    BY DEF IInv, TypeOK
  <2> QED
    BY <2>1, AnsweredStep DEF IInv, TypeOK, Passed
<1> QED
  BY <1>1, <1>2, <1>3, <1>4, <1>5 DEF IInv

\* The invariant is preserved by get.
LEMMA GetInv ==
  ASSUME IInv, NEW w \in Workers, get(w)
  PROVE  IInv'
<1> USE DEF jobVars, outboxVars, streamVars, workerVars, publisherVars
<1> USE DEF get, Goto
<1>0. status[JobOf(w)] \notin Waiting => Passed(held[w][1])
  BY HeldFacts DEF IInv, TypeOK, Rows, Passed, JobOf
<1>1. TypeOK'
  BY StreamSame DEF IInv, TypeOK
<1>2. Shape'
  BY DEF IInv, TypeOK, Shape
<1>3. Rows'
  BY DEF IInv, Rows, InFlight
<1>4. Timing'
  BY DEF IInv, Timing, InFlight
<1>5. Answered'
  <2>1. pc'[w] \in {"run", "complete", "fail", "ack"} => Passed(held[w][1])' /\ held'[w] = held[w]
    BY <1>0 DEF IInv, TypeOK, Passed
  <2> QED
    BY <2>1, AnsweredStep DEF IInv, TypeOK, Passed
<1> QED
  BY <1>1, <1>2, <1>3, <1>4, <1>5 DEF IInv

\* The invariant is preserved by evaluate.
LEMMA EvaluateInv ==
  ASSUME IInv, NEW w \in Workers, Evaluate(w)
  PROVE  IInv'
<1> USE DEF jobVars, outboxVars, streamVars, workerVars, publisherVars
<1> USE DEF Evaluate, Goto
<1>1. TypeOK'
  BY StreamSame DEF IInv, TypeOK
<1>2. Shape'
  BY DEF IInv, TypeOK, Shape, Categories
<1>3. Rows'
  BY DEF IInv, Rows, InFlight
<1>4. Timing'
  BY DEF IInv, Timing, InFlight
<1>5. Answered'
  <2>1. Passed(held[w][1])' /\ held'[w] = held[w]
    BY DEF IInv, TypeOK, Answered, Passed
  <2> QED
    BY <2>1, AnsweredStep DEF IInv, TypeOK, Passed
<1> QED
  BY <1>1, <1>2, <1>3, <1>4, <1>5 DEF IInv

\* The invariant is preserved by renew_lease.
LEMMA RenewLeaseInv ==
  ASSUME IInv, NEW w \in Workers, renew_lease(w)
  PROVE  IInv'
<1> USE DEF jobVars, outboxVars, streamVars, workerVars, publisherVars
<1> USE DEF renew_lease
<1>0. lease_expires_at' \in [Jobs -> {NULL, Expired} \cup 0 .. LeaseSeconds]
  BY HeldFacts, LeaseAssumption DEF IInv, TypeOK
<1>1. TypeOK'
  BY <1>0, StreamSame DEF IInv, TypeOK
<1>2. Shape'
  BY DEF IInv, TypeOK, Shape
<1>3. Rows'
  BY DEF IInv, Rows, InFlight
<1>4. Timing'
  BY DEF IInv, Timing, InFlight
<1>5. Answered'
  BY DEF IInv, Answered, Passed
<1> QED
  BY <1>1, <1>2, <1>3, <1>4, <1>5 DEF IInv

\* The invariant is preserved by a lost connection.
LEMMA LoseConnectionInv ==
  ASSUME IInv, NEW w \in Workers, LoseConnection(w)
  PROVE  IInv'
<1> USE DEF jobVars, outboxVars, streamVars, workerVars, publisherVars
<1> USE DEF LoseConnection, Leave, Fault
<1>1. TypeOK'
  BY StreamSame, MaxAttemptsAssumption, FaultsAssumption DEF IInv, TypeOK
<1>2. Shape'
  BY DEF IInv, TypeOK, Shape
<1>3. Rows'
  BY DEF IInv, Rows, InFlight
<1>4. Timing'
  BY DEF IInv, Timing, InFlight
<1>5. Answered'
  <2>1. pc'[w] \notin {"run", "complete", "fail", "ack"}
    BY DEF IInv, TypeOK
  <2> QED
    BY <2>1, AnsweredStep DEF IInv, TypeOK, Passed
<1> QED
  BY <1>1, <1>2, <1>3, <1>4, <1>5 DEF IInv

\* The invariant is preserved by a crash of a worker.
LEMMA CrashWorkerInv ==
  ASSUME IInv, NEW w \in Workers, CrashWorker(w)
  PROVE  IInv'
<1> USE DEF jobVars, outboxVars, streamVars, workerVars, publisherVars
<1> USE DEF CrashWorker, Fault
<1>1. TypeOK'
  BY StreamSame, MaxAttemptsAssumption, FaultsAssumption DEF IInv, TypeOK
<1>2. Shape'
  BY DEF IInv, TypeOK, Shape
<1>3. Rows'
  BY DEF IInv, Rows, InFlight
<1>4. Timing'
  BY DEF IInv, Timing, InFlight
<1>5. Answered'
  <2>1. pc'[w] \notin {"run", "complete", "fail", "ack"}
    BY DEF IInv, TypeOK
  <2> QED
    BY <2>1, AnsweredStep DEF IInv, TypeOK, Passed
<1> QED
  BY <1>1, <1>2, <1>3, <1>4, <1>5 DEF IInv

\* The invariant is preserved by acknowledge.
LEMMA AcknowledgeInv ==
  ASSUME IInv, NEW w \in Workers, acknowledge(w)
  PROVE  IInv'
<1> USE DEF jobVars, outboxVars, streamVars, workerVars, publisherVars
<1> USE DEF acknowledge, Leave
<1>0. held[w] \in delivered
  BY HeldFacts
<1>1. TypeOK'
  BY <1>0, StreamSame, MaxAttemptsAssumption DEF IInv, TypeOK
<1>2. Shape'
  BY DEF IInv, TypeOK, Shape
<1>3. Rows'
  BY DEF IInv, Rows, InFlight
<1>4. Timing'
  BY DEF IInv, Timing, InFlight
<1>5. Answered'
  BY DEF IInv, TypeOK, Answered, Passed
<1> QED
  BY <1>1, <1>2, <1>3, <1>4, <1>5 DEF IInv

\* The invariant is preserved by the passing of time.
LEMMA TickInv ==
  ASSUME IInv, Tick
  PROVE  IInv'
<1> USE DEF jobVars, outboxVars, streamVars, workerVars, publisherVars
<1> USE DEF Tick, CountDown
<1>0. /\ lease_expires_at' \in [Jobs -> {NULL, Expired} \cup 0 .. LeaseSeconds]
      /\ next_attempt_at' \in [Jobs -> {NULL} \cup Nat]
      /\ outbox_due' \in [Events -> Int]
  BY SMTT(30), LeaseAssumption DEF IInv, TypeOK, NULL, Expired
<1>1. TypeOK'
  BY <1>0, StreamSame DEF IInv, TypeOK
<1>2. Shape'
  BY DEF IInv, TypeOK, Shape
<1>3. Rows'
  BY DEF IInv, Rows, InFlight
<1>4. Timing'
  <2> SUFFICES ASSUME NEW j \in Jobs, status[j] = "retry_wait"
               PROVE  LET e == <<j, attempt_count[j]>>
                      IN /\ next_attempt_at'[j] # NULL
                         /\ next_attempt_at'[j] <= 0 \/ next_attempt_at'[j] <= outbox_due'[e]
                         /\ InFlight(e)' => next_attempt_at'[j] <= 0
    BY DEF Timing
  <2> DEFINE e == <<j, attempt_count[j]>>
  <2>1. e \in Events
    BY WaitingEvent DEF Waiting
  <2>2. InFlight(e)' => InFlight(e)
    BY DEF InFlight
  <2>3. next_attempt_at[j] \in Nat /\ outbox_due[e] \in Int
    BY <2>1 DEF IInv, TypeOK, Timing
  <2>4. /\ next_attempt_at[j] <= 0 \/ next_attempt_at[j] <= outbox_due[e]
        /\ InFlight(e) => next_attempt_at[j] <= 0
    BY DEF IInv, Timing
  <2> QED
    BY <2>1, <2>2, <2>3, <2>4 DEF NULL
<1>5. Answered'
  BY DEF IInv, Answered, Passed
<1> QED
  BY <1>1, <1>2, <1>3, <1>4, <1>5 DEF IInv

\* A claim that finds nothing to claim answers a message whose row has had its
\* effect: were it the row of the waiting attempt, the retry would be due.
LEMMA UnclaimablePassed ==
  ASSUME IInv, NEW w \in Workers, pc[w] = "claim", ~ Claimable(JobOf(w))
  PROVE  Passed(held[w][1])
<1> DEFINE j == JobOf(w)
           e == held[w][1]
<1>0. /\ j \in Jobs /\ e \in Events /\ e[1] = j
      /\ e[2] \in Int /\ attempt_count[j] \in Int
      /\ e = <<j, e[2]>>
  BY HeldFacts DEF IInv, TypeOK, JobOf
<1>1. e[2] < attempt_count[j] \/ (e[2] = attempt_count[j] /\ status[j] \in Waiting)
  BY <1>0, HeldFacts DEF IInv, Rows
<1>2. ASSUME e[2] = attempt_count[j], status[j] \in Waiting
      PROVE  FALSE
  <2>1. status[j] = "retry_wait" /\ ~ Due(j)
    BY <1>2 DEF Claimable, Waiting
  <2>2. InFlight(<<j, attempt_count[j]>>)
    BY <1>0, <1>2, HeldFacts DEF InFlight
  <2> QED
    BY <1>0, <2>1, <2>2 DEF IInv, Timing, Due
<1> QED
  BY <1>0, <1>1, <1>2 DEF Passed

\* The invariant is preserved by claim.
LEMMA ClaimInv ==
  ASSUME IInv, NEW w \in Workers, claim(w)
  PROVE  IInv'
<1> USE DEF jobVars, outboxVars, streamVars, workerVars, publisherVars
<1> DEFINE j == JobOf(w)
<1>0. j \in Jobs /\ held[w][1] \in Events /\ held[w][1][1] = j
  BY HeldFacts DEF claim, JobOf
<1>A. CASE ~ Claimable(j)
  <2> USE <1>A DEF claim, Goto
  <2>0. UNCHANGED <<status, attempt_count, worker_id, lease_expires_at, next_attempt_at>>
    OBVIOUS
  <2>1. TypeOK'
    BY <2>0, StreamSame DEF IInv, TypeOK
  <2>2. Shape'
    BY <2>0 DEF IInv, TypeOK, Shape
  <2>3. Rows'
    BY <2>0 DEF IInv, Rows, InFlight
  <2>4. Timing'
    BY <2>0 DEF IInv, Timing, InFlight
  <2>5. Answered'
    <3>1. Passed(held[w][1])' /\ held'[w] = held[w]
      BY <2>0, UnclaimablePassed DEF Passed
    <3> QED
      BY <2>0, <3>1, AnsweredStep DEF IInv, TypeOK, Passed
  <2> QED
    BY <2>1, <2>2, <2>3, <2>4, <2>5 DEF IInv
<1>B. CASE Claimable(j)
  <2>0. /\ status[j] \in Waiting /\ attempt_count[j] \in 0 .. MaxAttempts - 1
        /\ status' = [status EXCEPT ![j] = "running"]
        /\ attempt_count' = [attempt_count EXCEPT ![j] = attempt_count[j] + 1]
        /\ worker_id' = [worker_id EXCEPT ![j] = w]
        /\ lease_expires_at' = [lease_expires_at EXCEPT ![j] = LeaseSeconds]
        /\ next_attempt_at' = [next_attempt_at EXCEPT ![j] = NULL]
        /\ UNCHANGED <<last_error, snapshots, outboxVars, streamVars, publisherVars>>
    BY <1>0, <1>B, MaxAttemptsAssumption
    DEF claim, Claimable, Waiting, NextAttempt, IInv, TypeOK, Shape
  <2>a. \/ /\ pc' = [pc EXCEPT ![w] = "run"]
           /\ claimed' = [claimed EXCEPT ![w] = attempt_count[j] + 1]
           /\ heartbeat' = [heartbeat EXCEPT ![w] = "on"]
           /\ UNCHANGED <<held, error, faults>>
        \/ Leave(w) /\ Fault
    BY <1>B DEF claim, NextAttempt
  <2>b. /\ pc' \in [Workers -> {"idle", "get", "claim", "run", "complete", "fail", "ack", "dead"}]
        /\ held' \in [Workers -> delivered \cup {NoMessage}]
        /\ claimed' \in [Workers -> 0 .. MaxAttempts]
        /\ heartbeat' \in [Workers -> {"off", "on", "lost"}]
        /\ error' \in [Workers -> Categories \cup {"none"}]
        /\ faults' \in 0 .. MaxFaults
    <3>1. attempt_count[j] + 1 \in 0 .. MaxAttempts
      BY <1>0, <2>0, MaxAttemptsAssumption DEF IInv, TypeOK
    <3>2. CASE /\ pc' = [pc EXCEPT ![w] = "run"]
               /\ claimed' = [claimed EXCEPT ![w] = attempt_count[j] + 1]
               /\ heartbeat' = [heartbeat EXCEPT ![w] = "on"]
               /\ UNCHANGED <<held, error, faults>>
      BY <3>1, <3>2 DEF IInv, TypeOK
    <3>3. CASE Leave(w) /\ Fault
      BY <3>3, MaxAttemptsAssumption, FaultsAssumption DEF IInv, TypeOK, Leave, Fault
    <3> QED
      BY <2>a, <3>2, <3>3
  <2>1. TypeOK'
    BY <1>0, <2>0, <2>b, StreamSame, LeaseAssumption, MaxAttemptsAssumption
    DEF IInv, TypeOK, Statuses
  <2>2. Shape'
    <3>1. \A i \in Jobs : /\ status'[i] \in Waiting => attempt_count'[i] < MaxAttempts
                          /\ status'[i] = "running" => attempt_count'[i] > 0
                          /\ status'[i] = "absent" => attempt_count'[i] = 0
      BY <1>0, <2>0 DEF IInv, TypeOK, Shape, Waiting
    <3>2. \A v \in Workers : /\ pc'[v] \notin {"idle", "dead"} => held'[v] # NoMessage
                             /\ pc'[v] = "fail" => error'[v] # "none"
      BY <2>a DEF IInv, TypeOK, Shape, Leave, claim
    <3> QED
      BY <2>0, <3>1, <3>2 DEF IInv, Shape
  <2>3. Rows'
    <3>1. \A i \in Jobs : status'[i] \in Waiting => outbox'[<<i, attempt_count'[i]>>] # "absent"
      BY <1>0, <2>0 DEF IInv, TypeOK, Rows, Waiting
    <3>2. \A e \in Events : outbox'[e] # "absent" =>
            \/ e[2] < attempt_count'[e[1]]
            \/ e[2] = attempt_count'[e[1]] /\ status'[e[1]] \in Waiting
      BY <1>0, <2>0, EventFacts DEF IInv, TypeOK, Rows
    <3> QED
      BY <2>0, <3>1, <3>2 DEF IInv, Rows, InFlight
  <2>4. Timing'
    BY <1>0, <2>0 DEF IInv, TypeOK, Timing, InFlight
  <2>5. Answered'
    <3>1. \A e \in Events : Passed(e) => Passed(e)'
      BY <1>0, <2>0, EventFacts DEF IInv, TypeOK, Passed, Terminal, Waiting
    <3>2. Passed(held[w][1])' \/ pc'[w] = "idle"
      <4>1. CASE Leave(w)
        BY <4>1 DEF Leave, IInv, TypeOK
      <4>2. CASE held' = held
        <5>1. held[w][1][2] <= attempt_count[j] /\ held[w][1][2] \in Int
          BY <1>0, HeldFacts DEF claim, IInv, TypeOK, Rows
        <5>2. attempt_count'[held[w][1][1]] > held[w][1][2]
          BY <1>0, <2>0, <5>1 DEF IInv, TypeOK
        <5> QED
          BY <4>2, <5>2 DEF Passed
      <4> QED
        BY <2>a, <4>1, <4>2
    <3>3. pc'[w] # "idle" => held'[w] = held[w]
      BY <2>a DEF IInv, TypeOK, Leave
    <3>4. \A v \in Workers \ {w} : pc'[v] = pc[v] /\ held'[v] = held[v]
      BY <2>a DEF IInv, TypeOK, Leave
    <3> QED
      BY <2>0, <3>1, <3>2, <3>3, <3>4, AnsweredStep
  <2> QED
    BY <2>1, <2>2, <2>3, <2>4, <2>5 DEF IInv
<1> QED
  BY <1>A, <1>B

\* The transaction of record_failure and recover_stale on running jobs.
LEMMA GiveUpStep ==
  ASSUME IInv, NEW S \in SUBSET Jobs, \A j \in S : status[j] = "running",
         NEW category \in Categories, NEW retryable \in BOOLEAN,
         GiveUpAttempt(S, category, retryable),
         UNCHANGED <<streamVars, publisherVars>>
  PROVE  /\ status' \in [Jobs -> Statuses]
         /\ worker_id' \in [Jobs -> Workers \cup {NoWorker}]
         /\ lease_expires_at' \in [Jobs -> {NULL, Expired} \cup 0 .. LeaseSeconds]
         /\ next_attempt_at' \in [Jobs -> {NULL} \cup Nat]
         /\ last_error' \in [Jobs -> Categories \cup {"none"}]
         /\ outbox' \in [Events -> {"absent", "unpublished", "published"}]
         /\ outbox_due' \in [Events -> Int]
         /\ \A j \in Jobs : /\ status'[j] \in Waiting => attempt_count'[j] < MaxAttempts
                            /\ status'[j] = "running" => attempt_count'[j] > 0
                            /\ status'[j] = "absent" => attempt_count'[j] = 0
         /\ Rows'
         /\ Timing'
         /\ \A e \in Events : Passed(e) => Passed(e)'
<1> USE DEF jobVars, outboxVars, streamVars, publisherVars
<1> DEFINE again == {j \in S : retryable /\ MayRetry(j)}
           delay == [j \in Jobs |-> retry_delay_seconds(attempt_count[j])]
           event == {<<j, attempt_count[j]>> : j \in again}
<1>a. /\ status' = [j \in Jobs |-> IF j \in again THEN "retry_wait"
                                   ELSE IF j \in S THEN "failed" ELSE status[j]]
      /\ worker_id' = [j \in Jobs |-> IF j \in S THEN NoWorker ELSE worker_id[j]]
      /\ lease_expires_at' = [j \in Jobs |-> IF j \in S THEN NULL ELSE lease_expires_at[j]]
      /\ last_error' = [j \in Jobs |-> IF j \in S THEN category ELSE last_error[j]]
      /\ next_attempt_at' = [j \in Jobs |-> IF j \in again THEN delay[j]
                                ELSE IF j \in S THEN NULL ELSE next_attempt_at[j]]
      /\ outbox' = [e \in Events |-> IF e \in event THEN "unpublished" ELSE outbox[e]]
      /\ outbox_due' = [e \in Events |-> IF e \in event THEN delay[e[1]] ELSE outbox_due[e]]
      /\ attempt_count' = attempt_count
  BY DEF GiveUpAttempt
<1>b. ASSUME NEW j \in again
      PROVE  /\ j \in Jobs /\ attempt_count[j] \in 1 .. MaxAttempts - 1
             /\ delay[j] \in Nat
             /\ <<j, attempt_count[j]>> \in Events
             /\ outbox[<<j, attempt_count[j]>>] = "absent"
             /\ ~ InFlight(<<j, attempt_count[j]>>)
  <2>1. j \in Jobs /\ status[j] = "running"
    OBVIOUS
  <2>2. attempt_count[j] \in 1 .. MaxAttempts - 1
    BY <2>1, MaxAttemptsAssumption DEF IInv, TypeOK, Shape, MayRetry
  <2>3. delay[j] \in Nat
    BY <2>1, <2>2, MaxAttemptsAssumption, DelayAssumption
  <2>4. <<j, attempt_count[j]>> \in Events
    BY <2>1, <2>2, MaxAttemptsAssumption, EventMade
  <2>5. outbox[<<j, attempt_count[j]>>] = "absent"
    BY <2>1, <2>2, <2>4 DEF IInv, Rows, Waiting
  <2> QED
    BY <2>1, <2>2, <2>3, <2>4, <2>5 DEF IInv, Rows
<1> HIDE DEF delay
<1>c. \A e \in event : e[1] \in again /\ e = <<e[1], attempt_count[e[1]]>>
  OBVIOUS
<1>d. \A i \in Jobs : status'[i] \in Waiting /\ i \notin again => status[i] \in Waiting /\ i \notin S
  BY <1>a DEF Waiting
<1>e. \A e \in Events : InFlight(e)' <=> InFlight(e)
  BY DEF InFlight
<1>1. /\ status' \in [Jobs -> Statuses]
      /\ worker_id' \in [Jobs -> Workers \cup {NoWorker}]
      /\ lease_expires_at' \in [Jobs -> {NULL, Expired} \cup 0 .. LeaseSeconds]
      /\ last_error' \in [Jobs -> Categories \cup {"none"}]
      /\ outbox' \in [Events -> {"absent", "unpublished", "published"}]
  BY <1>a DEF IInv, TypeOK, Statuses
<1>2. next_attempt_at' \in [Jobs -> {NULL} \cup Nat]
  <2> SUFFICES ASSUME NEW j \in Jobs PROVE next_attempt_at'[j] \in {NULL} \cup Nat
    BY <1>a
  <2>1. CASE j \in again
    BY <1>a, <1>b, <2>1
  <2>2. CASE j \notin again
    BY <1>a, <2>2 DEF IInv, TypeOK
  <2> QED
    BY <2>1, <2>2
<1>3. outbox_due' \in [Events -> Int]
  <2> SUFFICES ASSUME NEW e \in Events PROVE outbox_due'[e] \in Int
    BY <1>a
  <2>1. CASE e \in event
    BY <1>a, <1>b, <1>c, <2>1
  <2>2. CASE e \notin event
    BY <1>a, <2>2 DEF IInv, TypeOK
  <2> QED
    BY <2>1, <2>2
<1>4. \A j \in Jobs : /\ status'[j] \in Waiting => attempt_count'[j] < MaxAttempts
                      /\ status'[j] = "running" => attempt_count'[j] > 0
                      /\ status'[j] = "absent" => attempt_count'[j] = 0
  <2> SUFFICES ASSUME NEW j \in Jobs
               PROVE  /\ status'[j] \in Waiting => attempt_count[j] < MaxAttempts
                      /\ status'[j] = "running" => attempt_count[j] > 0
                      /\ status'[j] = "absent" => attempt_count[j] = 0
    BY <1>a
  <2>1. CASE j \in again
    <3>1. status'[j] = "retry_wait" /\ attempt_count[j] \in 1 .. MaxAttempts - 1
      BY <1>a, <1>b, <2>1
    <3> QED
      BY <3>1, MaxAttemptsAssumption
  <2>2. CASE j \notin again
    BY <1>a, <1>d, <2>2 DEF IInv, Shape
  <2> QED
    BY <2>1, <2>2
<1>5. Rows'
  <2>1. \A i \in Jobs : status'[i] \in Waiting => outbox'[<<i, attempt_count'[i]>>] # "absent"
    <3> SUFFICES ASSUME NEW i \in Jobs, status'[i] \in Waiting
                 PROVE  outbox'[<<i, attempt_count[i]>>] # "absent"
      BY <1>a
    <3>1. CASE i \in again
      BY <1>a, <1>b, <3>1
    <3>2. CASE i \notin again
      <4>1. status[i] \in Waiting
        BY <1>d, <3>2
      <4>2. <<i, attempt_count[i]>> \in Events /\ outbox[<<i, attempt_count[i]>>] # "absent"
        BY <4>1, WaitingEvent DEF IInv, Rows
      <4> QED
        BY <1>a, <4>2
    <3> QED
      BY <3>1, <3>2
  <2>2. ASSUME NEW e \in Events, outbox'[e] # "absent"
        PROVE  \/ e[2] < attempt_count'[e[1]]
               \/ e[2] = attempt_count'[e[1]] /\ status'[e[1]] \in Waiting
    <3>1. CASE e \in event
      <4>1. e[1] \in again /\ e[2] = attempt_count[e[1]]
        BY <1>c, <3>1
      <4>2. status'[e[1]] = "retry_wait"
        BY <1>a, <1>b, <4>1
      <4> QED
        BY <1>a, <4>1, <4>2 DEF Waiting
    <3>2. CASE e \notin event
      <4>1. outbox[e] # "absent"
        BY <1>a, <2>2, <3>2
      <4>2. CASE e[2] < attempt_count[e[1]]
        BY <1>a, <4>2
      <4>3. CASE e[2] = attempt_count[e[1]] /\ status[e[1]] \in Waiting
        <5>1. status'[e[1]] = status[e[1]]
          BY <1>a, <4>3, EventFacts DEF Waiting
        <5> QED
          BY <1>a, <4>3, <5>1
      <4> QED
        BY <4>1, <4>2, <4>3 DEF IInv, Rows
    <3> QED
      BY <3>1, <3>2
  <2>3. \A e \in Events : InFlight(e)' => outbox'[e] # "absent"
    BY <1>a, <1>e DEF IInv, Rows
  <2>4. \A e \in Events : outbox'[e] = "published" => added'[e] > 0
    BY <1>a DEF IInv, Rows
  <2> QED
    BY <2>1, <2>2, <2>3, <2>4 DEF IInv, Rows
<1>6. Timing'
  <2> SUFFICES ASSUME NEW j \in Jobs, status'[j] = "retry_wait"
               PROVE  LET e == <<j, attempt_count[j]>>
                      IN /\ next_attempt_at'[j] # NULL
                         /\ next_attempt_at'[j] <= 0 \/ next_attempt_at'[j] <= outbox_due'[e]
                         /\ InFlight(e)' => next_attempt_at'[j] <= 0
    BY <1>a DEF Timing
  <2> DEFINE e == <<j, attempt_count[j]>>
  <2>1. CASE j \in again
    <3>1. e \in Events /\ e \in event /\ delay[j] \in Nat /\ ~ InFlight(e)'
      BY <1>a, <1>b, <2>1 DEF InFlight
    <3>2. next_attempt_at'[j] = delay[j] /\ outbox_due'[e] = delay[j]
      BY <1>a, <2>1, <3>1
    <3> QED
      BY <3>1, <3>2 DEF NULL
  <2>2. CASE j \notin again
    <3>1. status[j] = "retry_wait" /\ j \notin S
      BY <1>a, <2>2
    <3>2. e \in Events
      BY <3>1, WaitingEvent DEF Waiting
    <3>3. e \notin event
      BY <2>2, <1>c
    <3>4. next_attempt_at'[j] = next_attempt_at[j] /\ outbox_due'[e] = outbox_due[e]
      BY <1>a, <2>2, <3>1, <3>2, <3>3
    <3>5. InFlight(e)' => InFlight(e)
      BY <1>a DEF InFlight
    <3> QED
      BY <3>1, <3>4, <3>5 DEF IInv, Timing
  <2> QED
    BY <2>1, <2>2
<1>7. \A e \in Events : Passed(e) => Passed(e)'
  BY <1>a, EventFacts DEF Passed, Terminal
<1> QED
  BY <1>1, <1>2, <1>3, <1>4, <1>5, <1>6, <1>7

\* The invariant is preserved by recover_stale.
LEMMA RecoverStaleInv ==
  ASSUME IInv, NEW S \in SUBSET Stale, recover_stale(S)
  PROVE  IInv'
<1> USE DEF jobVars, outboxVars, streamVars, workerVars, publisherVars
<1> USE DEF recover_stale, Fault
<1>0. /\ S \in SUBSET Jobs /\ (\A j \in S : status[j] = "running")
      /\ "infrastructure" \in Categories /\ TRUE \in BOOLEAN
      /\ GiveUpAttempt(S, "infrastructure", TRUE)
      /\ UNCHANGED <<streamVars, publisherVars>>
  BY DEF Stale, Categories
<1>a. UNCHANGED <<attempt_count, snapshots, outbox_attempts>> /\ faults' \in 0 .. MaxFaults
  BY FaultsAssumption DEF GiveUpAttempt, IInv, TypeOK
<1>b. /\ status' \in [Jobs -> Statuses]
      /\ worker_id' \in [Jobs -> Workers \cup {NoWorker}]
      /\ lease_expires_at' \in [Jobs -> {NULL, Expired} \cup 0 .. LeaseSeconds]
      /\ next_attempt_at' \in [Jobs -> {NULL} \cup Nat]
      /\ last_error' \in [Jobs -> Categories \cup {"none"}]
      /\ outbox' \in [Events -> {"absent", "unpublished", "published"}]
      /\ outbox_due' \in [Events -> Int]
  BY <1>0, GiveUpStep
<1>c. UNCHANGED <<streamVars, workerVars, publisherVars>> /\ Stream' = Stream
  BY StreamSame
<1>1. TypeOK'
  <2> HIDE DEF recover_stale
  <2> QED BY <1>a, <1>b, <1>c DEF IInv, TypeOK
<1>2. Shape'
  BY <1>0, GiveUpStep DEF IInv, Shape
<1>3. Rows'
  BY <1>0, GiveUpStep
<1>4. Timing'
  BY <1>0, GiveUpStep
<1>5. Answered'
  <2>1. \A e \in Events : Passed(e) => Passed(e)'
    BY <1>0, GiveUpStep
  <2>2. \A m \in acked : Passed(m[1])'
    BY <2>1, StreamFacts DEF IInv, TypeOK, Answered
  <2>3. ASSUME NEW v \in Workers, pc[v] \in {"run", "complete", "fail", "ack"}
        PROVE  Passed(held[v][1])'
    <3>1. held[v][1] \in Events /\ Passed(held[v][1])
      BY <2>3, HeldFacts DEF IInv, Answered
    <3> QED
      BY <2>1, <3>1 DEF Passed
  <2> QED
    BY <2>2, <2>3 DEF Answered, Passed
<1> QED
  BY <1>1, <1>2, <1>3, <1>4, <1>5 DEF IInv

\* How a worker goes on after a transaction that was committed or refused.
LEMMA ReplyStep ==
  ASSUME IInv, NEW w \in Workers, pc[w] \in {"complete", "fail"},
         Reply(w, "ack") \/ (Leave(w) /\ UNCHANGED faults)
  PROVE  /\ pc' \in [Workers -> {"idle", "get", "claim", "run", "complete", "fail", "ack", "dead"}]
         /\ held' \in [Workers -> delivered \cup {NoMessage}]
         /\ claimed' \in [Workers -> 0 .. MaxAttempts]
         /\ heartbeat' \in [Workers -> {"off", "on", "lost"}]
         /\ error' \in [Workers -> Categories \cup {"none"}]
         /\ faults' \in 0 .. MaxFaults
         /\ \A v \in Workers : /\ pc'[v] \notin {"idle", "dead"} => held'[v] # NoMessage
                               /\ pc'[v] = "fail" => error'[v] # "none"
         /\ \A v \in Workers \ {w} : pc'[v] = pc[v] /\ held'[v] = held[v]
         /\ pc'[w] = "idle" \/ held'[w] = held[w]
<1>1. CASE Goto(w, "ack") /\ UNCHANGED faults
  BY <1>1 DEF Goto, IInv, TypeOK, Shape
<1>2. CASE Leave(w) /\ (UNCHANGED faults \/ Fault)
  BY <1>2, MaxAttemptsAssumption, FaultsAssumption DEF Leave, Fault, IInv, TypeOK, Shape
<1> QED
  BY <1>1, <1>2 DEF Reply

\* The invariant is preserved by record_failure.
LEMMA RecordFailureInv ==
  ASSUME IInv, NEW w \in Workers, record_failure(w)
  PROVE  IInv'
<1> USE DEF jobVars, outboxVars, streamVars, workerVars, publisherVars
<1> DEFINE j == JobOf(w)
<1>0. /\ pc[w] = "fail" /\ j \in Jobs
      /\ Reply(w, "ack") \/ (Leave(w) /\ UNCHANGED faults)
      /\ UNCHANGED <<streamVars, publisherVars>>
  BY HeldFacts DEF record_failure
<1>a. Passed(held[w][1]) /\ held[w][1] \in Events
  BY <1>0, HeldFacts DEF IInv, Answered
<1>A. CASE Owns(w, j) /\ error[w] \in Categories
  <2>0. /\ {j} \in SUBSET Jobs /\ (\A i \in {j} : status[i] = "running")
        /\ (error[w] = "infrastructure") \in BOOLEAN
        /\ GiveUpAttempt({j}, error[w], error[w] = "infrastructure")
    BY <1>0, <1>A DEF record_failure, Owns
  <2>1. UNCHANGED <<attempt_count, snapshots, outbox_attempts>>
    BY <2>0 DEF GiveUpAttempt
  <2>2. TypeOK'
    BY <1>0, <1>A, <2>0, <2>1, GiveUpStep, ReplyStep, StreamSame DEF IInv, TypeOK
  <2>3. Shape'
    BY <1>0, <1>A, <2>0, GiveUpStep, ReplyStep DEF IInv, Shape
  <2>4. Rows' /\ Timing'
    BY <1>0, <1>A, <2>0, GiveUpStep
  <2>5. Answered'
    <3>1. \A e \in Events : Passed(e) => Passed(e)'
      BY <1>0, <1>A, <2>0, GiveUpStep
    <3>2. pc'[w] = "idle" \/ (held'[w] = held[w] /\ Passed(held[w][1])')
      BY <1>0, <1>a, <3>1, ReplyStep DEF Passed
    <3> QED
      BY <1>0, <3>1, <3>2, ReplyStep, AnsweredStep
  <2> QED
    BY <2>2, <2>3, <2>4, <2>5 DEF IInv
<1>B. CASE ~ Owns(w, j)
  <2>0. UNCHANGED <<jobVars, outboxVars>>
    BY <1>B DEF record_failure
  <2>1. TypeOK'
    BY <1>0, <2>0, ReplyStep, StreamSame DEF IInv, TypeOK
  <2>2. Shape'
    BY <1>0, <2>0, ReplyStep DEF IInv, Shape
  <2>3. Rows' /\ Timing'
    BY <1>0, <2>0 DEF IInv, Rows, Timing, InFlight
  <2>4. Answered'
    <3>1. pc'[w] = "idle" \/ (held'[w] = held[w] /\ Passed(held[w][1])')
      BY <1>0, <1>a, <2>0, ReplyStep DEF Passed
    <3> QED
      BY <1>0, <2>0, <3>1, ReplyStep, AnsweredStep DEF Passed
  <2> QED
    BY <2>1, <2>2, <2>3, <2>4 DEF IInv
<1>C. error[w] \in Categories
  BY <1>0 DEF IInv, TypeOK, Shape
<1> QED
  BY <1>A, <1>B, <1>C

\* The invariant is preserved by complete.
LEMMA CompleteInv ==
  ASSUME IInv, NEW w \in Workers, complete(w)
  PROVE  IInv'
<1> USE DEF jobVars, outboxVars, streamVars, workerVars, publisherVars
<1> DEFINE j == JobOf(w)
<1>0. /\ pc[w] = "complete" /\ j \in Jobs
      /\ Reply(w, "ack") \/ (Leave(w) /\ UNCHANGED faults)
      /\ UNCHANGED <<attempt_count, next_attempt_at, outboxVars, streamVars, publisherVars>>
  BY HeldFacts DEF complete
<1>a. Passed(held[w][1]) /\ held[w][1] \in Events
  BY <1>0, HeldFacts DEF IInv, Answered
<1>b. \/ UNCHANGED <<status, worker_id, lease_expires_at, last_error, snapshots>>
      \/ status[j] = "running" /\ StoreResult(j)
  BY DEF complete, Owns
<1>c. /\ status' \in [Jobs -> Statuses]
      /\ worker_id' \in [Jobs -> Workers \cup {NoWorker}]
      /\ lease_expires_at' \in [Jobs -> {NULL, Expired} \cup 0 .. LeaseSeconds]
      /\ last_error' \in [Jobs -> Categories \cup {"none"}]
      /\ snapshots' \subseteq Jobs
      /\ \A i \in Jobs : \/ status'[i] = status[i]
                         \/ status[i] = "running" /\ status'[i] = "completed"
  BY <1>0, <1>b DEF StoreResult, IInv, TypeOK, Statuses
<1>1. TypeOK'
  BY <1>0, <1>c, ReplyStep, StreamSame DEF IInv, TypeOK
<1>2. Shape'
  BY <1>0, <1>c, ReplyStep DEF IInv, Shape, Waiting
<1>3. Rows'
  <2>1. \A e \in Events : e[1] \in Jobs
    BY EventFacts
  <2> QED
    BY <1>0, <1>c, <2>1 DEF IInv, Rows, InFlight, Waiting
<1>4. Timing'
  BY <1>0, <1>c DEF IInv, Timing, InFlight
<1>5. Answered'
  <2>1. \A e \in Events : Passed(e) => Passed(e)'
    BY <1>0, <1>c, EventFacts DEF Passed, Terminal
  <2>2. pc'[w] = "idle" \/ (held'[w] = held[w] /\ Passed(held[w][1])')
    BY <1>0, <1>a, <2>1, ReplyStep DEF Passed
  <2> QED
    BY <1>0, <2>1, <2>2, ReplyStep, AnsweredStep
<1> QED
  BY <1>1, <1>2, <1>3, <1>4, <1>5 DEF IInv

\* The invariant is inductive.
LEMMA InductiveStep == IInv /\ [Next]_vars => IInv'
<1> SUFFICES ASSUME IInv, [Next]_vars PROVE IInv'
  OBVIOUS
<1>1. ASSUME NEW j \in Jobs, create(j) PROVE IInv'
  BY <1>1, CreateInv
<1>2. ASSUME NEW p \in Publishers, PublisherStep(p) PROVE IInv'
  BY <1>2, ReadyOutboxInv, EnqueueInv, MarkPublishedInv, MarkFailedInv DEF PublisherStep
<1>3. ASSUME NEW p \in Publishers, FailRound(p) PROVE IInv'
  BY <1>3, FailRoundInv
<1>4. ASSUME NEW S \in SUBSET Stale, recover_stale(S) PROVE IInv'
  BY <1>4, RecoverStaleInv
<1>5. ASSUME NEW w \in Workers, Fetch(w) PROVE IInv'
  BY <1>5, ConsumeInv, ReclaimInv DEF Fetch
<1>6. ASSUME NEW w \in Workers, Process(w) PROVE IInv'
  BY <1>6, GetInv, ClaimInv, EvaluateInv, CompleteInv, RecordFailureInv, AcknowledgeInv
  DEF Process
<1>7. ASSUME NEW w \in Workers, renew_lease(w) \/ LoseConnection(w) \/ CrashWorker(w)
      PROVE  IInv'
  BY <1>7, RenewLeaseInv, LoseConnectionInv, CrashWorkerInv
<1>8. CASE Tick
  BY <1>8, TickInv
<1>9. CASE UNCHANGED vars
  <2> USE <1>9 DEF vars, jobVars, outboxVars, streamVars, workerVars, publisherVars
  <2>1. TypeOK'
    BY StreamSame DEF IInv, TypeOK
  <2>2. Shape' /\ Rows' /\ Timing' /\ Answered'
    BY DEF IInv, Shape, Rows, Timing, Answered, InFlight, Passed
  <2> QED
    BY <2>1, <2>2 DEF IInv
<1> QED
  BY <1>1, <1>2, <1>3, <1>4, <1>5, <1>6, <1>7, <1>8, <1>9 DEF Next

\* The invariant holds in every state of the queue.
THEOREM Invariant == Spec => []IInv
BY InitInvariant, InductiveStep, PTL DEF Spec

\* Every variable keeps its type: in particular a job is never claimed more than
\* MaxAttempts times, and a worker holds a message only after it was delivered.
THEOREM TypeCorrect == Spec => []TypeOK
<1>1. IInv => TypeOK
  BY DEF IInv
<1> QED
  BY <1>1, Invariant, PTL

\* A job that waits for an attempt always has a notification on its way, for any
\* number of jobs, workers, publishers, attempts, crashes and lost requests.
THEOREM JobsNeverStranded == Spec => []NoStrandedJob
BY NotStranded, Invariant, PTL

-----------------------------------------------------------------------------
(* Rows and their owners *)

\* A step that starts no attempt and gives no job to a worker keeps every job with
\* the one worker on its current attempt.
LEMMA OwnersKept ==
  ASSUME IInv, OneOwner, attempt_count' = attempt_count,
         \A j \in Jobs : status'[j] = "running" =>
           status[j] = "running" /\ worker_id'[j] = worker_id[j],
         \A v \in Workers : pc'[v] \in {"run", "complete", "fail"} =>
           Working(v) /\ held'[v] = held[v] /\ claimed'[v] = claimed[v]
  PROVE  OneOwner'
<1>1. ASSUME NEW v \in Workers, Working(v)'
      PROVE  /\ Working(v) /\ held'[v] = held[v] /\ claimed'[v] = claimed[v]
             /\ JobOf(v)' = JobOf(v) /\ JobOf(v) \in Jobs
             /\ status'[JobOf(v)] = "running" /\ worker_id'[JobOf(v)] = v => Owns(v, JobOf(v))
  <2>1. Working(v) /\ held'[v] = held[v] /\ claimed'[v] = claimed[v]
    BY <1>1 DEF Working
  <2>2. JobOf(v) \in Jobs
    BY <2>1, HeldFacts DEF Working
  <2> QED
    BY <2>1, <2>2 DEF JobOf, Owns
<1>2. OwnerOnCurrentAttempt'
  <2> SUFFICES ASSUME NEW v \in Workers, Working(v)'
               PROVE  /\ claimed'[v] \in 1 .. attempt_count'[JobOf(v)']
                      /\ status'[JobOf(v)'] = "running" /\ worker_id'[JobOf(v)'] = v
                           => claimed'[v] = attempt_count'[JobOf(v)']
    BY DEF OwnerOnCurrentAttempt, Owns
  <2> QED
    BY <1>1 DEF OneOwner, OwnerOnCurrentAttempt
<1>3. OneWorkerPerAttempt'
  <2> SUFFICES ASSUME NEW v \in Workers, NEW w \in Workers, Working(v)', Working(w)',
                      JobOf(v)' = JobOf(w)', claimed'[v] = claimed'[w]
               PROVE  v = w
    BY DEF OneWorkerPerAttempt
  <2> QED
    BY <1>1 DEF OneOwner, OneWorkerPerAttempt
<1> QED
  BY <1>2, <1>3 DEF OneOwner

\* GiveUpAttempt, in a transaction of recover_stale or record_failure, leaves rows whose
\* fields fit their status.
LEMMA GiveUpConsistent ==
  ASSUME IInv, RowConsistent, NEW S \in SUBSET Jobs, \A j \in S : status[j] = "running",
         NEW category \in Categories,
         GiveUpAttempt(S, category, category = "infrastructure")
  PROVE  /\ RowConsistent'
         /\ attempt_count' = attempt_count
         /\ \A j \in Jobs : status'[j] = "running" =>
              status[j] = "running" /\ worker_id'[j] = worker_id[j]
<1> DEFINE retryable == category = "infrastructure"
<1>1. /\ attempt_count' = attempt_count
      /\ snapshots' = snapshots
      /\ \A j \in Jobs \ S : /\ status'[j] = status[j] /\ worker_id'[j] = worker_id[j]
                             /\ lease_expires_at'[j] = lease_expires_at[j]
                             /\ next_attempt_at'[j] = next_attempt_at[j]
                             /\ last_error'[j] = last_error[j]
      /\ \A j \in S : /\ worker_id'[j] = NoWorker /\ lease_expires_at'[j] = NULL
                      /\ last_error'[j] = category
      /\ \A j \in S : retryable /\ MayRetry(j) =>
           status'[j] = "retry_wait" /\ next_attempt_at'[j] = retry_delay_seconds(attempt_count[j])
      /\ \A j \in S : ~ (retryable /\ MayRetry(j)) =>
           status'[j] = "failed" /\ next_attempt_at'[j] = NULL
  BY DEF GiveUpAttempt
<1>2. ASSUME NEW j \in S
      PROVE  /\ MayRetry(j) => retry_delay_seconds(attempt_count[j]) # NULL
             /\ ~ MayRetry(j) => attempt_count[j] = MaxAttempts
             /\ j \notin snapshots
  <2>1. attempt_count[j] \in 1 .. MaxAttempts
    BY MaxAttemptsAssumption DEF IInv, TypeOK, Shape
  <2>2. retry_delay_seconds(attempt_count[j]) \in Nat
    BY <2>1, DelayAssumption
  <2> QED
    BY <2>1, <2>2, MaxAttemptsAssumption DEF MayRetry, NULL, RowConsistent
<1>3. category # "none"
  BY DEF Categories
<1>4. RowConsistent'
  <2> SUFFICES ASSUME NEW j \in Jobs
               PROVE  /\ j \in snapshots' <=> status'[j] = "completed"
                      /\ status'[j] = "running" <=> worker_id'[j] # NoWorker
                      /\ status'[j] = "running" <=> lease_expires_at'[j] # NULL
                      /\ status'[j] = "retry_wait" <=> next_attempt_at'[j] # NULL
                      /\ status'[j] = "retry_wait" => last_error'[j] = "infrastructure"
                      /\ status'[j] = "failed" => last_error'[j] # "none"
                      /\ status'[j] = "completed" => last_error'[j] = "none"
                      /\ status'[j] = "failed" /\ last_error'[j] = "infrastructure" =>
                           attempt_count'[j] = MaxAttempts
    BY DEF RowConsistent
  <2>1. CASE j \in S
    BY <1>1, <1>2, <1>3, <2>1
  <2>2. CASE j \notin S
    BY <1>1, <2>2 DEF RowConsistent
  <2> QED
    BY <2>1, <2>2
<1> QED
  BY <1>1, <1>4

\* A claim makes the worker the one on the attempt it starts.
LEMMA ClaimOwned ==
  ASSUME IInv, RowsAreOwned, NEW w \in Workers, claim(w)
  PROVE  RowsAreOwned'
<1> DEFINE j == JobOf(w)
<1>0. j \in Jobs /\ pc[w] = "claim"
  BY HeldFacts DEF claim
<1>A. CASE ~ Claimable(j)
  <2>1. UNCHANGED jobVars /\ pc' = [pc EXCEPT ![w] = "ack"] /\ UNCHANGED <<held, claimed>>
    BY <1>A DEF claim, Goto, jobVars
  <2>2. \A v \in Workers : pc'[v] \in {"run", "complete", "fail"} => Working(v)
    BY <2>1 DEF Working, IInv, TypeOK
  <2>3. OneOwner'
    BY <2>1, <2>2, OwnersKept DEF jobVars, RowsAreOwned
  <2> QED
    BY <2>1, <2>3 DEF jobVars, RowsAreOwned, RowConsistent
<1>B. CASE Claimable(j)
  <2>1. /\ status[j] \in Waiting /\ attempt_count[j] \in 0 .. MaxAttempts - 1
        /\ status'[j] = "running" /\ attempt_count'[j] = attempt_count[j] + 1
        /\ worker_id'[j] = w /\ lease_expires_at'[j] = LeaseSeconds /\ next_attempt_at'[j] = NULL
        /\ \A i \in Jobs \ {j} : /\ status'[i] = status[i] /\ worker_id'[i] = worker_id[i]
                                 /\ attempt_count'[i] = attempt_count[i]
                                 /\ lease_expires_at'[i] = lease_expires_at[i]
                                 /\ next_attempt_at'[i] = next_attempt_at[i]
        /\ UNCHANGED <<last_error, snapshots>>
    BY <1>0, <1>B, MaxAttemptsAssumption
    DEF claim, Claimable, Waiting, NextAttempt, IInv, TypeOK, Shape
  <2>2. /\ \A v \in Workers \ {w} : pc'[v] = pc[v] /\ held'[v] = held[v] /\ claimed'[v] = claimed[v]
        /\ \/ pc'[w] = "idle"
           \/ pc'[w] = "run" /\ held'[w] = held[w] /\ claimed'[w] = attempt_count[j] + 1
    BY <1>B DEF claim, NextAttempt, Leave, IInv, TypeOK
  <2>3. RowConsistent'
    <3>1. w # NoWorker /\ LeaseSeconds # NULL
      BY WorkersAssumption, LeaseAssumption DEF NULL
    <3> QED
      BY <1>0, <2>1, <3>1 DEF RowsAreOwned, RowConsistent, Waiting
  <2>4. ASSUME NEW v \in Workers \ {w}, Working(v)'
        PROVE  /\ Working(v) /\ JobOf(v)' = JobOf(v) /\ claimed'[v] = claimed[v]
               /\ JobOf(v) \in Jobs /\ claimed[v] \in 1 .. attempt_count[JobOf(v)]
               /\ Owns(v, JobOf(v)) => claimed[v] = attempt_count[JobOf(v)]
    <3>1. Working(v) /\ JobOf(v)' = JobOf(v) /\ claimed'[v] = claimed[v]
      BY <2>2, <2>4 DEF Working, JobOf
    <3> QED
      BY <3>1, HeldFacts DEF Working, RowsAreOwned, OneOwner, OwnerOnCurrentAttempt
  <2>5. ASSUME Working(w)'
        PROVE  JobOf(w)' = j /\ claimed'[w] = attempt_count[j] + 1
    BY <2>2, <2>5 DEF Working, JobOf
  <2>6. OwnerOnCurrentAttempt'
    <3> SUFFICES ASSUME NEW v \in Workers, Working(v)'
                 PROVE  /\ claimed'[v] \in 1 .. attempt_count'[JobOf(v)']
                        /\ status'[JobOf(v)'] = "running" /\ worker_id'[JobOf(v)'] = v
                             => claimed'[v] = attempt_count'[JobOf(v)']
      BY DEF OwnerOnCurrentAttempt, Owns
    <3>1. CASE v = w
      BY <2>1, <2>5, <3>1, MaxAttemptsAssumption
    <3>2. CASE v # w /\ JobOf(v) = j
      BY <2>1, <2>4, <3>2, MaxAttemptsAssumption
    <3>3. CASE v # w /\ JobOf(v) # j
      BY <2>1, <2>4, <3>3 DEF Owns
    <3> QED
      BY <3>1, <3>2, <3>3
  <2>7. OneWorkerPerAttempt'
    <3>1. ASSUME NEW v \in Workers \ {w}, Working(v)', Working(w)', JobOf(v)' = JobOf(w)'
          PROVE  claimed'[v] # claimed'[w]
      BY <2>1, <2>4, <2>5, <3>1
    <3>2. ASSUME NEW v \in Workers \ {w}, NEW u \in Workers \ {w}, Working(v)', Working(u)',
                 JobOf(v)' = JobOf(u)', claimed'[v] = claimed'[u]
          PROVE  v = u
      BY <2>4, <3>2 DEF RowsAreOwned, OneOwner, OneWorkerPerAttempt
    <3> QED
      BY <3>1, <3>2 DEF OneWorkerPerAttempt
  <2> QED
    BY <2>3, <2>6, <2>7 DEF RowsAreOwned, OneOwner
<1> QED
  BY <1>A, <1>B

\* Every step keeps the rows consistent and owned.
LEMMA OwnedStep == IInv /\ RowsAreOwned /\ [Next]_vars => RowsAreOwned'
<1> SUFFICES ASSUME IInv, RowsAreOwned, [Next]_vars PROVE RowsAreOwned'
  OBVIOUS
<1>0. \A v \in Workers : pc[v] \in {"run", "complete", "fail"} => Working(v)
  BY DEF Working
<1>1. ASSUME NEW j \in Jobs, create(j) PROVE RowsAreOwned'
  <2>1. /\ status[j] = "absent" /\ status' = [status EXCEPT ![j] = "queued"]
        /\ UNCHANGED <<attempt_count, worker_id, lease_expires_at, next_attempt_at,
                       last_error, snapshots, pc, held, claimed>>
    BY <1>1 DEF create, workerVars
  <2>2. OneOwner'
    BY <1>0, <2>1, OwnersKept DEF RowsAreOwned, IInv, TypeOK
  <2> QED
    BY <2>1, <2>2 DEF RowsAreOwned, RowConsistent, IInv, TypeOK
<1>2. ASSUME NEW S \in SUBSET Stale, recover_stale(S) PROVE RowsAreOwned'
  <2>1. /\ S \in SUBSET Jobs /\ (\A j \in S : status[j] = "running")
        /\ "infrastructure" \in Categories
        /\ GiveUpAttempt(S, "infrastructure", "infrastructure" = "infrastructure")
        /\ UNCHANGED <<pc, held, claimed>>
    BY <1>2 DEF recover_stale, Stale, Categories, workerVars
  <2>2. /\ RowConsistent' /\ attempt_count' = attempt_count
        /\ \A j \in Jobs : status'[j] = "running" =>
             status[j] = "running" /\ worker_id'[j] = worker_id[j]
    BY <2>1, GiveUpConsistent DEF RowsAreOwned
  <2> QED
    BY <1>0, <2>1, <2>2, OwnersKept DEF RowsAreOwned
<1>3. ASSUME NEW w \in Workers, claim(w) PROVE RowsAreOwned'
  BY <1>3, ClaimOwned
<1>4. ASSUME NEW w \in Workers, renew_lease(w) PROVE RowsAreOwned'
  <2>1. JobOf(w) \in Jobs
    BY <1>4, HeldFacts DEF renew_lease
  <2>2. UNCHANGED <<status, attempt_count, worker_id, next_attempt_at, last_error, snapshots,
                    pc, held, claimed>>
    BY <1>4 DEF renew_lease
  <2>3. \A j \in Jobs : \/ lease_expires_at'[j] = lease_expires_at[j]
                        \/ lease_expires_at'[j] # NULL /\ status[j] = "running"
    BY <1>4, <2>1, LeaseAssumption DEF renew_lease, Owns, NULL, IInv, TypeOK
  <2>4. OneOwner'
    BY <1>0, <2>2, OwnersKept DEF RowsAreOwned
  <2> QED
    BY <2>2, <2>3, <2>4 DEF RowsAreOwned, RowConsistent
<1>5. ASSUME NEW w \in Workers, complete(w) PROVE RowsAreOwned'
  <2>1. /\ pc[w] = "complete" /\ JobOf(w) \in Jobs
        /\ Reply(w, "ack") \/ (Leave(w) /\ UNCHANGED faults)
        /\ UNCHANGED <<attempt_count, next_attempt_at>>
    BY <1>5, HeldFacts DEF complete
  <2>2. \A v \in Workers : pc'[v] \in {"run", "complete", "fail"} =>
          Working(v) /\ held'[v] = held[v] /\ claimed'[v] = claimed[v]
    BY <2>1 DEF Reply, Goto, Leave, Working, IInv, TypeOK
  <2>3. CASE UNCHANGED <<status, worker_id, lease_expires_at, last_error, snapshots>>
    BY <2>1, <2>2, <2>3, OwnersKept DEF RowsAreOwned, RowConsistent
  <2>4. CASE Owns(w, JobOf(w)) /\ StoreResult(JobOf(w))
    <3>1. /\ status[JobOf(w)] = "running" /\ status'[JobOf(w)] = "completed"
          /\ worker_id'[JobOf(w)] = NoWorker /\ lease_expires_at'[JobOf(w)] = NULL
          /\ last_error'[JobOf(w)] = "none" /\ snapshots' = snapshots \cup {JobOf(w)}
          /\ \A i \in Jobs \ {JobOf(w)} : /\ status'[i] = status[i]
                                          /\ worker_id'[i] = worker_id[i]
                                          /\ lease_expires_at'[i] = lease_expires_at[i]
                                          /\ last_error'[i] = last_error[i]
      BY <2>1, <2>4 DEF StoreResult, Owns, IInv, TypeOK
    <3>2. RowConsistent'
      BY <2>1, <3>1 DEF RowsAreOwned, RowConsistent
    <3>3. \A i \in Jobs : status'[i] = "running" =>
            status[i] = "running" /\ worker_id'[i] = worker_id[i]
      BY <3>1
    <3> QED
      BY <2>1, <2>2, <3>2, <3>3, OwnersKept DEF RowsAreOwned
  <2> QED
    BY <1>5, <2>3, <2>4 DEF complete
<1>6. ASSUME NEW w \in Workers, record_failure(w) PROVE RowsAreOwned'
  <2>1. /\ pc[w] = "fail" /\ JobOf(w) \in Jobs /\ error[w] \in Categories
        /\ Reply(w, "ack") \/ (Leave(w) /\ UNCHANGED faults)
    BY <1>6, HeldFacts DEF record_failure, IInv, TypeOK, Shape
  <2>2. \A v \in Workers : pc'[v] \in {"run", "complete", "fail"} =>
          Working(v) /\ held'[v] = held[v] /\ claimed'[v] = claimed[v]
    BY <2>1 DEF Reply, Goto, Leave, Working, IInv, TypeOK
  <2>3. CASE UNCHANGED jobVars
    BY <2>2, <2>3, OwnersKept DEF jobVars, RowsAreOwned, RowConsistent
  <2>4. CASE /\ Owns(w, JobOf(w))
             /\ GiveUpAttempt({JobOf(w)}, error[w], error[w] = "infrastructure")
    <3>1. {JobOf(w)} \in SUBSET Jobs /\ \A j \in {JobOf(w)} : status[j] = "running"
      BY <2>1, <2>4 DEF Owns
    <3>2. /\ RowConsistent' /\ attempt_count' = attempt_count
          /\ \A j \in Jobs : status'[j] = "running" =>
               status[j] = "running" /\ worker_id'[j] = worker_id[j]
      BY <2>1, <2>4, <3>1, GiveUpConsistent DEF RowsAreOwned
    <3> QED
      BY <2>2, <3>2, OwnersKept DEF RowsAreOwned
  <2> QED
    BY <1>6, <2>3, <2>4 DEF record_failure
<1>7. CASE Tick
  <2>1. UNCHANGED <<status, attempt_count, worker_id, last_error, snapshots, pc, held, claimed>>
    BY <1>7 DEF Tick, workerVars
  <2>2. \A j \in Jobs : /\ lease_expires_at'[j] = NULL <=> lease_expires_at[j] = NULL
                        /\ next_attempt_at'[j] = NULL <=> next_attempt_at[j] = NULL
    BY <1>7, LeaseAssumption DEF Tick, CountDown, NULL, Expired, IInv, TypeOK
  <2>3. OneOwner'
    BY <1>0, <2>1, OwnersKept DEF RowsAreOwned
  <2> QED
    BY <2>1, <2>2, <2>3 DEF RowsAreOwned, RowConsistent
<1>8. ASSUME UNCHANGED jobVars,
             \A v \in Workers : pc'[v] \in {"run", "complete", "fail"} =>
               Working(v) /\ held'[v] = held[v] /\ claimed'[v] = claimed[v]
      PROVE  RowsAreOwned'
  BY <1>8, OwnersKept DEF jobVars, RowsAreOwned, RowConsistent
<1>9. ASSUME NEW p \in Publishers, PublisherStep(p) \/ FailRound(p) PROVE RowsAreOwned'
  <2>1. UNCHANGED jobVars /\ UNCHANGED <<pc, held, claimed>>
    BY <1>9 DEF PublisherStep, FailRound, ready_outbox, enqueue, mark_outbox_published,
                mark_outbox_failed, workerVars
  <2> QED
    BY <1>0, <1>8, <2>1
<1>10. ASSUME NEW w \in Workers,
              Fetch(w) \/ get(w) \/ Evaluate(w) \/ acknowledge(w) \/ LoseConnection(w) \/ CrashWorker(w)
       PROVE  RowsAreOwned'
  <2>1. UNCHANGED jobVars
    BY <1>10 DEF Fetch, consume, reclaim, get, Evaluate, acknowledge, LoseConnection, CrashWorker
  <2>2. \A v \in Workers : pc'[v] \in {"run", "complete", "fail"} =>
          Working(v) /\ held'[v] = held[v] /\ claimed'[v] = claimed[v]
    <3>1. CASE Evaluate(w)
      BY <3>1 DEF Evaluate, Goto, Working, IInv, TypeOK
    <3>2. CASE get(w)
      BY <3>2 DEF get, Goto, Working, IInv, TypeOK
    <3>3. CASE acknowledge(w) \/ LoseConnection(w) \/ CrashWorker(w)
      BY <3>3 DEF acknowledge, LoseConnection, CrashWorker, Leave, Working, IInv, TypeOK
    <3>4. ASSUME NEW m \in Stream, consume(w, m) \/ reclaim(w, m)
          PROVE  \A v \in Workers : pc'[v] \in {"run", "complete", "fail"} =>
                   Working(v) /\ held'[v] = held[v] /\ claimed'[v] = claimed[v]
      BY <3>4 DEF consume, reclaim, Receive, workerVars, Working, IInv, TypeOK
    <3> QED
      BY <1>10, <3>1, <3>2, <3>3, <3>4 DEF Fetch
  <2> QED
    BY <1>8, <2>1, <2>2
<1>11. CASE UNCHANGED vars
  BY <1>0, <1>8, <1>11 DEF vars, workerVars
<1> QED
  BY <1>1, <1>2, <1>3, <1>4, <1>5, <1>6, <1>7, <1>9, <1>10, <1>11 DEF Next, Process

\* claim, complete, record_failure, recover_stale: whatever is late, lost or done twice,
\* the fields of a row fit its status and its owner is the one worker that is on its
\* current attempt, for any number of jobs, workers, publishers, attempts and faults.
THEOREM RowsStayOwned == Spec => []RowsAreOwned
<1>1. Init => RowsAreOwned
  BY DEF Init, RowsAreOwned, RowConsistent, OneOwner, OwnerOnCurrentAttempt, OneWorkerPerAttempt,
         Working
<1> QED
  BY <1>1, OwnedStep, Invariant, PTL DEF Spec

-----------------------------------------------------------------------------
(* The queue implements LeasedWork. *)

\* What a step does to the row of a job, as LeasedWork sees it.
RowMove(j) ==
  \/ status'[j] = status[j] /\ attempt_count'[j] = attempt_count[j]
  \/ /\ status[j] = "absent" /\ status'[j] = "queued"
     /\ attempt_count'[j] = 0
  \/ /\ status[j] \in Waiting /\ attempt_count[j] < MaxAttempts
     /\ status'[j] = "running" /\ attempt_count'[j] = attempt_count[j] + 1
  \/ /\ status[j] = "running" /\ attempt_count[j] < MaxAttempts
     /\ status'[j] = "retry_wait" /\ attempt_count'[j] = attempt_count[j]
  \/ /\ status[j] = "running" /\ status'[j] \in Terminal
     /\ attempt_count'[j] = attempt_count[j]

\* Giving up an attempt is a move of the abstract row.
LEMMA GiveUpMoves ==
  ASSUME IInv, NEW S \in SUBSET Jobs, \A j \in S : status[j] = "running",
         NEW category, NEW retryable, GiveUpAttempt(S, category, retryable)
  PROVE  \A j \in Jobs : RowMove(j)
BY DEF GiveUpAttempt, MayRetry, RowMove, Terminal, IInv, TypeOK

\* Every step moves each row as the abstract specification allows.
LEMMA RowsMove ==
  ASSUME IInv, [Next]_vars
  PROVE  \A j \in Jobs : RowMove(j)
<1> USE DEF jobVars, IInv, TypeOK, RowMove
<1>1. ASSUME NEW i \in Jobs, create(i) PROVE \A j \in Jobs : RowMove(j)
  BY <1>1 DEF create, Shape
<1>2. ASSUME NEW S \in SUBSET Stale, recover_stale(S) PROVE \A j \in Jobs : RowMove(j)
  BY <1>2, GiveUpMoves DEF recover_stale, Stale
<1>3. ASSUME NEW w \in Workers, claim(w) PROVE \A j \in Jobs : RowMove(j)
  <2>1. JobOf(w) \in Jobs
    BY <1>3, HeldFacts DEF claim
  <2> QED
    BY <1>3, <2>1 DEF claim, Claimable, NextAttempt, Waiting, Shape
<1>4. ASSUME NEW w \in Workers, complete(w) PROVE \A j \in Jobs : RowMove(j)
  BY <1>4 DEF complete, StoreResult, Owns, Terminal
<1>5. ASSUME NEW w \in Workers, record_failure(w) PROVE \A j \in Jobs : RowMove(j)
  <2>1. {JobOf(w)} \in SUBSET Jobs
    BY <1>5, HeldFacts DEF record_failure
  <2>2. CASE Owns(w, JobOf(w))
    BY <1>5, <2>1, <2>2, GiveUpMoves DEF record_failure, Owns
  <2>3. CASE ~ Owns(w, JobOf(w))
    BY <1>5, <2>3 DEF record_failure
  <2> QED
    BY <2>2, <2>3
<1>6. CASE UNCHANGED <<status, attempt_count>>
  BY <1>6
<1>7. \/ \E j \in Jobs : create(j)
      \/ \E S \in SUBSET Stale : recover_stale(S)
      \/ \E w \in Workers : claim(w) \/ complete(w) \/ record_failure(w)
      \/ UNCHANGED <<status, attempt_count>>
  BY DEF Next, vars, PublisherStep, FailRound, Fetch, Process, Tick,
         ready_outbox, enqueue, mark_outbox_published, mark_outbox_failed,
         consume, reclaim, get, Evaluate, renew_lease, acknowledge,
         LoseConnection, CrashWorker
<1> QED
  BY <1>1, <1>2, <1>3, <1>4, <1>5, <1>6, <1>7

\* Initial states map to initial states.
LEMMA InitRefines == Init => Abstract!Init
BY DEF Init, Abstract!Init, PhaseOf, Waiting

\* Every step maps to a step or a stutter.
LEMMA StepRefines == IInv /\ IInv' /\ [Next]_vars => Abstract!Next
<1> SUFFICES ASSUME IInv, IInv', [Next]_vars PROVE Abstract!Next
  OBVIOUS
<1>1. /\ [j \in Jobs |-> PhaseOf(status'[j])] \in [Jobs -> Abstract!Phases]
      /\ attempt_count' \in [Jobs -> Nat]
  BY MaxAttemptsAssumption DEF IInv, TypeOK, Statuses, Waiting, PhaseOf, Abstract!Phases
<1>2. ASSUME NEW j \in Jobs PROVE Abstract!Move(j)
  BY RowsMove DEF RowMove, IInv, TypeOK, PhaseOf, Waiting, Terminal, Abstract!Move,
     Abstract!Submit, Abstract!Start, Abstract!GiveBack, Abstract!Finish, Abstract!Keep
<1> QED
  BY <1>1, <1>2 DEF Abstract!Next

\* Whatever crashes, races and lost requests, the queue gives every job at most
\* MaxAttempts attempts, one at a time, and a final outcome.
THEOREM Refinement == Spec => ImplementsLeasedWork
<1>1. IInv /\ IInv' /\ [Next]_vars => [Abstract!Next]_Abstract!vars
  BY StepRefines
<1> QED
  BY <1>1, InitRefines, Invariant, PTL DEF Spec, ImplementsLeasedWork, Abstract!Spec

=============================================================================
