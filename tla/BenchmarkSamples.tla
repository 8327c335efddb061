------------------------- MODULE BenchmarkSamples -------------------------
(***************************************************************************)
(* The benchmark queue: one benchmark run and its samples in PostgreSQL    *)
(* (app/benchmarks/repositories.py), their outbox rows and Redis stream    *)
(* (app/benchmarks/queue.py), and the worker that generates a solution,    *)
(* stores it as an artifact and evaluates it under a lease that it must    *)
(* keep confirming (app/benchmarks/worker.py).                             *)
(*                                                                         *)
(* It differs from EvaluationJobs where the code does: two stages with a   *)
(* durable artifact between them, a lease that ends at its expiry, work    *)
(* that is cancelled with the lease, and a run that ends with its samples. *)
(* dispatch_once is the code of EvaluationJobs and is modelled per outbox  *)
(* row here, whoever publishes it.  Times are times left, as there.        *)
(*                                                                         *)
(* A definition with a suffix, as load_Always, is a mistaken form of       *)
(* the one that follows it; Next does not use it.                          *)
(***************************************************************************)
EXTENDS Integers

CONSTANTS
  Samples,         \* benchmark_sample_ids of the run
  Workers,         \* worker_ids; a restarted process has new ones
  Replaces,        \* the worker_ids that a process takes the place of when it starts
  NoWorker,        \* SQL NULL in worker_id
  MaxAttempts,     \* max_attempts of a sample
  LeaseSeconds,    \* lease_seconds, in ticks
  RetryBaseDelay,  \* retry_base_delay_seconds, in ticks
  MaxFaults        \* bound on crashes, lost or failed requests, duplicates

ASSUME WorkersAssumption == NoWorker \notin Workers
ASSUME ReplacesAssumption == Replaces \in [Workers -> SUBSET Workers]
ASSUME MaxAttemptsAssumption == MaxAttempts \in Nat \ {0}
ASSUME LeaseAssumption == LeaseSeconds \in Nat \ {0}
ASSUME FaultsAssumption == MaxFaults \in Nat

NULL == -2      \* SQL NULL in lease_expires_at
Expired == -1   \* an expiry that lies in the past

Waiting == {"queued", "generated"}
Active == {"generating", "evaluating"}
Terminal == {"completed", "generation_failed", "evaluation_failed", "skipped"}
Statuses == {"absent"} \cup Waiting \cup Active \cup Terminal

RunTerminal == {"completed", "partial"}

\* How _process_claimed sees the exception it ends with.
Errors == {"provider_transient", "provider_permanent", "infrastructure", "worker"}
Retryable == {"provider_transient", "infrastructure"}
Generation == {"provider_transient", "provider_permanent"}

\* The outbox row written when a sample has made k attempts is <<s, k>>, and
\* the c-th stream entry made of the row e is <<e, c>>.
Events == Samples \X (0 .. MaxAttempts - 1)
NoMessage == <<>>

\* A generated source is named by the attempt that generated it.
Sources == 1 .. MaxAttempts
NoSource == 0

VARIABLES
  \* benchmark_samples, benchmark_generation_artifacts, evaluations, benchmark_runs
  status, attempt_count, worker_id, lease_expires_at, artifact, evaluation,
  run_status,
  \* benchmark_outbox_events
  outbox, outbox_due, outbox_attempts,
  \* Redis: the entries added, those read by the group, those acknowledged, and those
  \* that a restart has lost
  added, delivered, acked, lost,
  \* workers: known is the time left of the lease the worker has confirmed
  pc, held, claimed, known, source, error,
  faults

sampleVars == <<status, attempt_count, worker_id, lease_expires_at, artifact, evaluation>>
outboxVars == <<outbox, outbox_due, outbox_attempts>>
streamVars == <<added, delivered, acked, lost>>
workerVars == <<pc, held, claimed, known, source, error>>
vars == <<sampleVars, run_status, outboxVars, streamVars, workerVars, faults>>

-----------------------------------------------------------------------------
(* Helpers *)

retry_delay_seconds(attempt) == RetryBaseDelay * 3 ^ (attempt - 1)

ASSUME DelayAssumption ==
  /\ RetryBaseDelay \in Nat
  /\ \A attempt \in 1 .. MaxAttempts : retry_delay_seconds(attempt) \in Nat

SampleOf(w) == held[w][1][1]

\* The states of _process_claimed, which the heartbeat runs beside.
Processing(w) == pc[w] \in {"load", "generate", "store", "evaluate", "complete", "fail"}

\* A request fails, a reply is lost, or a process dies.
Fault ==
  /\ faults < MaxFaults
  /\ faults' = faults + 1

\* The worker leaves process_message; the message stays as it is.
Leave(w) ==
  /\ pc' = [pc EXCEPT ![w] = "idle"]
  /\ held' = [held EXCEPT ![w] = NoMessage]
  /\ claimed' = [claimed EXCEPT ![w] = 0]
  /\ known' = [known EXCEPT ![w] = 0]
  /\ source' = [source EXCEPT ![w] = NoSource]
  /\ error' = [error EXCEPT ![w] = "none"]

Goto(w, label) ==
  /\ pc' = [pc EXCEPT ![w] = label]
  /\ UNCHANGED <<held, claimed, known, source, error>>

\* _run_with_lease returns that the outcome is recorded, and the heartbeat ends.
Done(w) ==
  /\ pc' = [pc EXCEPT ![w] = "ack"]
  /\ claimed' = [claimed EXCEPT ![w] = 0]
  /\ known' = [known EXCEPT ![w] = 0]
  /\ source' = [source EXCEPT ![w] = NoSource]
  /\ error' = [error EXCEPT ![w] = "none"]
  /\ UNCHANGED held

\* _process_claimed reaches one of its exception handlers.
Raise(w, e) ==
  /\ pc' = [pc EXCEPT ![w] = "fail"]
  /\ error' = [error EXCEPT ![w] = e]
  /\ UNCHANGED <<held, claimed, known, source>>

\* The reply to the transaction that records the outcome arrives, or
\* PersistenceError, or the cancellation by the heartbeat, comes first.
Recorded(w) ==
  \/ Done(w) /\ UNCHANGED faults
  \/ Leave(w) /\ Fault

\* What _finish_run_if_terminal makes of the run, given the samples' statuses.
\* The locks that make it one step are the subject of RunFinalization.
FinishRun(statuses) ==
  IF \A s \in Samples : statuses[s] \in Terminal
  THEN IF \E s \in Samples : statuses[s] = "skipped" THEN "partial" ELSE "completed"
  ELSE run_status

Stale_MayRetry == {s \in Samples : status[s] \in Active /\ lease_expires_at[s] = Expired
                                   /\ attempt_count[s] < MaxAttempts}
Stale_AtAnyTime == {s \in Samples : status[s] \in Active}
Stale == {s \in Samples : status[s] \in Active /\ lease_expires_at[s] = Expired}

Claimable_NotGenerated(s) == status[s] = "queued"
Claimable_TakesOver(s) == status[s] \in Waiting \/ s \in Stale
Claimable(s) == status[s] \in Waiting

MayRetry(s) == attempt_count[s] < MaxAttempts

\* A sample keeps its artifact from one attempt to the next.
Resume(s) == IF artifact[s] # NoSource THEN "generated" ELSE "queued"

OutboxReady_Early(e) == outbox[e] = "unpublished"
OutboxReady(e) == outbox[e] = "unpublished" /\ outbox_due[e] <= 0

Entries == UNION {{e} \X (1 .. added[e]) : e \in Events}
Stream == Entries \ lost

\* The notification for the attempt that a sample waits for was lost.
Lost(s) == \E m \in lost : m[1] = <<s, attempt_count[s]>>

Owns(w, s) == status[s] \in Active /\ worker_id[s] = w

\* What a claim or a renewal writes into lease_expires_at.
NewExpiry(s) == LeaseSeconds

Renewable(w, s) == Owns(w, s) /\ lease_expires_at[s] > 0

\* The worker asks for a renewal only before the expiry that it knows.
MayRenew(w, s) == known[w] > 0 /\ Renewable(w, s)

\* _owns_active_benchmark_lease compares the expiry with a clock that the worker
\* read before it waited for the row, so a lease that has expired meanwhile is
\* accepted or refused.
MayWrite_AnyWorker(w, s) == status[s] \in Active
MayWrite(w, s) == Owns(w, s)
MayRefuse(w, s) == ~ Renewable(w, s)

Init ==
  /\ status = [s \in Samples |-> "absent"]
  /\ attempt_count = [s \in Samples |-> 0]
  /\ worker_id = [s \in Samples |-> NoWorker]
  /\ lease_expires_at = [s \in Samples |-> NULL]
  /\ artifact = [s \in Samples |-> NoSource]
  /\ evaluation = [s \in Samples |-> NoSource]
  /\ run_status = "absent"
  /\ outbox = [e \in Events |-> "absent"]
  /\ outbox_due = [e \in Events |-> 0]
  /\ outbox_attempts = [e \in Events |-> 0]
  /\ added = [e \in Events |-> 0]
  /\ delivered = {}
  /\ acked = {}
  /\ lost = {}
  /\ pc = [w \in Workers |-> "idle"]
  /\ held = [w \in Workers |-> NoMessage]
  /\ claimed = [w \in Workers |-> 0]
  /\ known = [w \in Workers |-> 0]
  /\ source = [w \in Workers |-> NoSource]
  /\ error = [w \in Workers |-> "none"]
  /\ faults = 0

-----------------------------------------------------------------------------
(* The plan: the run, its samples and their outbox rows in one transaction. *)

create_plan ==
  /\ run_status = "absent"
  /\ run_status' = "queued"
  /\ status' = [s \in Samples |-> "queued"]
  /\ outbox' = [e \in Events |-> IF e[2] = 0 THEN "unpublished" ELSE "absent"]
  /\ UNCHANGED <<attempt_count, worker_id, lease_expires_at, artifact, evaluation,
                 outbox_due, outbox_attempts, streamVars, workerVars, faults>>

-----------------------------------------------------------------------------
(* dispatch_once.  A row is published twice when two publishers read it, or *)
(* when one fails between XADD and its mark.                                *)

enqueue(e) ==
  /\ \/ OutboxReady(e) /\ added[e] = 0 /\ UNCHANGED faults
     \/ added[e] > 0 /\ Fault
  /\ added' = [added EXCEPT ![e] = @ + 1]
  /\ UNCHANGED <<sampleVars, run_status, outboxVars, delivered, acked, lost, workerVars>>

mark_outbox_published(e) ==
  /\ outbox[e] = "unpublished"
  /\ added[e] > 0
  /\ outbox' = [outbox EXCEPT ![e] = "published"]
  /\ outbox_attempts' = [outbox_attempts EXCEPT ![e] = @ + 1]
  /\ UNCHANGED <<sampleVars, run_status, outbox_due, streamVars, workerVars, faults>>

\* XADD raised, whether or not it added the entry.
mark_outbox_failed(e) ==
  /\ OutboxReady(e)
  /\ Fault
  /\ outbox_attempts' = [outbox_attempts EXCEPT ![e] = @ + 1]
  /\ outbox_due' = [outbox_due EXCEPT ![e] = retry_delay_seconds(outbox_attempts'[e])]
  /\ UNCHANGED <<sampleVars, run_status, outbox, streamVars, workerVars>>

\* The attempts of the samples in S end without a result: final is the status of
\* those that may not be tried again.
GiveUpAttempt(S, retryable, final) ==
  LET again == {s \in S : retryable /\ MayRetry(s)}
      delay == [s \in Samples |-> retry_delay_seconds(attempt_count[s])]
      event == {<<s, attempt_count[s]>> : s \in again}
  IN /\ status' = [s \in Samples |-> IF s \in again THEN Resume(s)
                                     ELSE IF s \in S THEN final ELSE status[s]]
     /\ worker_id' = [s \in Samples |-> IF s \in S THEN NoWorker ELSE worker_id[s]]
     /\ lease_expires_at' = [s \in Samples |-> IF s \in S THEN NULL ELSE lease_expires_at[s]]
     /\ outbox' = [e \in Events |-> IF e \in event THEN "unpublished" ELSE outbox[e]]
     /\ outbox_due' = [e \in Events |-> IF e \in event THEN delay[e[1]] ELSE outbox_due[e]]
     /\ run_status' = IF S \subseteq again THEN run_status ELSE FinishRun(status')
     /\ UNCHANGED <<attempt_count, artifact, evaluation, outbox_attempts>>

\* SKIP LOCKED passes over rows that another transaction holds.
recover_stale(S) ==
  /\ S # {}
  /\ \/ S = Stale /\ UNCHANGED faults
     \/ S # Stale /\ Fault
  /\ GiveUpAttempt(S, TRUE, "skipped")
  /\ UNCHANGED <<streamVars, workerVars>>

-----------------------------------------------------------------------------
(* The worker: process_message. *)

Receive(w, m) ==
  /\ pc' = [pc EXCEPT ![w] = "claim"]
  /\ held' = [held EXCEPT ![w] = m]
  /\ UNCHANGED <<claimed, known, source, error>>

\* XREADGROUP: the reply with the message may be lost.
consume(w, m) ==
  /\ pc[w] = "idle"
  /\ m \in Stream \ delivered
  /\ delivered' = delivered \cup {m}
  /\ \/ Receive(w, m) /\ UNCHANGED faults
     \/ UNCHANGED workerVars /\ Fault
  /\ UNCHANGED <<sampleVars, run_status, outboxVars, added, acked, lost>>

\* XAUTOCLAIM: idle time runs from the delivery, so the message of a busy worker
\* may be taken too.
reclaim(w, m) ==
  /\ pc[w] = "idle"
  /\ m \in delivered \ acked
  /\ Receive(w, m)
  /\ UNCHANGED <<sampleVars, run_status, outboxVars, streamVars, faults>>

\* get_sample only spares a terminal sample the claim, which refuses it as well:
\* terminal statuses do not change, and the two are one step.
claim(w) ==
  LET s == SampleOf(w)
      attempt == attempt_count[s] + 1
  IN /\ pc[w] = "claim"
     /\ \/ /\ Claimable(s)
           /\ status' = [status EXCEPT ![s] = IF artifact[s] # NoSource THEN "evaluating"
                                              ELSE "generating"]
           /\ attempt_count' = [attempt_count EXCEPT ![s] = attempt]
           /\ worker_id' = [worker_id EXCEPT ![s] = w]
           /\ lease_expires_at' = [lease_expires_at EXCEPT ![s] = NewExpiry(s)]
           /\ run_status' = IF run_status = "queued" THEN "running" ELSE run_status
           /\ \/ /\ pc' = [pc EXCEPT ![w] = "confirm"]
                 /\ claimed' = [claimed EXCEPT ![w] = attempt]
                 /\ known' = [known EXCEPT ![w] = LeaseSeconds]
                 /\ UNCHANGED <<held, source, error, faults>>
              \/ Leave(w) /\ Fault
        \/ /\ ~ Claimable(s)
           /\ Goto(w, "ack")
           /\ UNCHANGED <<status, attempt_count, worker_id, lease_expires_at, run_status, faults>>
     /\ UNCHANGED <<artifact, evaluation, outboxVars, streamVars>>

\* _renew_before_expiry: before the work starts (confirm) and then beside it.
\* A renewal that commits without its reply leaves the worker with the expiry it
\* knew; one that fails without effect is a step that was not taken.  The request
\* ends with the time that is left (asyncio.timeout), so the expiry is compared
\* with the clock of the commit.
renew_lease(w) ==
  LET s == SampleOf(w)
  IN /\ pc[w] = "confirm" \/ Processing(w)
     /\ MayRenew(w, s)
     /\ lease_expires_at' = [lease_expires_at EXCEPT ![s] = NewExpiry(s)]
     /\ \/ /\ known' = [known EXCEPT ![w] = LeaseSeconds]
           /\ pc' = [pc EXCEPT ![w] = IF @ = "confirm" THEN "load" ELSE @]
           /\ UNCHANGED faults
        \/ Fault /\ UNCHANGED <<pc, known>>
     /\ UNCHANGED <<status, attempt_count, worker_id, artifact, evaluation, run_status,
                    outboxVars, streamVars, held, claimed, source, error>>

\* _run_with_lease: the repository refuses the renewal or the known expiry has
\* come.  The work is cancelled and the message is not acknowledged.
LoseLease(w) ==
  /\ pc[w] = "confirm" \/ Processing(w)
  /\ ~ MayRenew(w, SampleOf(w))
  /\ Leave(w)
  /\ UNCHANGED <<sampleVars, run_status, outboxVars, streamVars, faults>>

\* The run, its configuration and the identities are checked, then the artifact
\* is read.  Anything that is not refused by name ends in the last handler.
load_Always(w) ==
  /\ pc[w] = "load"
  /\ Goto(w, "generate") \/ Raise(w, "infrastructure") \/ Raise(w, "worker")
  /\ UNCHANGED <<sampleVars, run_status, outboxVars, streamVars, faults>>

load(w) ==
  LET s == SampleOf(w)
  IN /\ pc[w] = "load"
     /\ \/ Raise(w, "infrastructure") \/ Raise(w, "worker")
        \/ artifact[s] = NoSource /\ Goto(w, "generate")
        \/ /\ artifact[s] # NoSource
           /\ pc' = [pc EXCEPT ![w] = "evaluate"]
           /\ source' = [source EXCEPT ![w] = artifact[s]]
           /\ UNCHANGED <<held, claimed, known, error>>
     /\ UNCHANGED <<sampleVars, run_status, outboxVars, streamVars, faults>>

\* _generate: every call to the provider yields a source of its own.
generate(w) ==
  /\ pc[w] = "generate"
  /\ \/ /\ pc' = [pc EXCEPT ![w] = "store"]
        /\ source' = [source EXCEPT ![w] = claimed[w]]
        /\ UNCHANGED <<held, claimed, known, error>>
     \/ \E e \in Generation \cup {"worker"} : Raise(w, e)
  /\ UNCHANGED <<sampleVars, run_status, outboxVars, streamVars, faults>>

\* The code also accepts an artifact that is stored already with the same hash; its
\* owner never meets one, since only the owner stores and load skips the
\* generation of a stored one (NoSecondGeneration).
store_artifact(w) ==
  LET s == SampleOf(w)
      stored == artifact[s] = NoSource /\ status[s] = "generating"
  IN /\ pc[w] = "store"
     /\ \/ /\ MayWrite(w, s)
           /\ stored
           /\ artifact' = [artifact EXCEPT ![s] = source[w]]
           /\ status' = [status EXCEPT ![s] = "evaluating"]
           /\ \/ Goto(w, "evaluate") /\ UNCHANGED faults
              \/ Leave(w) /\ Fault
        \/ /\ MayRefuse(w, s) \/ ~ stored
           /\ Leave(w)
           /\ UNCHANGED <<artifact, status, faults>>
     /\ UNCHANGED <<attempt_count, worker_id, lease_expires_at, evaluation, run_status,
                    outboxVars, streamVars>>

\* get_snapshot and evaluate_snapshot.
evaluate_snapshot(w) ==
  /\ pc[w] = "evaluate"
  /\ Goto(w, "complete") \/ Raise(w, "infrastructure") \/ Raise(w, "worker")
  /\ UNCHANGED <<sampleVars, run_status, outboxVars, streamVars, faults>>

\* The evaluation is inserted in the transaction that ends the sample.
complete(w) ==
  LET s == SampleOf(w)
  IN /\ pc[w] = "complete"
     /\ \/ /\ status[s] = "completed"
           /\ Recorded(w)
           /\ UNCHANGED <<status, worker_id, lease_expires_at, evaluation, run_status>>
        \/ /\ MayWrite(w, s)
           /\ status' = [status EXCEPT ![s] = "completed"]
           /\ evaluation' = [evaluation EXCEPT ![s] = source[w]]
           /\ worker_id' = [worker_id EXCEPT ![s] = NoWorker]
           /\ lease_expires_at' = [lease_expires_at EXCEPT ![s] = NULL]
           /\ run_status' = FinishRun(status')
           /\ Recorded(w)
        \/ /\ status[s] # "completed"
           /\ MayRefuse(w, s)
           /\ Leave(w)
           /\ UNCHANGED <<status, worker_id, lease_expires_at, evaluation, run_status, faults>>
     /\ UNCHANGED <<attempt_count, artifact, outboxVars, streamVars>>

record_failure(w) ==
  LET s == SampleOf(w)
      final == IF error[w] \in Generation THEN "generation_failed" ELSE "evaluation_failed"
  IN /\ pc[w] = "fail"
     /\ \/ /\ MayWrite(w, s)
           /\ GiveUpAttempt({s}, error[w] \in Retryable, final)
           /\ Recorded(w)
        \/ /\ MayRefuse(w, s)
           /\ Leave(w)
           /\ UNCHANGED <<sampleVars, run_status, outboxVars, faults>>
     /\ UNCHANGED streamVars

\* XACK of an entry that is not pending has no effect.
acknowledge(w) ==
  /\ pc[w] = "ack"
  /\ acked' = acked \cup ({held[w]} \cap delivered)
  /\ Leave(w)
  /\ UNCHANGED <<sampleVars, run_status, outboxVars, added, delivered, lost, faults>>

\* The database or Redis cannot be reached: the message stays pending.
LoseConnection(w) ==
  /\ pc[w] \in {"claim", "load", "store", "evaluate", "complete", "fail", "ack"}
  /\ Fault
  /\ Leave(w)
  /\ UNCHANGED <<sampleVars, run_status, outboxVars, streamVars>>

\* A restarted process has new worker ids: the old one never returns.
CrashWorker(w) ==
  /\ pc[w] # "dead"
  /\ Fault
  /\ pc' = [pc EXCEPT ![w] = "dead"]
  /\ held' = [held EXCEPT ![w] = NoMessage]
  /\ claimed' = [claimed EXCEPT ![w] = 0]
  /\ known' = [known EXCEPT ![w] = 0]
  /\ source' = [source EXCEPT ![w] = NoSource]
  /\ error' = [error EXCEPT ![w] = "none"]
  /\ UNCHANGED <<sampleVars, run_status, outboxVars, streamVars>>

\* Redis appends its writes to a file, which is on the disk a second later: when it
\* dies, any of the last entries, deliveries and acknowledgements may be forgotten.
RedisRestart ==
  /\ Fault
  /\ \E L \in SUBSET Stream, D \in SUBSET delivered, A \in SUBSET acked :
       /\ lost' = lost \cup L
       /\ delivered' = D \ L
       /\ acked' = A \cap delivered'
  /\ UNCHANGED <<sampleVars, run_status, outboxVars, added, workerVars>>

-----------------------------------------------------------------------------
(* Time *)

CountDown(t, floor) == IF t > floor THEN t - 1 ELSE t

Tick ==
  /\ lease_expires_at' = [s \in Samples |-> CountDown(lease_expires_at[s], Expired)]
  /\ outbox_due' = [e \in Events |-> CountDown(outbox_due[e], 0)]
  /\ known' = [w \in Workers |-> CountDown(known[w], 0)]
  /\ UNCHANGED <<status, attempt_count, worker_id, artifact, evaluation, run_status,
                 outbox, outbox_attempts, streamVars, pc, held, claimed, source, error, faults>>

-----------------------------------------------------------------------------

Publish(e) == enqueue(e) \/ mark_outbox_published(e)

Fetch(w) == \E m \in Stream : consume(w, m) \/ reclaim(w, m)

Process(w) ==
  \/ claim(w)
  \/ load(w)
  \/ generate(w)
  \/ store_artifact(w)
  \/ evaluate_snapshot(w)
  \/ complete(w)
  \/ record_failure(w)
  \/ acknowledge(w)

Heartbeat(w) == renew_lease(w) \/ LoseLease(w)

\* A process that is started again comes after those it replaces.
Started(w) == \A u \in Replaces[w] : pc[u] = "dead"

Next ==
  \/ create_plan
  \/ \E e \in Events : Publish(e) \/ mark_outbox_failed(e)
  \/ \E S \in SUBSET Stale : recover_stale(S)
  \/ \E w \in Workers : /\ Started(w)
                        /\ \/ Fetch(w) \/ Process(w) \/ Heartbeat(w)
                           \/ LoseConnection(w) \/ CrashWorker(w)
  \/ RedisRestart
  \/ Tick

Spec == Init /\ [][Next]_vars

-----------------------------------------------------------------------------
(* Safety *)

\* Every variable has its type.
TypeOK ==
  /\ status \in [Samples -> Statuses]
  /\ attempt_count \in [Samples -> 0 .. MaxAttempts]
  /\ worker_id \in [Samples -> Workers \cup {NoWorker}]
  /\ lease_expires_at \in [Samples -> {NULL, Expired} \cup 0 .. LeaseSeconds]
  /\ artifact \in [Samples -> Sources \cup {NoSource}]
  /\ evaluation \in [Samples -> Sources \cup {NoSource}]
  /\ run_status \in {"absent", "queued", "running"} \cup RunTerminal
  /\ outbox \in [Events -> {"absent", "unpublished", "published"}]
  /\ outbox_due \in [Events -> Int]
  /\ outbox_attempts \in [Events -> Nat]
  /\ added \in [Events -> Nat]
  /\ delivered \subseteq Stream
  /\ acked \subseteq delivered
  /\ lost \subseteq Entries
  /\ pc \in [Workers -> {"idle", "claim", "confirm", "load", "generate", "store",
                         "evaluate", "complete", "fail", "ack", "dead"}]
  /\ held \in [Workers -> Entries \cup {NoMessage}]
  /\ claimed \in [Workers -> 0 .. MaxAttempts]
  /\ known \in [Workers -> 0 .. LeaseSeconds]
  /\ source \in [Workers -> Sources \cup {NoSource}]
  /\ error \in [Workers -> Errors \cup {"none"}]
  /\ faults \in 0 .. MaxFaults

\* A sample that waits for an attempt always has a notification on its way,
\* although any message of it that meets an active sample is acknowledged
\* (process_message) and a message outlives the attempt it started.  The one
\* exception: Redis lost that very notification after its row was marked
\* published, and nothing publishes it again (mark_outbox_published, ready_outbox).
NoStrandedSample ==
  \A s \in Samples : status[s] \in Waiting /\ ~ Lost(s) =>
    \/ outbox[<<s, attempt_count[s]>>] = "unpublished"
    \/ \E m \in Stream \ acked : m[1] = <<s, attempt_count[s]>>

\* A worker that has confirmed a lease and sees time left on it owns the sample,
\* is on its current attempt, and will not be recovered before that time: the
\* worker fails closed, so no two of them ever work on a sample in good faith.
ConfirmedLeaseHolds ==
  \A w \in Workers : known[w] > 0 =>
    /\ Owns(w, SampleOf(w))
    /\ known[w] <= lease_expires_at[SampleOf(w)]
    /\ claimed[w] = attempt_count[SampleOf(w)]

\* The owner of a sample calls the provider only while no artifact is stored: an
\* attempt that follows a stored artifact never pays for a second generation.
NoSecondGeneration ==
  \A w \in Workers : (pc[w] \in {"generate", "store"} /\ Owns(w, SampleOf(w)))
                       => artifact[SampleOf(w)] = NoSource

\* The status of a sample says whether its artifact is stored, and the evaluation
\* of a completed sample is of that artifact, whichever attempts and workers
\* generated, stored and evaluated.
EvaluatesStoredArtifact ==
  \A s \in Samples :
    /\ status[s] \in {"queued", "generating"} => artifact[s] = NoSource
    /\ status[s] \in {"generated", "evaluating", "completed"} => artifact[s] # NoSource
    /\ status[s] = "completed" => evaluation[s] = artifact[s]
    /\ status[s] # "completed" => evaluation[s] = NoSource

\* load, store_artifact, complete: a sample has one artifact, paid
\* for once by its owner, and its result is about that artifact.
OneArtifact == NoSecondGeneration /\ EvaluatesStoredArtifact

-----------------------------------------------------------------------------
(* Actions *)

\* Stale owners neither store nor finalize: an artifact appears, and a sample is
\* completed, only by a step of the worker on the current attempt, and an artifact
\* is never replaced.
OnlyCurrentAttemptWrites ==
  [][\A s \in Samples :
       artifact'[s] # artifact[s] \/ evaluation'[s] # evaluation[s] =>
         /\ artifact[s] \in {NoSource, artifact'[s]}
         /\ \E w \in Workers : /\ Processing(w) /\ pc'[w] # pc[w]
                              /\ SampleOf(w) = s
                              /\ claimed[w] = attempt_count[s]]_vars

\* recover_stale, record_failure: only the outbox row knows the delay before a retry
\* (claim does not), so an attempt that starts before the delay is over was started by
\* a message of an earlier attempt that was delivered again, never by its own.
DelayKeptByOutbox ==
  [][\A s \in Samples :
       /\ attempt_count'[s] > attempt_count[s]
       /\ outbox_attempts[<<s, attempt_count[s]>>] = 0
       /\ outbox_due[<<s, attempt_count[s]>>] > 0
       => \E w \in Workers : /\ pc[w] = "claim" /\ pc'[w] # "claim"
                             /\ SampleOf(w) = s /\ held[w][1][2] < attempt_count[s]]_vars

-----------------------------------------------------------------------------
(* Liveness *)

\* The loops of worker_main.py and the heartbeat run for ever, so every step a
\* live worker or publisher can take is taken, and a process is started in the place
\* of one that died; time passes; faults are finitely many.
Fairness ==
  /\ WF_vars(Tick)
  /\ \A e \in Events : WF_vars(Publish(e))
  /\ WF_vars(\E S \in SUBSET Stale : recover_stale(S))
  /\ \A w \in Workers : /\ WF_vars(Started(w) /\ (Fetch(w) \/ Process(w)))
                        /\ WF_vars(LoseLease(w) \/ (pc[w] = "confirm" /\ renew_lease(w)))

FairSpec == Spec /\ Fairness

\* A run that was planned ends, although workers die in the middle of an attempt and
\* are replaced by processes that know nothing of it, leases are lost and requests
\* fail, unless Redis loses the notification that a sample waits for.  Somebody must
\* be left to work: there are more ids in Workers than faults.
RunEnds ==
  run_status = "queued" ~> \/ run_status \in RunTerminal
                           \/ \E s \in Samples : status[s] \in Waiting /\ Lost(s)

-----------------------------------------------------------------------------
(* Refinement *)

PhaseOf(s) ==
  CASE s = "absent" -> "absent"
    [] s \in Waiting -> "waiting"
    [] s \in Active -> "running"
    [] s = "completed" -> "completed"
    [] OTHER -> "failed"

Abstract == INSTANCE LeasedWork WITH
  Work <- Samples,
  phase <- [s \in Samples |-> PhaseOf(status[s])],
  tries <- attempt_count

\* A sample gets at most MaxAttempts attempts, one at a time, and a final outcome.
ImplementsLeasedWork == Abstract!Spec
=============================================================================
