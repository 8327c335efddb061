-------------------------- MODULE EvaluationJobs --------------------------
(***************************************************************************)
(* The durable evaluation queue: job rows and outbox rows in PostgreSQL    *)
(* (app/jobs/repositories.py), the Redis stream (app/queue), the outbox    *)
(* publisher, the worker that processes one message at a time              *)
(* (app/worker/service.py) with its lease heartbeat, and the maintenance   *)
(* loop that recovers stale jobs (app/worker/main.py).                     *)
(*                                                                         *)
(* One action is one database transaction, one Redis command, or one step  *)
(* of a worker between two of them.  A time column holds the time that is  *)
(* left until it, which Tick counts down: time is unbounded and the state  *)
(* space finite.                                                           *)
(*                                                                         *)
(* A definition with a suffix, as Stale_MayRetry, is a mistaken form of    *)
(* the one that follows it; Next does not use it.                          *)
(***************************************************************************)
EXTENDS Integers

CONSTANTS
  Jobs,            \* evaluation_ids
  Workers,         \* worker_ids; a restarted process has new ones
  Publishers,      \* publisher loops, one per worker process
  NoWorker,        \* SQL NULL in worker_id
  MaxAttempts,     \* max_attempts of a job
  LeaseSeconds,    \* lease_seconds, in ticks
  RetryBaseDelay,  \* retry_base_delay_seconds, in ticks
  MaxFaults        \* bound on crashes and lost or failed requests

ASSUME WorkersAssumption == NoWorker \notin Workers
ASSUME MaxAttemptsAssumption == MaxAttempts \in Nat \ {0}
ASSUME LeaseAssumption == LeaseSeconds \in Nat \ {0}
ASSUME FaultsAssumption == MaxFaults \in Nat

NULL == -2      \* SQL NULL in a time column
Expired == -1   \* a time column that lies in the past

Statuses == {"absent", "queued", "running", "retry_wait", "completed", "failed"}
Waiting == {"queued", "retry_wait"}
Terminal == {"completed", "failed"}
Categories == {"infrastructure", "integrity", "worker"}

\* The outbox row written when a job has made k attempts is <<j, k>>.
Events == Jobs \X (0 .. MaxAttempts - 1)
NoEvent == <<>>

\* The c-th stream entry that XADD made of the row e is <<e, c>>.
NoMessage == <<>>

VARIABLES
  \* evaluation_jobs and evaluations
  status, attempt_count, worker_id, lease_expires_at, next_attempt_at,
  last_error, snapshots,
  \* outbox_events
  outbox, outbox_due, outbox_attempts,
  \* Redis: the entries added, those read by the group, those acknowledged
  added, delivered, acked,
  \* workers
  pc, held, claimed, heartbeat, error,
  \* publishers
  stage, batch, current,
  faults

jobVars == <<status, attempt_count, worker_id, lease_expires_at,
             next_attempt_at, last_error, snapshots>>
outboxVars == <<outbox, outbox_due, outbox_attempts>>
streamVars == <<added, delivered, acked>>
workerVars == <<pc, held, claimed, heartbeat, error>>
publisherVars == <<stage, batch, current>>
vars == <<jobVars, outboxVars, streamVars, workerVars, publisherVars, faults>>

-----------------------------------------------------------------------------
(* Helpers *)

retry_delay_seconds(attempt) == RetryBaseDelay * 3 ^ (attempt - 1)

ASSUME DelayAssumption ==
  /\ RetryBaseDelay \in Nat
  /\ \A attempt \in 1 .. MaxAttempts : retry_delay_seconds(attempt) \in Nat

JobOf(w) == held[w][1][1]

\* A request fails, a reply is lost, or a process dies.
Fault ==
  /\ faults < MaxFaults
  /\ faults' = faults + 1

\* The worker leaves process_message and the heartbeat with it.
Leave(w) ==
  /\ pc' = [pc EXCEPT ![w] = "idle"]
  /\ held' = [held EXCEPT ![w] = NoMessage]
  /\ claimed' = [claimed EXCEPT ![w] = 0]
  /\ heartbeat' = [heartbeat EXCEPT ![w] = "off"]
  /\ error' = [error EXCEPT ![w] = "none"]

Goto(w, label) ==
  /\ pc' = [pc EXCEPT ![w] = label]
  /\ UNCHANGED <<held, claimed, heartbeat, error>>

\* The reply of a committed transaction arrives, or the connection breaks
\* first and PersistenceError ends the processing of the message.
Reply(w, label) ==
  \/ Goto(w, label) /\ UNCHANGED faults
  \/ Leave(w) /\ Fault

Due(j) == next_attempt_at[j] # NULL /\ next_attempt_at[j] <= 0

Stale_MayRetry == {j \in Jobs : status[j] = "running" /\ lease_expires_at[j] = Expired
                                /\ attempt_count[j] < MaxAttempts}
Stale == {j \in Jobs : status[j] = "running" /\ lease_expires_at[j] = Expired}

Claimable_TakesOver(j) == status[j] \in Waiting \/ j \in Stale
Claimable(j) == status[j] = "queued" \/ (status[j] = "retry_wait" /\ Due(j))

\* The number of the attempt that a claim starts.
NextAttempt_Unchanged(j) == attempt_count[j]
NextAttempt(j) == attempt_count[j] + 1

MayRetry_OnceMore(j) == attempt_count[j] <= MaxAttempts
MayRetry(j) == attempt_count[j] < MaxAttempts

OutboxReady_Early(e) == outbox[e] = "unpublished"
OutboxReady(e) == outbox[e] = "unpublished" /\ outbox_due[e] <= 0

\* The stream entries made so far.
Stream == UNION {{e} \X (1 .. added[e]) : e \in Events}

Owns(w, j) == status[j] = "running" /\ worker_id[j] = w

Init ==
  /\ status = [j \in Jobs |-> "absent"]
  /\ attempt_count = [j \in Jobs |-> 0]
  /\ worker_id = [j \in Jobs |-> NoWorker]
  /\ lease_expires_at = [j \in Jobs |-> NULL]
  /\ next_attempt_at = [j \in Jobs |-> NULL]
  /\ last_error = [j \in Jobs |-> "none"]
  /\ snapshots = {}
  /\ outbox = [e \in Events |-> "absent"]
  /\ outbox_due = [e \in Events |-> 0]
  /\ outbox_attempts = [e \in Events |-> 0]
  /\ added = [e \in Events |-> 0]
  /\ delivered = {}
  /\ acked = {}
  /\ pc = [w \in Workers |-> "idle"]
  /\ held = [w \in Workers |-> NoMessage]
  /\ claimed = [w \in Workers |-> 0]
  /\ heartbeat = [w \in Workers |-> "off"]
  /\ error = [w \in Workers |-> "none"]
  /\ stage = [p \in Publishers |-> "idle"]
  /\ batch = [p \in Publishers |-> {}]
  /\ current = [p \in Publishers |-> NoEvent]
  /\ faults = 0

-----------------------------------------------------------------------------
(* The API: job row and outbox row are inserted in one transaction. *)

create(j) ==
  /\ status[j] = "absent"
  /\ status' = [status EXCEPT ![j] = "queued"]
  /\ outbox' = [outbox EXCEPT ![<<j, 0>>] = "unpublished"]
  /\ UNCHANGED <<attempt_count, worker_id, lease_expires_at, next_attempt_at,
                 last_error, snapshots, outbox_due, outbox_attempts>>
  /\ UNCHANGED <<streamVars, workerVars, publisherVars, faults>>

-----------------------------------------------------------------------------
(* The publisher loop: dispatch_once and recover_stale, again and again.  A *)
(* round that finds nothing to do changes nothing and is not a step.       *)

\* PersistenceError ends the round.
AbortRound(p) ==
  /\ stage' = [stage EXCEPT ![p] = "idle"]
  /\ batch' = [batch EXCEPT ![p] = {}]
  /\ current' = [current EXCEPT ![p] = NoEvent]

\* The next event of the batch, if there is one.
NextEvent(p) ==
  /\ stage' = [stage EXCEPT ![p] = IF batch[p] = {} THEN "idle" ELSE "dispatch"]
  /\ current' = [current EXCEPT ![p] = NoEvent]
  /\ UNCHANGED batch

ready_outbox(p) ==
  LET ready == {e \in Events : OutboxReady(e)}
  IN /\ stage[p] = "idle"
     /\ ready # {}
     /\ batch' = [batch EXCEPT ![p] = ready]
     /\ stage' = [stage EXCEPT ![p] = "dispatch"]
     /\ UNCHANGED <<jobVars, outboxVars, streamVars, workerVars, current, faults>>

\* XADD, and the entry may be in the stream although the call failed.
enqueue(p, e) ==
  /\ stage[p] = "dispatch"
  /\ e \in batch[p]
  /\ batch' = [batch EXCEPT ![p] = @ \ {e}]
  /\ current' = [current EXCEPT ![p] = e]
  /\ \/ /\ added' = [added EXCEPT ![e] = @ + 1]
        /\ stage' = [stage EXCEPT ![p] = "mark_published"]
        /\ UNCHANGED faults
     \/ /\ added' \in {added, [added EXCEPT ![e] = @ + 1]}
        /\ stage' = [stage EXCEPT ![p] = "mark_failed"]
        /\ Fault
  /\ UNCHANGED <<jobVars, outboxVars, delivered, acked, workerVars>>

mark_outbox_published(p) ==
  LET e == current[p]
  IN /\ stage[p] = "mark_published"
     /\ IF outbox[e] = "unpublished"
        THEN /\ outbox' = [outbox EXCEPT ![e] = "published"]
             /\ outbox_attempts' = [outbox_attempts EXCEPT ![e] = @ + 1]
        ELSE UNCHANGED <<outbox, outbox_attempts>>
     /\ \/ NextEvent(p) /\ UNCHANGED faults
        \/ AbortRound(p) /\ Fault
     /\ UNCHANGED <<jobVars, outbox_due, streamVars, workerVars>>

mark_outbox_failed(p) ==
  LET e == current[p]
      attempts == outbox_attempts[e] + 1
  IN /\ stage[p] = "mark_failed"
     /\ IF outbox[e] = "unpublished"
        THEN /\ outbox_attempts' = [outbox_attempts EXCEPT ![e] = attempts]
             /\ outbox_due' = [outbox_due EXCEPT ![e] = retry_delay_seconds(attempts)]
        ELSE UNCHANGED <<outbox_attempts, outbox_due>>
     /\ \/ NextEvent(p) /\ UNCHANGED faults
        \/ AbortRound(p) /\ Fault
     /\ UNCHANGED <<jobVars, outbox, streamVars, workerVars>>

\* What recover_stale and record_failure do to the rows of the jobs in S.
GiveUpAttempt(S, category, retryable) ==
  LET again == {j \in S : retryable /\ MayRetry(j)}
      delay == [j \in Jobs |-> retry_delay_seconds(attempt_count[j])]
      event == {<<j, attempt_count[j]>> : j \in again}
  IN /\ status' = [j \in Jobs |-> IF j \in again THEN "retry_wait"
                                  ELSE IF j \in S THEN "failed" ELSE status[j]]
     /\ worker_id' = [j \in Jobs |-> IF j \in S THEN NoWorker ELSE worker_id[j]]
     /\ lease_expires_at' = [j \in Jobs |-> IF j \in S THEN NULL ELSE lease_expires_at[j]]
     /\ last_error' = [j \in Jobs |-> IF j \in S THEN category ELSE last_error[j]]
     /\ next_attempt_at' = [j \in Jobs |-> IF j \in again THEN delay[j]
                                           ELSE IF j \in S THEN NULL ELSE next_attempt_at[j]]
     /\ outbox' = [e \in Events |-> IF e \in event THEN "unpublished" ELSE outbox[e]]
     /\ outbox_due' = [e \in Events |-> IF e \in event THEN delay[e[1]] ELSE outbox_due[e]]
     /\ UNCHANGED <<attempt_count, snapshots, outbox_attempts>>

\* By any publisher loop, after its dispatch_once.  SKIP LOCKED passes over rows
\* that another transaction holds.
recover_stale(S) ==
  /\ \E p \in Publishers : stage[p] = "idle"
  /\ S # {}
  /\ \/ S = Stale /\ UNCHANGED faults
     \/ S # Stale /\ Fault
  /\ GiveUpAttempt(S, "infrastructure", TRUE)
  /\ UNCHANGED <<streamVars, workerVars, publisherVars>>

\* A statement of the round fails without effect, or the process dies and is
\* restarted: a publisher has no identity and no state between rounds.
FailRound(p) ==
  /\ stage[p] # "idle"
  /\ Fault
  /\ AbortRound(p)
  /\ UNCHANGED <<jobVars, outboxVars, streamVars, workerVars>>

-----------------------------------------------------------------------------
(* The worker: one message at a time. *)

Receive(w, m) ==
  /\ pc' = [pc EXCEPT ![w] = "get"]
  /\ held' = [held EXCEPT ![w] = m]
  /\ UNCHANGED <<claimed, heartbeat, error>>

\* XREADGROUP: the reply with the message may be lost.
consume(w, m) ==
  /\ pc[w] = "idle"
  /\ m \in Stream \ delivered
  /\ delivered' = delivered \cup {m}
  /\ \/ Receive(w, m) /\ UNCHANGED faults
     \/ UNCHANGED workerVars /\ Fault
  /\ UNCHANGED <<jobVars, outboxVars, added, acked, publisherVars>>

\* XAUTOCLAIM: Redis measures idle time by its own clock, from the delivery,
\* so any pending message may be taken, that of a busy worker too.
reclaim(w, m) ==
  /\ pc[w] = "idle"
  /\ m \in delivered \ acked
  /\ Receive(w, m)
  /\ UNCHANGED <<jobVars, outboxVars, streamVars, publisherVars, faults>>

get(w) ==
  /\ pc[w] = "get"
  /\ Goto(w, IF status[JobOf(w)] \in Waiting THEN "claim" ELSE "ack")
  /\ UNCHANGED <<jobVars, outboxVars, streamVars, publisherVars, faults>>

\* The row lock makes the check and the update one step.
claim(w) ==
  LET j == JobOf(w)
      attempt == NextAttempt(j)
  IN /\ pc[w] = "claim"
     /\ \/ /\ Claimable(j)
           /\ status' = [status EXCEPT ![j] = "running"]
           /\ attempt_count' = [attempt_count EXCEPT ![j] = attempt]
           /\ worker_id' = [worker_id EXCEPT ![j] = w]
           /\ lease_expires_at' = [lease_expires_at EXCEPT ![j] = LeaseSeconds]
           /\ next_attempt_at' = [next_attempt_at EXCEPT ![j] = NULL]
           /\ \/ /\ pc' = [pc EXCEPT ![w] = "run"]
                 /\ claimed' = [claimed EXCEPT ![w] = attempt]
                 /\ heartbeat' = [heartbeat EXCEPT ![w] = "on"]
                 /\ UNCHANGED <<held, error, faults>>
              \/ Leave(w) /\ Fault
        \/ /\ ~ Claimable(j)
           /\ Goto(w, "ack")
           /\ UNCHANGED <<status, attempt_count, worker_id, lease_expires_at,
                          next_attempt_at, faults>>
     /\ UNCHANGED <<last_error, snapshots, outboxVars, streamVars, publisherVars>>

\* _validated_request and evaluate_snapshot, and how classify_failure sees
\* the exception they may end with.
Evaluate(w) ==
  /\ pc[w] = "run"
  /\ \/ Goto(w, "complete")
     \/ /\ pc' = [pc EXCEPT ![w] = "fail"]
        /\ \E category \in Categories :
             error' = [error EXCEPT ![w] = category]
        /\ UNCHANGED <<held, claimed, heartbeat>>
  /\ UNCHANGED <<jobVars, outboxVars, streamVars, publisherVars, faults>>

\* The heartbeat task, beside the evaluation.  A renewal that fails with
\* PersistenceError is retried: a step that was not taken.
renew_lease(w) ==
  LET j == JobOf(w)
  IN /\ pc[w] \in {"run", "complete", "fail"}
     /\ heartbeat[w] = "on"
     /\ IF Owns(w, j)
        THEN /\ lease_expires_at' = [lease_expires_at EXCEPT ![j] = LeaseSeconds]
             /\ UNCHANGED heartbeat
        ELSE /\ heartbeat' = [heartbeat EXCEPT ![w] = "lost"]
             /\ UNCHANGED lease_expires_at
     /\ UNCHANGED <<status, attempt_count, worker_id, next_attempt_at, last_error,
                    snapshots, outboxVars, streamVars, pc, held, claimed, error,
                    publisherVars, faults>>

\* The snapshot is inserted in the transaction that ends the job.
StoreResult_KeepsError(j) ==
  /\ status' = [status EXCEPT ![j] = "completed"]
  /\ worker_id' = [worker_id EXCEPT ![j] = NoWorker]
  /\ lease_expires_at' = [lease_expires_at EXCEPT ![j] = NULL]
  /\ snapshots' = snapshots \cup {j}
  /\ UNCHANGED last_error

StoreResult(j) ==
  /\ status' = [status EXCEPT ![j] = "completed"]
  /\ worker_id' = [worker_id EXCEPT ![j] = NoWorker]
  /\ lease_expires_at' = [lease_expires_at EXCEPT ![j] = NULL]
  /\ snapshots' = snapshots \cup {j}
  /\ last_error' = [last_error EXCEPT ![j] = "none"]

\* A snapshot that already exists is an IntegrityError on the insert.
complete(w) ==
  LET j == JobOf(w)
  IN /\ pc[w] = "complete"
     /\ \/ /\ status[j] = "completed"
           /\ Reply(w, "ack")
           /\ UNCHANGED <<status, worker_id, lease_expires_at, last_error, snapshots>>
        \/ /\ Owns(w, j)
           /\ j \notin snapshots
           /\ StoreResult(j)
           /\ Reply(w, "ack")
        \/ /\ status[j] # "completed"
           /\ ~ (Owns(w, j) /\ j \notin snapshots)
           /\ Leave(w)
           /\ UNCHANGED <<status, worker_id, lease_expires_at, last_error, snapshots, faults>>
     /\ UNCHANGED <<attempt_count, next_attempt_at, outboxVars, streamVars, publisherVars>>

record_failure(w) ==
  LET j == JobOf(w)
  IN /\ pc[w] = "fail"
     /\ \/ /\ Owns(w, j)
           /\ GiveUpAttempt({j}, error[w], error[w] = "infrastructure")
           /\ Reply(w, "ack")
        \/ /\ ~ Owns(w, j)
           /\ Leave(w)
           /\ UNCHANGED <<jobVars, outboxVars, faults>>
     /\ UNCHANGED <<streamVars, publisherVars>>

acknowledge(w) ==
  /\ pc[w] = "ack"
  /\ acked' = acked \cup {held[w]}
  /\ Leave(w)
  /\ UNCHANGED <<jobVars, outboxVars, added, delivered, publisherVars, faults>>

\* The database or Redis cannot be reached: the message stays pending.
LoseConnection(w) ==
  /\ pc[w] \in {"get", "claim", "complete", "fail", "ack"}
  /\ Fault
  /\ Leave(w)
  /\ UNCHANGED <<jobVars, outboxVars, streamVars, publisherVars>>

\* A restarted process has new worker ids: the old one never returns.
CrashWorker(w) ==
  /\ pc[w] # "dead"
  /\ Fault
  /\ pc' = [pc EXCEPT ![w] = "dead"]
  /\ held' = [held EXCEPT ![w] = NoMessage]
  /\ claimed' = [claimed EXCEPT ![w] = 0]
  /\ heartbeat' = [heartbeat EXCEPT ![w] = "off"]
  /\ error' = [error EXCEPT ![w] = "none"]
  /\ UNCHANGED <<jobVars, outboxVars, streamVars, publisherVars>>

-----------------------------------------------------------------------------
(* Time *)

CountDown(t, floor) == IF t > floor THEN t - 1 ELSE t

Tick ==
  /\ lease_expires_at' = [j \in Jobs |-> CountDown(lease_expires_at[j], Expired)]
  /\ next_attempt_at' = [j \in Jobs |-> CountDown(next_attempt_at[j], 0)]
  /\ outbox_due' = [e \in Events |-> CountDown(outbox_due[e], 0)]
  /\ UNCHANGED <<status, attempt_count, worker_id, last_error, snapshots,
                 outbox, outbox_attempts, streamVars, workerVars, publisherVars, faults>>

-----------------------------------------------------------------------------

PublisherStep(p) ==
  \/ ready_outbox(p)
  \/ \E e \in Events : enqueue(p, e)
  \/ mark_outbox_published(p)
  \/ mark_outbox_failed(p)

Fetch(w) == \E m \in Stream : consume(w, m) \/ reclaim(w, m)

Process(w) ==
  \/ get(w)
  \/ claim(w)
  \/ Evaluate(w)
  \/ complete(w)
  \/ record_failure(w)
  \/ acknowledge(w)

Next ==
  \/ \E j \in Jobs : create(j)
  \/ \E p \in Publishers : PublisherStep(p) \/ FailRound(p)
  \/ \E S \in SUBSET Stale : recover_stale(S)
  \/ \E w \in Workers : Fetch(w) \/ Process(w) \/ renew_lease(w)
                        \/ LoseConnection(w) \/ CrashWorker(w)
  \/ Tick

Spec == Init /\ [][Next]_vars

-----------------------------------------------------------------------------
(* Safety *)

\* Every variable has its type.
TypeOK ==
  /\ status \in [Jobs -> Statuses]
  /\ attempt_count \in [Jobs -> 0 .. MaxAttempts]
  /\ worker_id \in [Jobs -> Workers \cup {NoWorker}]
  /\ lease_expires_at \in [Jobs -> {NULL, Expired} \cup 0 .. LeaseSeconds]
  /\ next_attempt_at \in [Jobs -> {NULL} \cup Nat]
  /\ last_error \in [Jobs -> Categories \cup {"none"}]
  /\ snapshots \subseteq Jobs
  /\ outbox \in [Events -> {"absent", "unpublished", "published"}]
  /\ outbox_due \in [Events -> Int]
  /\ outbox_attempts \in [Events -> Nat]
  /\ added \in [Events -> Nat]
  /\ delivered \subseteq Stream
  /\ acked \subseteq delivered
  /\ pc \in [Workers -> {"idle", "get", "claim", "run", "complete", "fail", "ack", "dead"}]
  /\ held \in [Workers -> delivered \cup {NoMessage}]
  /\ claimed \in [Workers -> 0 .. MaxAttempts]
  /\ heartbeat \in [Workers -> {"off", "on", "lost"}]
  /\ error \in [Workers -> Categories \cup {"none"}]
  /\ stage \in [Publishers -> {"idle", "dispatch", "mark_published", "mark_failed"}]
  /\ batch \in [Publishers -> SUBSET Events]
  /\ current \in [Publishers -> Events \cup {NoEvent}]
  /\ faults \in 0 .. MaxFaults

\* A job that waits for an attempt always has a notification on its way: its
\* outbox row is still to be published, or a stream entry made of that row is
\* not acknowledged.  Whatever crashes, duplicates or reclaimed messages did
\* before, the acknowledgement in process_message never drops the last one.
NoStrandedJob ==
  \A j \in Jobs : status[j] \in Waiting =>
    \/ outbox[<<j, attempt_count[j]>>] = "unpublished"
    \/ \E m \in Stream \ acked : m[1] = <<j, attempt_count[j]>>

\* The row of a job is consistent: a snapshot exists exactly when the job is
\* completed, owner and lease exactly while it runs, the error it keeps is one that
\* its status can follow from, and a job that failed for a retryable reason has had
\* all its attempts (recover_stale, record_failure, complete).
RowConsistent ==
  \A j \in Jobs :
    /\ j \in snapshots <=> status[j] = "completed"
    /\ status[j] = "running" <=> worker_id[j] # NoWorker
    /\ status[j] = "running" <=> lease_expires_at[j] # NULL
    /\ status[j] = "retry_wait" <=> next_attempt_at[j] # NULL
    /\ status[j] = "retry_wait" => last_error[j] = "infrastructure"
    /\ status[j] = "failed" => last_error[j] # "none"
    /\ status[j] = "completed" => last_error[j] = "none"
    /\ status[j] = "failed" /\ last_error[j] = "infrastructure" =>
         attempt_count[j] = MaxAttempts

Working(w) == pc[w] \in {"run", "complete", "fail"}

\* worker_id alone fences a worker whose lease was recovered: whoever owns the
\* row by its id is on the attempt the row counts, although ids are reused from
\* one attempt to the next and a claim may commit without its worker knowing.
OwnerOnCurrentAttempt ==
  \A w \in Workers : Working(w) =>
    /\ claimed[w] \in 1 .. attempt_count[JobOf(w)]
    /\ Owns(w, JobOf(w)) => claimed[w] = attempt_count[JobOf(w)]

\* No two workers are on the same attempt of a job.
OneWorkerPerAttempt ==
  \A v, w \in Workers :
    (Working(v) /\ Working(w) /\ JobOf(v) = JobOf(w) /\ claimed[v] = claimed[w]) => v = w

\* claim, renew_lease, complete, record_failure: a job is worked on by one worker
\* per attempt, and whoever the row names is the one on its current attempt.
OneOwner == OwnerOnCurrentAttempt /\ OneWorkerPerAttempt

\* claim, complete, record_failure, recover_stale: whatever is late, lost or done
\* twice, the fields of a row fit its status and its owner is the one worker that is
\* on its current attempt.
RowsAreOwned == RowConsistent /\ OneOwner

-----------------------------------------------------------------------------
(* Actions *)

\* docs/operations/workers.md: "renewal cannot succeed at or after persisted
\* expiry".  renew_lease checks owner and status only.
RenewalBeforeExpiry ==
  [][\A j \in Jobs :
       (status[j] = "running" /\ attempt_count'[j] = attempt_count[j]
          /\ lease_expires_at'[j] > lease_expires_at[j])
         => lease_expires_at[j] > 0]_vars

\* docs/operations/workers.md: "ownership loss cancels active work".  The
\* heartbeat returns, and the evaluation goes on to its end.
OwnershipLossCancelsWork ==
  [][\A w \in Workers :
       (heartbeat[w] = "lost" /\ pc[w] = "run") => pc'[w] # "complete"]_vars

-----------------------------------------------------------------------------
(* Liveness *)

\* The loops of main.py run for ever, so every step a live worker or publisher
\* can take is taken; time passes; faults are finitely many.
Fairness ==
  /\ WF_vars(Tick)
  /\ \A p \in Publishers : WF_vars(PublisherStep(p))
  /\ WF_vars(\E S \in SUBSET Stale : recover_stale(S))
  /\ \A w \in Workers : WF_vars(Process(w)) /\ WF_vars(Fetch(w))

FairSpec == Spec /\ Fairness

\* Every submitted job reaches a terminal status, whichever of its workers and
\* publishers crash, as long as one worker survives.
EveryJobEnds == \A j \in Jobs : status[j] = "queued" ~> status[j] \in Terminal

-----------------------------------------------------------------------------
(* Refinement *)

PhaseOf(s) == IF s \in Waiting THEN "waiting" ELSE s

Abstract == INSTANCE LeasedWork WITH
  Work <- Jobs,
  phase <- [j \in Jobs |-> PhaseOf(status[j])],
  tries <- attempt_count

\* The queue gives every job at most MaxAttempts attempts, one at a time, and a
\* final outcome.
ImplementsLeasedWork == Abstract!Spec
=============================================================================
