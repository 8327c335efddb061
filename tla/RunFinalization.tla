-------------------------- MODULE RunFinalization --------------------------
(***************************************************************************)
(* How benchmark runs end (app/benchmarks/repositories.py): transactions   *)
(* under READ COMMITTED that claim, finish, recover or reconcile samples,  *)
(* with the row locks they take and the order they take them in.  A        *)
(* transaction reads what is committed and what it has written itself, and *)
(* its writes appear at once when it commits.  BenchmarkSamples takes each *)
(* of these transactions as one step; this module justifies it.            *)
(*                                                                         *)
(* A definition with a suffix, as Free_Unlocked, is a mistaken form of the *)
(* one that follows it; Next does not use it.                              *)
(***************************************************************************)
EXTENDS Integers, Sequences, FiniteSets

CONSTANTS
  Samples,  \* benchmark_sample_ids
  Runs,     \* benchmark_run_ids, numbered in the order of created_at
  RunOf,    \* the run of each sample
  Tasks,    \* asyncio tasks with a database session: workers and maintenance loops
  NoTask    \* nobody holds the lock

ASSUME RunsAssumption == Runs \subseteq Nat /\ IsFiniteSet(Runs)
\* A plan has at least one sample.
ASSUME RunOfAssumption == /\ RunOf \in [Samples -> Runs]
                          /\ \A r \in Runs : \E s \in Samples : RunOf[s] = r
ASSUME TasksAssumption == NoTask \notin Tasks

\* Sample statuses as far as a run can tell them apart: queued and generated are
\* waiting, the two failures and completed are done.
Terminal == {"done", "skipped"}
Statuses == {"waiting", "active"} \cup Terminal
RunTerminal == {"completed", "partial"}
RunStatuses == {"queued", "running"} \cup RunTerminal
Same == "same"   \* a row that the transaction does not write

VARIABLES
  status,       \* benchmark_samples.status, committed
  run_status,   \* benchmark_runs.status, committed
  sample_lock,  \* who holds the row lock of each sample
  run_lock,     \* who holds the row lock of each run
  pc,           \* where the transaction of each task is
  kind,         \* which method it executes
  wanted,       \* the sample whose row lock it has asked for, or nothing
  writes,       \* the sample statuses it has written
  outcome,      \* the run statuses it has written
  queue         \* the runs it has still to visit, in its order

taskVars == <<pc, kind, wanted, writes, outcome, queue>>
vars == <<status, run_status, sample_lock, run_lock, taskVars>>

Members(r) == {s \in Samples : RunOf[s] = r}
NoWrites == [s \in Samples |-> Same]
NoOutcome == [r \in Runs |-> Same]

\* What the transaction of t sees of the samples.
View(t) == [s \in Samples |-> IF writes[t][s] = Same THEN status[s] ELSE writes[t][s]]

\* The orders in which the runs in R can be visited.
Orders(R) == {q \in [1 .. Cardinality(R) -> R] : R = {q[i] : i \in 1 .. Cardinality(R)}}
Ascending(q) == \A i, k \in DOMAIN q : i < k => q[i] < q[k]

Init ==
  /\ status = [s \in Samples |-> "waiting"]
  /\ run_status = [r \in Runs |-> "queued"]
  /\ sample_lock = [s \in Samples |-> NoTask]
  /\ run_lock = [r \in Runs |-> NoTask]
  /\ pc = [t \in Tasks |-> "idle"]
  /\ kind = [t \in Tasks |-> "none"]
  /\ wanted = [t \in Tasks |-> {}]
  /\ writes = [t \in Tasks |-> NoWrites]
  /\ outcome = [t \in Tasks |-> NoOutcome]
  /\ queue = [t \in Tasks |-> <<>>]

-----------------------------------------------------------------------------
(* A method of a worker asks for the row of its sample and waits for it     *)
(* (with_for_update), holding nothing yet; the maintenance loops take what  *)
(* is free (skip_locked), or no sample at all.                              *)

ask_RunFirst(t, method, s) ==
  /\ pc[t] = "idle"
  /\ run_lock[RunOf[s]] = NoTask
  /\ run_lock' = [run_lock EXCEPT ![RunOf[s]] = t]
  /\ pc' = [pc EXCEPT ![t] = "wait"]
  /\ kind' = [kind EXCEPT ![t] = method]
  /\ wanted' = [wanted EXCEPT ![t] = {s}]
  /\ UNCHANGED <<status, run_status, sample_lock, writes, outcome, queue>>

ask(t, method, s) ==
  /\ pc[t] = "idle"
  /\ pc' = [pc EXCEPT ![t] = "wait"]
  /\ kind' = [kind EXCEPT ![t] = method]
  /\ wanted' = [wanted EXCEPT ![t] = {s}]
  /\ UNCHANGED <<status, run_status, sample_lock, run_lock, writes, outcome, queue>>

Asked(t, method, s) == pc[t] = "wait" /\ kind[t] = method /\ wanted[t] = {s}

\* The locks on the samples in w are granted, and the transaction goes on to visit
\* the runs in q.
Begin(t, method, w, q) ==
  /\ \A s \in Samples : w[s] # Same => sample_lock[s] = NoTask
  /\ sample_lock' = [s \in Samples |-> IF w[s] # Same THEN t ELSE sample_lock[s]]
  /\ pc' = [pc EXCEPT ![t] = IF q = <<>> THEN "commit" ELSE "lock"]
  /\ kind' = [kind EXCEPT ![t] = method]
  /\ wanted' = [wanted EXCEPT ![t] = {}]
  /\ writes' = [writes EXCEPT ![t] = w]
  /\ queue' = [queue EXCEPT ![t] = q]
  /\ UNCHANGED <<status, run_status, run_lock, outcome>>

\* The run is read without a lock, and updated when it was still queued.
claim(t, s) ==
  /\ Asked(t, "claim", s)
  /\ status[s] = "waiting"
  /\ Begin(t, "claim", [NoWrites EXCEPT ![s] = "active"],
           IF run_status[RunOf[s]] = "queued" THEN <<RunOf[s]>> ELSE <<>>)

\* complete, and record_failure without a retry.
finish(t, s) ==
  /\ Asked(t, "finish", s)
  /\ status[s] = "active"
  /\ Begin(t, "finish", [NoWrites EXCEPT ![s] = "done"], <<RunOf[s]>>)

\* record_failure with a retry.
retry(t, s) ==
  /\ Asked(t, "retry", s)
  /\ status[s] = "active"
  /\ Begin(t, "retry", [NoWrites EXCEPT ![s] = "waiting"], <<>>)

\* The stale samples that nobody has locked, in no particular order: again are
\* those with attempts left, and the runs of the others are visited.  The code
\* visits a run once for each sample given up, and writes what the last visit
\* counts; the run stays locked from the first, so that one visit is enough here.
recover_stale(t, again, given_up) ==
  /\ pc[t] = "idle"
  /\ again \cup given_up # {}
  /\ again \cap given_up = {}
  /\ \A s \in again \cup given_up : status[s] = "active"
  /\ \E q \in Orders({RunOf[s] : s \in given_up}) :
       Begin(t, "recover", [s \in Samples |-> IF s \in again THEN "waiting"
                                              ELSE IF s \in given_up THEN "skipped" ELSE Same], q)

reconcile_terminal_runs(t) ==
  LET open == {r \in Runs : run_status[r] \notin RunTerminal}
  IN /\ pc[t] = "idle"
     /\ open # {}
     /\ \E q \in Orders(open) :
          Ascending(q) /\ Begin(t, "reconcile", NoWrites, q)

-----------------------------------------------------------------------------
(* _finish_run_if_terminal: the run row is locked, then samples are counted. *)

Free_Unlocked(t, r) == TRUE
Free(t, r) == run_lock[r] \in {NoTask, t}

lock_run(t) ==
  LET r == Head(queue[t])
  IN /\ pc[t] = "lock"
     /\ Free(t, r)
     /\ run_lock' = [run_lock EXCEPT ![r] = t]
     /\ pc' = [pc EXCEPT ![t] = "count"]
     /\ UNCHANGED <<status, run_status, sample_lock, kind, wanted, writes, outcome, queue>>

Verdict_IgnoresOwn(t, r) ==
  IF \A s \in Members(r) : status[s] \in Terminal
  THEN IF \E s \in Members(r) : View(t)[s] = "skipped" THEN "partial" ELSE "completed"
  ELSE Same

Verdict(t, r) ==
  IF \A s \in Members(r) : View(t)[s] \in Terminal
  THEN IF \E s \in Members(r) : View(t)[s] = "skipped" THEN "partial" ELSE "completed"
  ELSE Same

visit_run(t) ==
  LET r == Head(queue[t])
  IN /\ pc[t] = "count"
     /\ outcome' = [outcome EXCEPT ![t][r] = IF kind[t] = "claim" THEN "running"
                                             ELSE Verdict(t, r)]
     /\ queue' = [queue EXCEPT ![t] = Tail(@)]
     /\ pc' = [pc EXCEPT ![t] = IF Len(queue[t]) = 1 THEN "commit" ELSE "lock"]
     /\ UNCHANGED <<status, run_status, sample_lock, run_lock, kind, wanted, writes>>

End(t) ==
  /\ sample_lock' = [s \in Samples |-> IF sample_lock[s] = t THEN NoTask ELSE sample_lock[s]]
  /\ run_lock' = [r \in Runs |-> IF run_lock[r] = t THEN NoTask ELSE run_lock[r]]
  /\ pc' = [pc EXCEPT ![t] = "idle"]
  /\ kind' = [kind EXCEPT ![t] = "none"]
  /\ wanted' = [wanted EXCEPT ![t] = {}]
  /\ writes' = [writes EXCEPT ![t] = NoWrites]
  /\ outcome' = [outcome EXCEPT ![t] = NoOutcome]
  /\ queue' = [queue EXCEPT ![t] = <<>>]

commit(t) ==
  /\ pc[t] = "commit"
  /\ status' = View(t)
  /\ run_status' = [r \in Runs |-> IF outcome[t][r] = Same THEN run_status[r]
                                   ELSE outcome[t][r]]
  /\ End(t)

\* The row is granted, but its sample is not in the status that the method leaves:
\* it returns without a write.
refuse(t, s) ==
  /\ \/ Asked(t, "claim", s) /\ status[s] # "waiting"
     \/ (Asked(t, "finish", s) \/ Asked(t, "retry", s)) /\ status[s] # "active"
  /\ sample_lock[s] = NoTask
  /\ End(t)
  /\ UNCHANGED <<status, run_status>>

WaitsFor(t, u) ==
  /\ u # t
  /\ \/ pc[t] = "wait" /\ \E s \in wanted[t] : sample_lock[s] = u
     \/ pc[t] = "lock" /\ run_lock[Head(queue[t])] = u

\* PostgreSQL finds transactions that wait for each other in a circle and aborts one
\* of them: PersistenceError, and the method is called again in the next round.
Deadlocked(t) ==
  \E circle \in SUBSET Tasks :
    /\ t \in circle
    /\ \A u \in circle : \E v \in circle : WaitsFor(u, v)
    /\ \A v \in circle : \E u \in circle : WaitsFor(u, v)

abort(t) ==
  /\ Deadlocked(t)
  /\ End(t)
  /\ UNCHANGED <<status, run_status>>

-----------------------------------------------------------------------------

Visit(t) == lock_run(t) \/ visit_run(t) \/ commit(t) \/ abort(t)

Next ==
  \E t \in Tasks :
    \/ \E s \in Samples :
         \/ \E method \in {"claim", "finish", "retry"} : ask(t, method, s)
         \/ claim(t, s) \/ finish(t, s) \/ retry(t, s) \/ refuse(t, s)
    \/ \E again, given_up \in SUBSET Samples : recover_stale(t, again, given_up)
    \/ reconcile_terminal_runs(t)
    \/ Visit(t)

Spec == Init /\ [][Next]_vars

-----------------------------------------------------------------------------

\* Every variable has its type.
TypeOK ==
  /\ status \in [Samples -> Statuses]
  /\ run_status \in [Runs -> RunStatuses]
  /\ sample_lock \in [Samples -> Tasks \cup {NoTask}]
  /\ run_lock \in [Runs -> Tasks \cup {NoTask}]
  /\ pc \in [Tasks -> {"idle", "wait", "lock", "count", "commit"}]
  /\ kind \in [Tasks -> {"none", "claim", "finish", "retry", "recover", "reconcile"}]
  /\ wanted \in [Tasks -> SUBSET Samples]
  /\ writes \in [Tasks -> [Samples -> Statuses \cup {Same}]]
  /\ outcome \in [Tasks -> [Runs -> RunStatuses \cup {Same}]]
  /\ queue \in [Tasks -> Seq(Runs)]

\* In every committed state a run is over exactly when all of its samples are,
\* and is partial exactly when one of them was given up: no order of commits
\* leaves a finished run open or closes an open one.
RunFollowsSamples ==
  \A r \in Runs :
    /\ run_status[r] \in RunTerminal <=> \A s \in Members(r) : status[s] \in Terminal
    /\ run_status[r] = "partial" <=> /\ run_status[r] \in RunTerminal
                                     /\ \E s \in Members(r) : status[s] = "skipped"

\* A run is closed by the transaction that ends its last sample, and stays as it
\* was closed; reconcile_terminal_runs never finds one to repair.
ClosedByLastSample ==
  [][\A r \in Runs : run_status'[r] # run_status[r] =>
       /\ run_status[r] \notin RunTerminal
       /\ run_status'[r] \in RunTerminal =>
            \E s \in Members(r) : status[s] \notin Terminal /\ status'[s] \in Terminal]_vars

\* complete, record_failure, claim: no worker's transaction, and with it the result
\* of a sample, is ever lost to a deadlock.  Transactions that visit several runs do
\* deadlock, since recover_stale visits them in the order of its samples, but every
\* method locks its sample before it locks a run, and a worker's locks one of each.
DeadlocksSpareWorkers ==
  \A t \in Tasks : Deadlocked(t) => kind[t] \in {"recover", "reconcile"}
=============================================================================
