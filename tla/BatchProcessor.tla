--------------------------- MODULE BatchProcessor ---------------------------
(***************************************************************************)
(* process_batch, the trusted solution of the async-batch-processor task,  *)
(* under asyncio, with the worker that sandbox/candidate_worker.py hands   *)
(* to it (_async_worker): a semaphore bounds the workers, gather collects  *)
(* them, and a failure or a cancellation cancels and awaits the rest.      *)
(*                                                                         *)
(* The event loop runs one callback at a time, in the order in which they  *)
(* became ready.  asyncio itself (the ready queue, Task.cancel, Semaphore, *)
(* Event, gather) is not part of the repository; it is modelled as far as  *)
(* process_batch and the worker observe it.                                *)
(*                                                                         *)
(* The whole invocation is one record, so that the many effects of one     *)
(* callback compose: an operator takes the record b and gives the next one.*)
(***************************************************************************)
EXTENDS Integers, Sequences, FiniteSets, SequencesExt

Done == {"ok", "failed", "cancelled"}

\* What process_batch is called with: items and an _async_worker specification
Plan(items, concurrency, mode, special, transform, cancel) ==
  [items |-> items, concurrency |-> concurrency, mode |-> mode,
   special |-> special,      \* blocked_value or failure_value, or target_active
   transform |-> transform,
   cancel |-> cancel]        \* cancel_after_worker_start

Tasks(b) == DOMAIN b.coro

Running(b) == b.phase \in {"gather", "cleanup"}

\* Telemetry()
NoTelemetry == [calls |-> 0, active |-> 0, maximum_active |-> 0, cancelled |-> 0]

\* No invocation is in progress.
Idle == [phase |-> "idle", error |-> "none", failure |-> 0, result |-> <<>>,
         telemetry |-> NoTelemetry]

-----------------------------------------------------------------------------
(* asyncio: callbacks, futures and cancellation *)

Schedule(b, callback) == [b EXCEPT !.ready = Append(@, callback)]

Scheduled(b, callback) == Contains(b.ready, callback)

\* A suspended task is woken by the result of its future.
Wake(b, i) == Schedule(b, <<"task", i>>)

\* Task.cancel: the task is suspended and its future is cancelled, or it is about to
\* run and CancelledError is thrown into it then.  A task that ended is left alone.
CancelTask(b, i) ==
  IF b.coro[i] \in Done THEN b
  ELSE LET c == [b EXCEPT !.cancelling = @ \cup {i}]
       IN IF Scheduled(b, <<"task", i>>) THEN c ELSE Wake(c, i)

\* The tasks in order, so that they are cancelled in order
CancelAll(b) == FoldLeft(CancelTask, b, [i \in 1..Len(b.plan.items) |-> i])

\* Event.set wakes its waiters in the order in which they came.
SetEvent(b, event) ==
  LET woken == SelectSeq(b.sleepers, LAMBDA i : b.coro[i] = event /\ event \notin b.events
                                                /\ ~Scheduled(b, <<"task", i>>))
      c == FoldLeft(Wake, [b EXCEPT !.events = @ \cup {event}], woken)
  IN IF event = "milestone" /\ event \notin b.events /\ b.plan.cancel
     THEN Schedule(c, <<"main", 0>>) ELSE c

Sleep(b, i, event) == [b EXCEPT !.coro[i] = event, !.sleepers = Append(@, i)]

\* The waiters of the semaphore whose future is neither granted nor cancelled
Pending(b) == SelectSeq(b.waiters, LAMBDA i : i \notin b.granted \cup b.cancelling)

\* Semaphore._wake_up_next, n times at most
WakeUpNext(b, n) ==
  LET k == IF n < Len(Pending(b)) THEN n ELSE Len(Pending(b))
      next == SubSeq(Pending(b), 1, k)
  IN FoldLeft(Wake, [b EXCEPT !.value = @ - k, !.granted = @ \cup Range(next)], next)

\* Semaphore.release
Release(b) == WakeUpNext([b EXCEPT !.value = @ + 1], 1)

\* A task ends; the gather that is awaited now gets its callback.
Ends(b, i, how) ==
  Schedule([b EXCEPT !.coro[i] = how, !.cancelling = @ \ {i}],
           <<IF b.phase = "gather" THEN "done" ELSE "again", i>>)

-----------------------------------------------------------------------------
(* worker(value) *)

LeaveWorker(b, i, how) ==
  LET t == b.telemetry
  IN Ends(Release([b EXCEPT !.telemetry = [t EXCEPT !.active = @ - 1,
                                             !.cancelled = @ + IF how = "cancelled" THEN 1 ELSE 0],
                            !.sleepers = SelectSeq(@, LAMBDA j : j # i)]), i, how)

\* Event.wait suspends only while the event is not set.
Await(b, i, event, how) ==
  IF event \in b.events THEN LeaveWorker(b, i, how) ELSE Sleep(b, i, event)

CountedCall(b) ==
  LET n == b.telemetry.active + 1
  IN [b EXCEPT !.telemetry = [@ EXCEPT !.calls = @ + 1, !.active = n,
                                       !.maximum_active = IF n > @ THEN n ELSE @]]

\* Up to the first await that suspends.  "any" stands for a worker that awaits
\* something outside: it ends, or fails, at any later time.
EnterWorker(b, i) ==
  LET c == CountedCall(b)
      p == b.plan
      special == p.items[i] = p.special
  IN CASE p.mode = "identity" -> LeaveWorker(c, i, "ok")
       [] p.mode = "ordered" /\ special -> Await(c, i, "milestone", "ok")
       [] p.mode = "ordered" /\ ~special -> LeaveWorker(SetEvent(c, "milestone"), i, "ok")
       [] p.mode = "concurrency_probe" ->
            Await(IF c.telemetry.active >= p.special THEN SetEvent(c, "release") ELSE c,
                  i, "release", "ok")
       [] p.mode = "failure_cleanup" /\ special -> Await(c, i, "milestone", "failed")
       [] p.mode = "failure_cleanup" /\ ~special -> Sleep(SetEvent(c, "milestone"), i, "never")
       [] p.mode = "block" -> Sleep(SetEvent(c, "milestone"), i, "never")
       [] p.mode = "any" -> Sleep(c, i, "outside")

\* How the worker of item i ends when what it awaits has happened
Awaited(b, i) ==
  IF b.coro[i] = "outside" THEN b.outside[i]
  ELSE IF b.plan.mode = "failure_cleanup" THEN "failed" ELSE "ok"

transform(b, v) ==
  CASE b.plan.transform = "double" -> v * 2
    [] b.plan.transform = "increment" -> v + 1
    [] b.plan.transform = "upper" -> IF v = "first" THEN "FIRST" ELSE "SECOND"
    [] b.plan.transform = "identity" -> v

-----------------------------------------------------------------------------
(* invoke(item): async with semaphore: return await worker(item) *)

Locked(b) == b.value = 0 \/ \E n \in DOMAIN b.waiters : b.waiters[n] \in b.granted \cup Range(Pending(b))

\* A mistaken form: a task is admitted as long as not more than concurrency are active.
AcquireOneMore(b, i) ==
  IF b.value < 0 THEN [b EXCEPT !.coro[i] = "semaphore", !.waiters = Append(@, i)]
  ELSE EnterWorker([b EXCEPT !.value = @ - 1], i)

Acquire(b, i) ==
  IF Locked(b) THEN [b EXCEPT !.coro[i] = "semaphore", !.waiters = Append(@, i)]
  ELSE EnterWorker([b EXCEPT !.value = @ - 1], i)

\* The semaphore's future is granted or cancelled.  A cancelled task gives back what it
\* was granted, and whoever can be woken is woken.
Acquired(b, i) ==
  LET thrown == i \in b.cancelling
      c == [b EXCEPT !.waiters = SelectSeq(@, LAMBDA j : j # i), !.granted = @ \ {i},
                     !.value = @ + IF thrown /\ i \in b.granted THEN 1 ELSE 0]
      d == WakeUpNext(c, c.value)
  IN IF thrown THEN Ends(d, i, "cancelled") ELSE EnterWorker(d, i)

StepTask(b, i) ==
  CASE b.coro[i] = "new" ->
         IF i \in b.cancelling THEN Ends(b, i, "cancelled") ELSE Acquire(b, i)
    [] b.coro[i] = "semaphore" -> Acquired(b, i)
    [] OTHER -> LeaveWorker(b, i, IF i \in b.cancelling THEN "cancelled" ELSE Awaited(b, i))

-----------------------------------------------------------------------------
(* gather and process_batch *)

\* The future of gather is done: process_batch, which awaits it, runs next.
Settle(b, outcome) == Schedule([b EXCEPT !.outer = outcome], <<"batch", 0>>)

AllDone(b) == \A i \in Tasks(b) : i \in b.finished

Counts(b, i) ==
  LET c == [b EXCEPT !.finished = @ \cup {i}]
  IN IF AllDone(c) THEN Settle(c, IF b.requested THEN "cancelled" ELSE "result") ELSE c

\* The callback of task i in the first gather: the first failure ends it.
Gathered(b, i) ==
  CASE b.outer # "pending" \/ b.phase # "gather" -> b
    [] b.outer = "pending" /\ b.phase = "gather" /\ b.coro[i] = "cancelled" -> Settle(b, "cancelled")
    [] b.outer = "pending" /\ b.phase = "gather" /\ b.coro[i] = "failed" ->
         Settle([b EXCEPT !.failure = i], "failed")
    [] OTHER -> Counts(b, i)

\* The callback of task i in the second one, with return_exceptions
GatheredAgain(b, i) == IF b.outer = "pending" THEN Counts(b, i) ELSE b

RaiseError(b, error) == [b EXCEPT !.phase = "raised", !.error = error]

\* A mistaken form: the tasks are cancelled and not awaited.
CleanUpForgotten(b, error) == RaiseError(CancelAll(b), error)

\* except BaseException: cancel every task and await them all
CleanUp(b, error) ==
  LET c == CancelAll([b EXCEPT !.phase = "cleanup", !.error = error, !.finished = {},
                               !.outer = "pending", !.requested = FALSE])
      ended == SelectSeq([i \in 1..Len(b.plan.items) |-> i], LAMBDA i : b.coro[i] \in Done)
  IN FoldLeft(LAMBDA d, i : Schedule(d, <<"again", i>>), c, ended)

\* process_batch goes on after gather, or CancelledError is thrown into it there.
Resume(b) ==
  LET c == [b EXCEPT !.thrown = FALSE]
      outcome == IF b.thrown THEN "cancelled" ELSE b.outer
  IN IF b.phase = "gather"
     THEN IF outcome = "result"
          THEN [c EXCEPT !.phase = "returned", !.result = [i \in Tasks(b) |-> transform(b, b.plan.items[i])]]
          ELSE CleanUp(c, outcome)
     ELSE RaiseError(c, IF outcome = "cancelled" THEN "cancelled" ELSE b.error)

\* task.cancel of the caller: passed on to the tasks that gather still waits for
CancelBatch(b) ==
  LET c == [b EXCEPT !.asked = TRUE]
  IN IF ~Running(b) THEN b
     ELSE IF ~Scheduled(b, <<"batch", 0>>) /\ \E i \in Tasks(b) : b.coro[i] \notin Done
     THEN CancelAll([c EXCEPT !.requested = TRUE])
     ELSE [c EXCEPT !.thrown = TRUE]

\* The call up to its first await
process_batch(plan) ==
  LET n == Len(plan.items)
      b == [Idle EXCEPT !.phase = "gather"] @@
           [plan |-> plan, coro |-> [i \in 1..n |-> "new"], ready |-> [i \in 1..n |-> <<"task", i>>],
            cancelling |-> {}, value |-> plan.concurrency.value, waiters |-> <<>>, granted |-> {},
            events |-> {}, sleepers |-> <<>>, outside |-> [i \in 1..n |-> "ok"],
            outer |-> "pending", finished |-> {}, requested |-> FALSE, thrown |-> FALSE,
            asked |-> FALSE]
  IN CASE plan.concurrency.kind # "int" \/ plan.concurrency.value <= 0 -> RaiseError(b, "ValueError")
       [] OTHER -> IF n = 0 THEN [b EXCEPT !.phase = "returned"] ELSE b

\* The loop runs the callback at the head of the queue.
RunCallback(b) ==
  LET callback == Head(b.ready)
      c == [b EXCEPT !.ready = Tail(@)]
  IN CASE callback[1] = "task" -> StepTask(c, callback[2])
       [] callback[1] = "done" -> Gathered(c, callback[2])
       [] callback[1] = "again" -> GatheredAgain(c, callback[2])
       [] callback[1] = "batch" -> Resume(c)
       [] callback[1] = "main" -> CancelBatch(c)

=============================================================================
