---------------------------- MODULE LeasedWork ----------------------------
(***************************************************************************)
(* What the durable queue promises about a unit of work (an evaluation job *)
(* or a benchmark sample), without workers, leases, outboxes or messages:  *)
(* it is tried at most MaxAttempts times, one attempt at a time, a new     *)
(* attempt starts only after the previous one ended, and the outcome of    *)
(* the last attempt is final.                                              *)
(***************************************************************************)
EXTENDS Integers

CONSTANTS
  Work,         \* the units of work
  MaxAttempts   \* max_attempts of every unit

VARIABLES
  phase,        \* where each unit of work is
  tries         \* how many attempts have started on it

vars == <<phase, tries>>

Phases == {"absent", "waiting", "running", "completed", "failed"}

Init ==
  /\ phase = [u \in Work |-> "absent"]
  /\ tries = [u \in Work |-> 0]

Submit(u) ==
  /\ phase[u] = "absent"
  /\ phase'[u] = "waiting"
  /\ tries'[u] = 0

Start(u) ==
  /\ phase[u] = "waiting"
  /\ tries[u] < MaxAttempts
  /\ phase'[u] = "running"
  /\ tries'[u] = tries[u] + 1

GiveBack(u) ==
  /\ phase[u] = "running"
  /\ tries[u] < MaxAttempts
  /\ phase'[u] = "waiting"
  /\ tries'[u] = tries[u]

Finish(u) ==
  /\ phase[u] = "running"
  /\ phase'[u] \in {"completed", "failed"}
  /\ tries'[u] = tries[u]

Keep(u) ==
  /\ phase'[u] = phase[u]
  /\ tries'[u] = tries[u]

Move(u) == Submit(u) \/ Start(u) \/ GiveBack(u) \/ Finish(u) \/ Keep(u)

\* One transaction of the program may move several units (lease recovery).
Next ==
  /\ phase' \in [Work -> Phases]
  /\ tries' \in [Work -> Nat]
  /\ \A u \in Work : Move(u)

Spec == Init /\ [][Next]_vars
=============================================================================
