--------------------------- MODULE RuntimeIdentity ---------------------------
(***************************************************************************)
(* The sandbox image identity that ties an evaluation job to the runtime   *)
(* that accepted it.  Every process collects it once, on first use, under  *)
(* an asyncio lock, and keeps it for its lifetime.  The API stores its own *)
(* identity with the job; a worker compares the job with its own before it *)
(* runs the source and stores its own again with the result.  Containers   *)
(* are created from the tag, which may be rebuilt while processes live.    *)
(***************************************************************************)
EXTENDS Naturals

CONSTANTS
    Apis, Workers,  \* processes
    Jobs,           \* evaluation jobs
    Images,         \* image identities the tag may point to
    Unset,          \* nothing collected yet
    Unknown,        \* sandbox_image_id = None
    NoProcess,      \* nobody works on the job
    MaxRebuilds,    \* bound: how often the tag moves
    MaxFailures,    \* bound: failing docker image inspect commands
    MaxRestarts     \* bound: process restarts

VARIABLES
    tag,       \* the image the tag points to
    cached,    \* cached[p]: ExecutionMetadataCollector._cached
    at,        \* at[j]: the process that works on job j
    progress,  \* progress[j]: how far it is
    step,      \* step[j]: where it is inside ExecutionMetadataCollector.snapshot
    expected,  \* expected[j]: the identity stored with the job
    ranOn,     \* ranOn[j]: the image its container was created from
    recorded,  \* recorded[j]: the identity stored with the result
    rebuilds, failures, restarts

jobVars == <<at, progress, step, expected, ranOn, recorded>>
budget  == <<rebuilds, failures, restarts>>
identityVars == <<tag, cached, jobVars, budget>>

Processes == Apis \cup Workers
Identities == Images \cup {Unknown}

ASSUME ProcessAssumption ==
    /\ Apis \cap Workers = {}
    /\ NoProcess \notin Processes
    /\ Unset \notin Identities /\ Unknown \notin Images
    /\ MaxRebuilds \in Nat /\ MaxFailures \in Nat /\ MaxRestarts \in Nat

IdentityInit ==
    /\ tag \in Images
    /\ cached = [p \in Processes |-> Unset]
    /\ at = [j \in Jobs |-> NoProcess]
    /\ progress = [j \in Jobs |-> "new"]
    /\ step = [j \in Jobs |-> "out"]
    /\ expected = [j \in Jobs |-> Unset]
    /\ ranOn = [j \in Jobs |-> Unset]
    /\ recorded = [j \in Jobs |-> Unset]
    /\ rebuilds = 0 /\ failures = 0 /\ restarts = 0

-----------------------------------------------------------------------------
(***************************************************************************)
(* A request or a message enters a process, which needs its identity.      *)
(***************************************************************************)
Begin(j, p, s) ==
    /\ at' = [at EXCEPT ![j] = p]
    /\ progress' = [progress EXCEPT ![j] = s]
    /\ step' = [step EXCEPT ![j] = "look"]
    /\ UNCHANGED <<tag, cached, expected, ranOn, recorded, budget>>

submit(j) == progress[j] = "new" /\ \E p \in Apis : Begin(j, p, "submitting")

claim(j) == progress[j] = "queued" /\ \E p \in Workers : Begin(j, p, "validating")

-----------------------------------------------------------------------------
(***************************************************************************)
(* ExecutionMetadataCollector.snapshot.                                    *)
(***************************************************************************)
Step(j, s) == step' = [step EXCEPT ![j] = s]

\* The first look at _cached, without the lock.
look(j) ==
    /\ step[j] = "look"
    /\ Step(j, IF cached[at[j]] = Unset THEN "wait" ELSE "known")
    /\ UNCHANGED <<tag, cached, at, progress, expected, ranOn, recorded, budget>>

Holder(p) == {j \in Jobs : at[j] = p /\ step[j] = "hold"}

acquire(j) ==
    /\ step[j] = "wait" /\ Holder(at[j]) = {}
    /\ Step(j, "hold")
    /\ UNCHANGED <<tag, cached, at, progress, expected, ranOn, recorded, budget>>

\* docker image inspect on the tag.  A command that fails, times out or answers
\* anything but a digest leaves the identity unknown, which is kept as well.
collect(p) ==
    \/ cached' = [cached EXCEPT ![p] = tag] /\ UNCHANGED failures
    \/ /\ failures < MaxFailures /\ failures' = failures + 1
       /\ cached' = [cached EXCEPT ![p] = Unknown]

\* The second look, under the lock: only the first holder collects.
snapshot_OneLook(j) ==
    /\ step[j] = "hold"
    /\ collect(at[j])
    /\ Step(j, "known")
    /\ UNCHANGED <<tag, at, progress, expected, ranOn, recorded, rebuilds, restarts>>

snapshot(j) ==
    /\ step[j] = "hold"
    /\ IF cached[at[j]] = Unset THEN collect(at[j]) ELSE UNCHANGED <<cached, failures>>
    /\ Step(j, "known")
    /\ UNCHANGED <<tag, at, progress, expected, ranOn, recorded, rebuilds, restarts>>

-----------------------------------------------------------------------------
(***************************************************************************)
(* What the processes do with the identity.                                *)
(***************************************************************************)
Leave(j, s) ==
    /\ at' = [at EXCEPT ![j] = NoProcess]
    /\ progress' = [progress EXCEPT ![j] = s]
    /\ Step(j, "out")

\* EvaluationJobService.submit stores the job with the identity of the API.
store_job(j) ==
    /\ progress[j] = "submitting" /\ step[j] = "known"
    /\ expected' = [expected EXCEPT ![j] = cached[at[j]]]
    /\ Leave(j, "queued")
    /\ UNCHANGED <<tag, cached, ranOn, recorded, budget>>

Matches_UnknownMatchesAll(j) == cached[at[j]] \in {expected[j], Unknown}

Matches(j) == cached[at[j]] = expected[j]

\* _validated_request: execution_environment_mismatch is terminal.
validate_fails(j) ==
    /\ progress[j] = "validating" /\ step[j] = "known" /\ ~Matches(j)
    /\ Leave(j, "failed")
    /\ UNCHANGED <<tag, cached, expected, ranOn, recorded, budget>>

\* The runner creates the container from the tag, whatever it points to now.
run(j) ==
    /\ progress[j] = "validating" /\ step[j] = "known" /\ Matches(j)
    /\ ranOn' = [ranOn EXCEPT ![j] = tag]
    /\ progress' = [progress EXCEPT ![j] = "running"]
    /\ UNCHANGED <<tag, cached, at, step, expected, recorded, budget>>

\* evaluate_snapshot asks for the identity again, and it is stored.
complete(j) ==
    /\ progress[j] = "running"
    /\ recorded' = [recorded EXCEPT ![j] = cached[at[j]]]
    /\ Leave(j, "completed")
    /\ UNCHANGED <<tag, cached, expected, ranOn, budget>>

\* An infrastructure failure of the execution is retried by any worker.
retry(j) ==
    /\ progress[j] = "running" /\ failures < MaxFailures /\ failures' = failures + 1
    /\ Leave(j, "queued")
    /\ UNCHANGED <<tag, cached, expected, ranOn, recorded, rebuilds, restarts>>

-----------------------------------------------------------------------------
(***************************************************************************)
(* Around the processes.                                                   *)
(***************************************************************************)
Rebuild ==
    /\ rebuilds < MaxRebuilds /\ rebuilds' = rebuilds + 1
    /\ tag' \in Images \ {tag}
    /\ UNCHANGED <<cached, jobVars, failures, restarts>>

\* A process starts anew: requests are lost, a worker's job comes back when
\* its lease runs out.
Restart(p) ==
    /\ restarts < MaxRestarts /\ restarts' = restarts + 1
    /\ cached' = [cached EXCEPT ![p] = Unset]
    /\ at' = [j \in Jobs |-> IF at[j] = p THEN NoProcess ELSE at[j]]
    /\ step' = [j \in Jobs |-> IF at[j] = p THEN "out" ELSE step[j]]
    /\ progress' = [j \in Jobs |-> IF at[j] # p THEN progress[j]
                                   ELSE IF p \in Apis THEN "new" ELSE "queued"]
    /\ UNCHANGED <<tag, expected, ranOn, recorded, rebuilds, failures>>

IdentityNext ==
    \/ \E j \in Jobs :
        \/ submit(j) \/ claim(j) \/ look(j) \/ acquire(j) \/ snapshot(j)
        \/ store_job(j) \/ validate_fails(j) \/ run(j) \/ complete(j) \/ retry(j)
    \/ Rebuild
    \/ \E p \in Processes : Restart(p)

IdentitySpec == IdentityInit /\ [][IdentityNext]_identityVars

-----------------------------------------------------------------------------
(***************************************************************************)
(* Properties.                                                             *)
(***************************************************************************)

\* submit, process_message: jobs, processes and identities keep their shape,
\* and the lock of a process has one holder.
IdentityTypeOK ==
    /\ tag \in Images
    /\ cached \in [Processes -> Identities \cup {Unset}]
    /\ at \in [Jobs -> Processes \cup {NoProcess}]
    /\ progress \in [Jobs -> {"new", "submitting", "queued", "validating",
                              "running", "completed", "failed"}]
    /\ step \in [Jobs -> {"out", "look", "wait", "hold", "known"}]
    /\ expected \in [Jobs -> Identities \cup {Unset}]
    /\ ranOn \in [Jobs -> Images \cup {Unset}]
    /\ recorded \in [Jobs -> Identities \cup {Unset}]
    /\ rebuilds \in 0..MaxRebuilds /\ failures \in 0..MaxFailures
    /\ restarts \in 0..MaxRestarts
    /\ \A i, j \in Jobs :
        step[i] = "hold" /\ step[j] = "hold" /\ at[i] = at[j] => i = j

\* ExecutionMetadataCollector.snapshot: concurrent first requests of a process
\* agree: what it has once answered stays until the process ends.
IdentityIsStable ==
    [][\A p \in Processes : cached[p] # Unset => cached'[p] \in {cached[p], Unset}]_identityVars

\* _validated_request, evaluate_snapshot: a stored result carries the identity
\* its job was accepted with, over every retry and restart in between.
CompletedAsAccepted ==
    \A j \in Jobs : progress[j] = "completed" =>
        expected[j] # Unset /\ recorded[j] = expected[j]

\* docs/architecture.md: transient infrastructure failures are retried, only
\* drift is terminal.  Without a rebuilt image no job fails for its identity.
OnlyDriftIsTerminal ==
    \A j \in Jobs : progress[j] = "failed" => rebuilds > 0

\* docs/architecture.md: image drift is an integrity failure, never a silent
\* rerun: a completed job ran on the image it was accepted for.
RanAsAccepted ==
    \A j \in Jobs : progress[j] = "completed" => ranOn[j] = expected[j]

=============================================================================
