----------------------------- MODULE Submission -----------------------------
(***************************************************************************)
(* The HTTP side of the two durable workloads: POST /evaluations in async  *)
(* mode and POST /benchmarks, both with an optional Idempotency-Key, and   *)
(* the GET that polls what was accepted.                                   *)
(*                                                                         *)
(* Both creations have the same shape: look the key up, insert the row and *)
(* its outbox events in one transaction, and look the key up again when    *)
(* the unique index refuses the insert.  Any number of requests are in     *)
(* flight, a database call may fail (also after its commit took effect),   *)
(* and an API process may die at any point, in which case the client gets  *)
(* no answer and posts again.  A poll reads the row and what belongs to it *)
(* in two separate sessions, while the workers finish the work.            *)
(***************************************************************************)
EXTENDS Naturals, Sequences, FiniteSets

CONSTANTS
    Clients,    \* callers, each with one request of its own
    Request,    \* Request[c]: the kind, the Idempotency-Key and the body
    Refused,    \* the bodies that fail validation (400, 404 and 422)
    NoKey,      \* a request without the header
    PlanSize,   \* samples of a benchmark plan: models * tasks * samples_per_task
    MaxPosts,   \* bound: how often one client posts
    MaxFaults,  \* bound: failing database calls and dying API processes
    MaxPolls    \* bound: polls of one client

VARIABLES
    rows,     \* the committed evaluation_jobs and benchmark_runs, in commit order
    outbox,   \* outbox[i]: how many outbox events row i has
    parts,    \* parts[i]: stored snapshots (evaluation), terminal samples (run)
    pc,       \* where the request of a client is inside the API
    reply,    \* the last answer the client got to its POST
    named,    \* the row its last accepted POST named
    posts,    \* POSTs sent
    polls,    \* GETs sent
    read,     \* the status the first session of a poll has read
    seen,     \* what the last finished poll answered
    faults    \* faults so far

dbVars   == <<rows, outbox, parts>>
postVars == <<pc, reply, named, posts>>
pollVars == <<polls, read, seen>>
vars == <<dbVars, postVars, pollVars, faults>>

Kinds    == {"evaluation", "benchmark"}
Statuses == {"queued", "completed", "failed"}
Nothing  == [status |-> "none", parts |-> 0]

(***************************************************************************)
(* The identity of a request: the canonical hash of its validated fields.  *)
(* Bodies are already canonical values here, so equal bodies and only they *)
(* have equal fingerprints.                                                *)
(***************************************************************************)
request_fingerprint(c) == Request[c].body

\* What one row stands for: a job is one evaluation, a run all its samples.
Parts(kind) == IF kind = "benchmark" THEN PlanSize ELSE 1

\* The committed rows of this kind that hold this key; the two tables have
\* separate unique indexes, so a job and a run may share a key.
WithKey(kind, key) ==
    {i \in DOMAIN rows : rows[i].kind = kind /\ rows[i].key = key}

Keyed(c) == Request[c].key # NoKey

ASSUME RequestAssumption ==
    /\ \A c \in Clients : Request[c].kind \in Kinds
    /\ PlanSize \in Nat \ {0}
    /\ MaxPosts \in Nat /\ MaxFaults \in Nat /\ MaxPolls \in Nat

Init ==
    /\ rows = <<>> /\ outbox = <<>> /\ parts = <<>>
    /\ pc = [c \in Clients |-> "client"]
    /\ reply = [c \in Clients |-> "none"]
    /\ named = [c \in Clients |-> 0]
    /\ posts = [c \in Clients |-> 0]
    /\ polls = [c \in Clients |-> 0]
    /\ read = [c \in Clients |-> "none"]
    /\ seen = [c \in Clients |-> Nothing]
    /\ faults = 0

-----------------------------------------------------------------------------
(***************************************************************************)
(* POST.                                                                   *)
(***************************************************************************)
Answer(c, what) ==
    /\ pc' = [pc EXCEPT ![c] = "client"]
    /\ reply' = [reply EXCEPT ![c] = what]

Accept(c, i) ==
    /\ Answer(c, "accepted")
    /\ named' = [named EXCEPT ![c] = i]

Goto(c, where) ==
    /\ pc' = [pc EXCEPT ![c] = where]
    /\ UNCHANGED <<reply, named>>

\* A client without a definite answer posts; validation comes before any
\* database call, and a request without a key skips the lookup.
submit(c) ==
    /\ pc[c] = "client" /\ reply[c] \in {"none", "unavailable", "lost"}
    /\ posts[c] < MaxPosts
    /\ posts' = [posts EXCEPT ![c] = @ + 1]
    /\ IF Request[c].body \in Refused
         THEN Answer(c, "refused") /\ UNCHANGED named
         ELSE Goto(c, IF Keyed(c) THEN "lookup" ELSE "insert")
    /\ UNCHANGED <<dbVars, pollVars, faults>>

\* The stored row answers a request with the same fingerprint, and refuses
\* any other (409).
reuse(c, i) ==
    IF rows[i].print = request_fingerprint(c)
      THEN Accept(c, i)
      ELSE Answer(c, "conflict") /\ UNCHANGED named

lookup(c) ==
    /\ pc[c] = "lookup"
    /\ LET found == WithKey(Request[c].kind, Request[c].key)
       IN  IF found # {} THEN \E i \in found : reuse(c, i) ELSE Goto(c, "insert")
    /\ UNCHANGED <<dbVars, posts, pollVars, faults>>

\* One transaction: the row, and one outbox event for the job or for each
\* sample of the plan.
Store(c) ==
    /\ rows' = Append(rows, [kind |-> Request[c].kind, key |-> Request[c].key,
                             print |-> request_fingerprint(c), status |-> "queued"])
    /\ outbox' = Append(outbox, Parts(Request[c].kind))
    /\ parts' = Append(parts, 0)

KeyTaken_NoIndex(c) == FALSE

\* The unique index on the key: another request committed it in the meantime.
KeyTaken(c) == Keyed(c) /\ WithKey(Request[c].kind, Request[c].key) # {}

insert(c) ==
    /\ pc[c] = "insert" /\ ~KeyTaken(c)
    /\ Store(c)
    /\ Accept(c, Len(rows) + 1)
    /\ UNCHANGED <<posts, pollVars, faults>>

\* IntegrityError: the transaction is rolled back and the key looked up again.
insert_refused(c) ==
    /\ pc[c] = "insert" /\ KeyTaken(c)
    /\ Goto(c, "again")
    /\ UNCHANGED <<dbVars, posts, pollVars, faults>>

lookup_again(c) ==
    /\ pc[c] = "again"
    /\ LET found == WithKey(Request[c].kind, Request[c].key)
       IN  IF found # {} THEN \E i \in found : reuse(c, i)
                         ELSE Answer(c, "unavailable") /\ UNCHANGED named
    /\ UNCHANGED <<dbVars, posts, pollVars, faults>>

InApi(c) == pc[c] \in {"lookup", "insert", "again"}

Fault == faults < MaxFaults /\ faults' = faults + 1

\* Any other SQLAlchemyError becomes PersistenceError and a 503.
DatabaseFails(c) ==
    /\ InApi(c) /\ Fault
    /\ Answer(c, "unavailable")
    /\ UNCHANGED <<dbVars, named, posts, pollVars>>

\* The connection breaks after the commit took effect: also a 503.
CommitUnknown(c) ==
    /\ pc[c] = "insert" /\ ~KeyTaken(c) /\ Fault
    /\ Store(c)
    /\ Answer(c, "unavailable")
    /\ UNCHANGED <<named, posts, pollVars>>

\* The API process dies, or the answer is lost on its way.
ApiDies(c) ==
    /\ InApi(c) /\ Fault
    /\ Answer(c, "lost")
    /\ UNCHANGED <<dbVars, named, posts, pollVars>>

AnswerLost(c) ==
    /\ pc[c] = "insert" /\ ~KeyTaken(c) /\ Fault
    /\ Store(c)
    /\ Answer(c, "lost")
    /\ UNCHANGED <<named, posts, pollVars>>

-----------------------------------------------------------------------------
(***************************************************************************)
(* GET.  The job or run row is read in one session; the snapshot of a      *)
(* completed job, or the sample rows of the run, in a later one.           *)
(***************************************************************************)
get_row(c) ==
    /\ pc[c] = "client" /\ reply[c] = "accepted" /\ polls[c] < MaxPolls
    /\ polls' = [polls EXCEPT ![c] = @ + 1]
    /\ LET row == rows[named[c]]
       IN  IF row.kind = "evaluation" /\ row.status # "completed"
             THEN /\ seen' = [seen EXCEPT ![c] = [status |-> row.status, parts |-> 0]]
                  /\ UNCHANGED <<pc, read>>
             ELSE /\ read' = [read EXCEPT ![c] = row.status]
                  /\ pc' = [pc EXCEPT ![c] = "parts"]
                  /\ UNCHANGED seen
    /\ UNCHANGED <<dbVars, reply, named, posts, faults>>

\* The answer combines the status read first with what is stored now; a
\* completed job without a snapshot is answered as unavailable.
Combine(c) ==
    IF rows[named[c]].kind = "evaluation" /\ parts[named[c]] = 0
      THEN [status |-> "unavailable", parts |-> 0]
      ELSE [status |-> read[c], parts |-> parts[named[c]]]

get_parts(c) ==
    /\ pc[c] = "parts"
    /\ pc' = [pc EXCEPT ![c] = "client"]
    /\ seen' = [seen EXCEPT ![c] = Combine(c)]
    /\ read' = [read EXCEPT ![c] = "none"]
    /\ UNCHANGED <<dbVars, reply, named, posts, polls, faults>>

\* The session of a poll fails: the caller gets an error and may poll again.
PollFails(c) ==
    /\ pc[c] = "parts" /\ Fault
    /\ pc' = [pc EXCEPT ![c] = "client"]
    /\ read' = [read EXCEPT ![c] = "none"]
    /\ UNCHANGED <<dbVars, reply, named, posts, polls, seen>>

-----------------------------------------------------------------------------
(***************************************************************************)
(* What the workers do to the rows (EvaluationJobs, RunFinalization): a    *)
(* part becomes final, and the last one ends the row in the same           *)
(* transaction; a job may also fail for good, without a snapshot.          *)
(***************************************************************************)
Finish_StatusFirst(i) ==
    /\ rows[i].status = "queued" \/ parts[i] < Parts(rows[i].kind)
    /\ IF rows[i].status = "queued"
         THEN rows' = [rows EXCEPT ![i].status = "completed"] /\ UNCHANGED parts
         ELSE parts' = [parts EXCEPT ![i] = @ + 1] /\ UNCHANGED rows
    /\ UNCHANGED <<outbox, postVars, pollVars, faults>>

Finish(i) ==
    /\ rows[i].status = "queued"
    /\ parts' = [parts EXCEPT ![i] = @ + 1]
    /\ rows' = [rows EXCEPT ![i].status =
                    IF parts[i] + 1 = Parts(rows[i].kind) THEN "completed" ELSE @]
    /\ UNCHANGED <<outbox, postVars, pollVars, faults>>

FailJob_AnyStatus(i) ==
    /\ rows[i].kind = "evaluation"
    /\ rows' = [rows EXCEPT ![i].status = "failed"]
    /\ UNCHANGED <<outbox, parts, postVars, pollVars, faults>>

FailJob(i) ==
    /\ rows[i].kind = "evaluation" /\ rows[i].status = "queued"
    /\ rows' = [rows EXCEPT ![i].status = "failed"]
    /\ UNCHANGED <<outbox, parts, postVars, pollVars, faults>>

Api(c) ==
    \/ lookup(c) \/ insert(c) \/ insert_refused(c) \/ lookup_again(c)
    \/ get_parts(c)

Next ==
    \/ \E c \in Clients :
        \/ submit(c) \/ Api(c) \/ get_row(c)
        \/ DatabaseFails(c) \/ CommitUnknown(c) \/ ApiDies(c) \/ AnswerLost(c)
        \/ PollFails(c)
    \/ \E i \in DOMAIN rows : Finish(i) \/ FailJob(i)

Spec == Init /\ [][Next]_vars

-----------------------------------------------------------------------------
(***************************************************************************)
(* Properties.                                                             *)
(***************************************************************************)
Row == [kind : Kinds, key : {Request[c].key : c \in Clients},
        print : {Request[c].body : c \in Clients}, status : Statuses]

\* create, get: rows, outbox and requests in flight keep their shape, and a row
\* never has more final parts than work.
TypeOK ==
    /\ rows \in Seq(Row)
    /\ Len(outbox) = Len(rows) /\ Len(parts) = Len(rows)
    /\ \A i \in DOMAIN rows : parts[i] \in 0..Parts(rows[i].kind)
    /\ pc \in [Clients -> {"client", "lookup", "insert", "again", "parts"}]
    /\ reply \in [Clients -> {"none", "accepted", "conflict", "refused",
                              "unavailable", "lost"}]
    /\ named \in [Clients -> 0..Len(rows)]
    /\ posts \in [Clients -> 0..MaxPosts]
    /\ polls \in [Clients -> 0..MaxPolls]
    /\ read \in [Clients -> Statuses \cup {"none"}]
    /\ seen \in [Clients -> [status : Statuses \cup {"none", "unavailable"},
                             parts : 0..PlanSize]]
    /\ faults \in 0..MaxFaults

\* EvaluationJobService.submit, BenchmarkService.create: the requests that
\* share a key and were accepted, retries after a lost answer or a 503 and
\* concurrent posts included, all name one row, and it was made for the same
\* request.
OneAnswerPerKey ==
    \A c, d \in Clients :
        /\ reply[c] = "accepted" /\ reply[d] = "accepted"
        /\ Keyed(c) /\ Request[c].key = Request[d].key
        /\ Request[c].kind = Request[d].kind
        => /\ named[c] = named[d]
           /\ request_fingerprint(c) = request_fingerprint(d)

\* create, create_plan: whatever is retried, a key never starts work twice.
OneRowPerKey ==
    \A i, j \in DOMAIN rows :
        i # j /\ rows[i].kind = rows[j].kind /\ rows[i].key = rows[j].key
        => rows[i].key = NoKey

\* create: a 409 is answered only when the key stands for another request, so
\* a client that repeats its own request is never told of a conflict it made.
ConflictIsWithAnother ==
    \A c \in Clients : reply[c] = "conflict" =>
        \E i \in WithKey(Request[c].kind, Request[c].key) :
            rows[i].print # request_fingerprint(c)

\* POST 202: what was accepted is stored for this very request, with an outbox
\* event for everything that has to be executed.
AcceptedIsDurable ==
    \A c \in Clients : reply[c] = "accepted" =>
        /\ named[c] \in DOMAIN rows
        /\ rows[named[c]].print = request_fingerprint(c)
        /\ rows[named[c]].kind = Request[c].kind
        /\ outbox[named[c]] = Parts(Request[c].kind)

\* POST: creation is idempotent. Whatever is lost, retried or posted at the same
\* time, a key starts work once, every accepted request of the key names that
\* work and is the request it was made for, the work has all its outbox events,
\* and a conflict is answered only to a different request.
IdempotentCreation ==
    OneRowPerKey /\ OneAnswerPerKey /\ ConflictIsWithAnother /\ AcceptedIsDurable

\* EvaluationJobService.get, BenchmarkService.get: although status and contents
\* are read in two sessions, an answer that says completed has everything, and
\* a completed job is never reported as unavailable.
PollIsConsistent ==
    \A c \in Clients :
        /\ seen[c].status # "unavailable"
        /\ seen[c].status = "completed" => seen[c].parts = Parts(Request[c].kind)

\* GET: successive polls of one client never go back: a final status stays,
\* and the number of finished parts does not shrink.
PollsOnlyAdvance ==
    [][\A c \in Clients :
        /\ seen[c].status \in {"completed", "failed"} => seen'[c] = seen[c]
        /\ seen'[c].parts >= seen[c].parts]_vars

=============================================================================
