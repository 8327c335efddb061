------------------------------- MODULE History -------------------------------
(***************************************************************************)
(* GET /evaluations, beside the creations, polls and workers of Submission:*)
(* a reader pages through the history with limit and offset while rows are *)
(* added.  In async mode a page is merged from two queries of one session, *)
(* the jobs and the snapshots that have no job (those of synchronous mode  *)
(* and of benchmark samples), newest first.                                *)
(*                                                                         *)
(* created_at is read from the clock before the row is committed, and the  *)
(* evaluation of a benchmark sample takes the created_at of its plan, so   *)
(* rows appear anywhere in the order and not only at its head.             *)
(***************************************************************************)
EXTENDS Submission, SequencesExt, Ranking

CONSTANTS
    Authors,    \* bound: the clients that post while the history is read
    Calm,       \* bound: nobody polls and no call fails while the history is read
    Legacy,     \* snapshots stored in synchronous mode, before everything else
    Limit       \* limit of a page

ASSUME HistoryAssumption ==
    /\ Authors \subseteq Clients /\ Calm \in BOOLEAN
    /\ Legacy \in Nat /\ Limit \in Nat \ {0}

VARIABLES
    clock,      \* readings of the clock so far
    created,    \* created[c]: created_at of the request that is in flight
    stamps,     \* stamps[i]: created_at of row i
    reader      \* the caller that pages, "off" where polls are observed instead

historyVars == <<vars, clock, created, stamps, reader>>

\* An entry of the history: what the order compares, and whose it is.  Ids are
\* compared only between samples of one plan.
Entry(at, row, n) == [at |-> at, row |-> row, n |-> n]

Before(x, y) == x.at > y.at \/ (x.at = y.at /\ x.n > y.n)

Scored(i) == rows[i].kind = "evaluation" /\ parts[i] = 1

\* The two queries.  A minimum score leaves only the jobs that have a snapshot.
JobEntries(filter) ==
    {Entry(stamps[i], i, 0) : i \in {j \in DOMAIN rows : /\ rows[j].kind = "evaluation"
                                                         /\ filter = "scored" => Scored(j)}}

SnapshotEntries ==
    {Entry(0, 0, n) : n \in 1..Legacy}
      \cup UNION {{Entry(stamps[i], i, n) : n \in 1..parts[i]} :
                    i \in {j \in DOMAIN rows : rows[j].kind = "benchmark"}}

Sorted(entries) == InOrder(entries, Before)

Slice(seq, from, to) == SubSeq(seq, from, IF to < Len(seq) THEN to ELSE Len(seq))

\* A mistaken form: each query gets the limit of the page.
Query_PageOnly(entries) == Slice(Sorted(entries), 1, Limit)

\* order_by(created_at desc, evaluation_id desc).limit(limit + offset)
Query(entries) == Slice(Sorted(entries), 1, Limit + reader.offset)

HistoryInit ==
    /\ Init
    /\ clock = 0 /\ created = [c \in Clients |-> 0] /\ stamps = <<>>
    /\ \E where \in {"off", "idle"} :
         reader = [pc |-> where, filter |-> "none", offset |-> 0, jobs |-> <<>>,
                   began |-> {}, got |-> {}]

\* A step of Submission, with the clock: a request reads it before it is stored.
\* Where the history is read Authors and Calm bound the rest; where it is not, the clock
\* stands still.
Submit ==
    /\ reader.pc # "off" /\ Calm => UNCHANGED <<pollVars, faults>>
    /\ Next
    /\ reader.pc # "off" => \A c \in Clients \ Authors : posts'[c] = posts[c]
    /\ LET entering == {c \in Clients : posts'[c] > posts[c] /\ pc'[c] # "client"}
           storing == {c \in Clients : pc[c] = "insert" /\ pc'[c] # "insert"}
       IN /\ clock' = IF reader.pc = "off" THEN clock ELSE clock + Cardinality(entering)
          /\ created' = [c \in Clients |-> IF c \in entering THEN clock' ELSE created[c]]
          /\ stamps' = IF Len(rows') = Len(rows) THEN stamps
                       ELSE Append(stamps, created[CHOOSE c \in storing : TRUE])
    /\ UNCHANGED reader

Read == UNCHANGED <<vars, clock, created, stamps>>

open_list(filter) ==
    /\ reader.pc = "idle"
    /\ reader' = [reader EXCEPT !.pc = "jobs", !.filter = filter,
                                !.began = JobEntries(filter) \cup SnapshotEntries]
    /\ Read

\* session.execute(query): each statement sees what is committed when it runs.
list_jobs ==
    /\ reader.pc = "jobs"
    /\ reader' = [reader EXCEPT !.pc = "snapshots", !.jobs = Query(JobEntries(reader.filter))]
    /\ Read

\* session.execute(legacy_query), the merge and the slice.  A page that is not full
\* is the last one.
list_snapshots ==
    /\ reader.pc = "snapshots"
    /\ LET merged == Sorted(Range(reader.jobs) \cup Range(Query(SnapshotEntries)))
           page == Slice(merged, reader.offset + 1, reader.offset + Limit)
       IN reader' = [reader EXCEPT !.got = @ \cup Range(page), !.jobs = <<>>,
                                   !.offset = @ + Limit,
                                   !.pc = IF Len(page) < Limit THEN "done" ELSE "jobs"]
    /\ Read

HistoryNext ==
    \/ Submit
    \/ \E filter \in {"all", "scored"} : open_list(filter)
    \/ list_jobs \/ list_snapshots

HistorySpec == HistoryInit /\ [][HistoryNext]_historyVars

-----------------------------------------------------------------------------

\* list: rows are only ever added, so a reader who pages to the first page that is not
\* full has been shown everything that was there, and matched, when it began, wherever
\* in the order new rows were committed meanwhile; and it is shown nothing that is not
\* there.
PagesMissNothing ==
    /\ reader.pc = "done" => reader.began \subseteq reader.got
    /\ reader.got \subseteq (JobEntries(reader.filter) \cup SnapshotEntries)

\* GET of one job and of the list: what is read in several sessions or pages, while
\* workers and submissions go on, is one consistent answer.
ReadsAreConsistent == PollIsConsistent /\ PagesMissNothing

=============================================================================
