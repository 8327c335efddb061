----------------------- MODULE BenchmarkArchiveProofs -----------------------
(***************************************************************************)
(* Proofs about BenchmarkReport and BenchmarkArchive, for any plan, scores *)
(* and failure codes, any number of readers one after the other and any    *)
(* number of archive commands at once.                                     *)
(*                                                                         *)
(* A report is made of a status and of rows that were read at different    *)
(* moments.  It stays true because a run becomes terminal only with its    *)
(* last sample (RunOK), after which no row changes: what a reader has read *)
(* as terminal is so still (ReaderOK), and so is all it made of it         *)
(* (PublishedOK).  The archive commands all write the same export, of a    *)
(* run that cannot change (WritersOK, FilesOK), so a file is missing,      *)
(* partial or right; Kept says when it must be right.                      *)
(***************************************************************************)
EXTENDS BenchmarkArchive, FiniteFacts, SequenceTheorems, TLAPS

Rows == [status : {"queued", "generated"} \cup Terminal, artifact : BOOLEAN,
         score : Scores \cup {None}, correct : BOOLEAN, code : AllCodes \cup {"none"}]

RunStates == {"queued", "running"} \cup _TERMINAL_RUNS

Elements(seq) == {seq[i] : i \in DOMAIN seq}

\* What a row says at each status: the score and the artifact, and the code of the
\* failure that ended it.
RowOK(row) ==
  /\ row.score # None <=> row.status = "completed"
  /\ row.status \in {"generated", "completed"} => row.artifact
  /\ row.status \in {"queued", "generation_failed"} => ~row.artifact
  /\ row.status = "completed" => row.code = "none"
  /\ row.status = "generation_failed" => row.code \in Codes
  /\ row.status = "evaluation_failed" => row.code = "worker_failure"
  /\ row.status = "skipped" => row.code = "worker_lease_expired"

\* The run is over only when all its samples are, and its status says how.
RunOK ==
  /\ rows \in [Samples -> Rows] /\ run \in RunStates
  /\ \A s \in Samples : RowOK(rows[s])
  /\ run \in _TERMINAL_RUNS => \A s \in Samples : rows[s].status \in Terminal
  /\ run = "completed" => \A s \in Samples : rows[s].status # "skipped"
  /\ run = "partial" => \E s \in Samples : rows[s].status = "skipped"

\* A status that was read as terminal is still the run's.
ReaderOK ==
  /\ reader \in [pc : {"idle", "export", "summary"}, run : RunStates \cup {"none"}]
  /\ reader.run \in _TERMINAL_RUNS => reader.run = run
  /\ exports \in 0..MaxExports /\ Len(published) <= exports
  /\ reader.pc # "idle" => Len(published) < exports

\* DocumentsAgree for one document.
Agrees(d) ==
  /\ \A recorded \in BOOLEAN : _winners_section(d, recorded) = <<d.winners.observed, d.winners.eligible>>
  /\ d.totals.completed = SumFunction([c \in Configs |-> d.models[c].completed])
  /\ d.totals.generation_failures = SumFunction([c \in Configs |-> d.models[c].generation_failures])
  /\ \A c \in Configs : d.models[c].end_to_end = d.models[c].correct

\* What a document calls final is so still, its parts agree, and it names no winners before.
StillTrue(d) ==
  /\ d.status \in _TERMINAL_RUNS => d.status = run /\ d.totals = _totals(rows)
  /\ d.kind = "export" =>
       /\ d.winners.final =>
            d.status \in _TERMINAL_RUNS /\ d.winners = select_winners(Board(rows), TRUE)
       /\ ~d.winners.final => d.winners.observed = {} /\ d.winners.eligible = {}
       /\ Agrees(d)

PublishedOK ==
  /\ published \in Seq(Elements(published))
  /\ \A i \in 1..Len(published) : StillTrue(published[i])

ReportInv == RunOK /\ ReaderOK /\ PublishedOK

\* A command writes the export of the run as it is, and every command the same one.
Written == {"check", "done", "refused"} \cup Files

WritersOK ==
  /\ writers \in [Writers -> [pc : {"idle", "build", "dead"} \cup Written,
                              export : {"none", run, Artifacts(run)}]]
  /\ \A w \in Writers :
       /\ writers[w].pc = "idle" => writers[w].export = "none"
       /\ writers[w].pc = "build" => writers[w].export = run
       /\ writers[w].pc \in Written => writers[w].export = Artifacts(run)

FilesOK ==
  /\ files \in [Files -> {Missing, Partial} \cup {Content(Artifacts(run), f) : f \in Files}]
  /\ \A f \in Files : files[f] \in {Missing, Partial, Content(Artifacts(run), f)}
  /\ extra \in BOOLEAN

\* Nothing is written before the run is over.
Begun ==
  /\ Untouched => extra = FALSE /\ \A f \in Files : files[f] = Missing
  /\ ~Untouched => run \in _TERMINAL_RUNS

After(f) ==
  CASE f = "candidates" -> {"results", "report", "manifest", "done"}
    [] f = "results" -> {"report", "manifest", "done"}
    [] f = "report" -> {"manifest", "done"}
    [] f = "manifest" -> {"done"}

\* A file that some command has finished is right, unless another command is at it or
\* was killed, or the directory was damaged.
Right(f) ==
  \/ files[f] = Content(Artifacts(run), f)
  \/ \E v \in Writers : writers[v].pc \in {f, "dead"}

Kept ==
  damages = 0 =>
    /\ extra = FALSE
    /\ \A f \in Files, w \in Writers : writers[w].pc \in After(f) => Right(f)

ArchiveInv == WritersOK /\ FilesOK /\ Begun /\ Kept

IInv == ReportInv /\ ArchiveInv

-----------------------------------------------------------------------------
(* Counting. *)

\* A plan is finite.
LEMMA FinitePlan == IsFiniteSet(Samples)
<1> DEFINE Pairs == Configs \X Tasks
           f == [p \in Pairs \X Indices |-> <<p[1][1], p[1][2], p[2]>>]
<1>1. IsFiniteSet(Pairs)
  BY FS_Product, PlanAssumption
<1>2. IsFiniteSet(Indices)
  BY PlanAssumption
<1>3. IsFiniteSet(Pairs \X Indices)
  BY <1>1, <1>2, FS_Product
<1>4. f \in [Pairs \X Indices -> Samples]
  BY DEF Samples
<1>5. ASSUME NEW s \in Samples PROVE \E p \in Pairs \X Indices : f[p] = s
  <2>1. <<<<s[1], s[2]>>, s[3]>> \in Pairs \X Indices
    BY DEF Samples
  <2>2. f[<<<<s[1], s[2]>>, s[3]>>] = s
    BY <2>1 DEF Samples
  <2> QED
    BY <2>1, <2>2
<1>6. f \in Surjection(Pairs \X Indices, Samples)
  BY <1>4, <1>5 DEF Surjection
<1> QED
  BY <1>3, <1>6, FS_Surjection

\* Disjoint sets are counted apart.
LEMMA CountedApart ==
  ASSUME NEW S, IsFiniteSet(S), NEW T, IsFiniteSet(T), S \cap T = {}
  PROVE  /\ IsFiniteSet(S \cup T)
         /\ Cardinality(S \cup T) = Cardinality(S) + Cardinality(T)
<1>1. /\ IsFiniteSet(S \cup T)
      /\ Cardinality(S \cup T) = Cardinality(S) + Cardinality(T) - Cardinality(S \cap T)
  BY FS_Union
<1>2. Cardinality(S) \in Nat /\ Cardinality(T) \in Nat
  BY FS_CardinalityType
<1>3. Cardinality(S \cap T) = 0
  BY FS_EmptySet
<1> QED
  BY <1>1, <1>2, <1>3

\* The samples of a finished run that were not given up are counted once each.
LEMMA TotalsAddUp ==
  ASSUME NEW rs, \A s \in Samples : rs[s].status \in Terminal
  PROVE  LET t == _totals(rs)
             accounted == t.completed + t.generation_failures + t.evaluation_failures
         IN /\ (\A s \in Samples : rs[s].status # "skipped") => accounted = t.recorded
            /\ (\E s \in Samples : rs[s].status = "skipped") => accounted < t.recorded
<1> DEFINE C == {s \in Samples : rs[s].status = "completed"}
           G == {s \in Samples : rs[s].status = "generation_failed"}
           E == {s \in Samples : rs[s].status = "evaluation_failed"}
           K == {s \in Samples : rs[s].status = "skipped"}
<1>1. IsFiniteSet(C) /\ IsFiniteSet(G) /\ IsFiniteSet(E) /\ IsFiniteSet(K)
  BY FinitePlan, FS_Subset
<1>2. C \cap G = {} /\ (C \cup G) \cap E = {} /\ (C \cup G \cup E) \cap K = {}
  OBVIOUS
<1>3. C \cup G \cup E \cup K = Samples
  BY DEF Terminal
<1> HIDE DEF C, G, E, K
<1>4. /\ Cardinality(C) \in Nat /\ Cardinality(G) \in Nat
      /\ Cardinality(E) \in Nat /\ Cardinality(K) \in Nat
  BY <1>1, FS_CardinalityType
<1>5. /\ IsFiniteSet(C \cup G)
      /\ Cardinality(C \cup G) = Cardinality(C) + Cardinality(G)
  BY <1>1, <1>2, CountedApart
<1>6. /\ IsFiniteSet(C \cup G \cup E)
      /\ Cardinality(C \cup G \cup E) = Cardinality(C \cup G) + Cardinality(E)
  BY <1>1, <1>2, <1>5, CountedApart
<1>7. Cardinality(C \cup G \cup E \cup K) = Cardinality(C \cup G \cup E) + Cardinality(K)
  BY <1>1, <1>2, <1>6, CountedApart
<1>8. Cardinality(K) = 0 <=> K = {}
  BY <1>1, FS_EmptySet
<1>9. K = {} <=> \A s \in Samples : rs[s].status # "skipped"
  BY DEF K
<1>10. /\ _totals(rs).recorded = Cardinality(Samples)
       /\ _totals(rs).completed = Cardinality(C)
       /\ _totals(rs).generation_failures = Cardinality(G)
       /\ _totals(rs).evaluation_failures = Cardinality(E)
  BY DEF _totals, OfStatus, C, G, E
<1>11. Cardinality(Samples) = Cardinality(C) + Cardinality(G) + Cardinality(E) + Cardinality(K)
  BY <1>3, <1>5, <1>6, <1>7
<1> QED
  BY <1>4, <1>8, <1>9, <1>10, <1>11

\* Appending a document to a sequence keeps the earlier ones.
LEMMA Appended ==
  ASSUME NEW q, q \in Seq(Elements(q)), NEW d
  PROVE  /\ Append(q, d) \in Seq(Elements(Append(q, d)))
         /\ Len(q) \in Nat /\ Len(Append(q, d)) = Len(q) + 1
         /\ \A i \in 1..Len(q) : Append(q, d)[i] = q[i]
         /\ Append(q, d)[Len(q) + 1] = d
<1> DEFINE S == Elements(q) \cup {d}
<1>1. q \in Seq(S)
  <2>1. Elements(q) \subseteq S
    OBVIOUS
  <2> HIDE DEF S
  <2> QED
    BY <2>1, SeqMonotonic
<1>2. /\ Append(q, d) \in Seq(S) /\ Len(Append(q, d)) = Len(q) + 1
      /\ \A i \in 1..Len(q) : Append(q, d)[i] = q[i]
      /\ Append(q, d)[Len(q) + 1] = d
  <2> HIDE DEF S
  <2>1. d \in S
    BY DEF S
  <2> QED
    BY <1>1, <2>1, AppendProperties
<1>3. Append(q, d) \in Seq(Elements(Append(q, d)))
  <2> DEFINE r == Append(q, d)
  <2>1. r \in Seq(S)
    BY <1>2
  <2> HIDE DEF r, S
  <2>2. \A i \in 1..Len(r) : r[i] \in Elements(r)
    BY <2>1 DEF Elements
  <2>3. r \in Seq(Elements(r))
    BY <2>1, <2>2
  <2> QED
    BY <2>3 DEF r
<1> QED
  BY <1>2, <1>3

-----------------------------------------------------------------------------
(* Fractions. *)

IsFraction(a) == a.num \in Int /\ a.den \in Nat \ {0}

\* Products with a positive factor compare as their other factors do.
LEMMA Times ==
  ASSUME NEW a \in Int, NEW b \in Int, NEW k \in Nat \ {0}
  PROVE  /\ a * k <= b * k <=> a <= b
         /\ a * k < b * k <=> a < b
         /\ a * k = b * k <=> a = b
<1>1. ASSUME NEW u \in Int, NEW v \in Int, u < v PROVE u * k < v * k
  BY <1>1, SMTT(30)
<1>2. a * k \in Int /\ b * k \in Int
  OBVIOUS
<1> QED
  BY <1>1, <1>2

\* a/x <= b/y <= c/z, where only the products are compared.
LEMMA Cross ==
  ASSUME NEW a \in Int, NEW b \in Int, NEW c \in Int,
         NEW x \in Nat \ {0}, NEW y \in Nat \ {0}, NEW z \in Nat \ {0},
         a * y <= b * x, b * z <= c * y
  PROVE  /\ a * z <= c * x
         /\ a * z = c * x => a * y = b * x /\ b * z = c * y
<1> DEFINE p == a * y
           q == b * x
           r == b * z
           s == c * y
<1>1. p \in Int /\ q \in Int /\ r \in Int /\ s \in Int /\ a * z \in Int /\ c * x \in Int
  OBVIOUS
<1>2. p * z = (a * z) * y /\ q * z = r * x /\ s * x = (c * x) * y
  OBVIOUS
<1>3. p <= q /\ r <= s
  OBVIOUS
<1> HIDE DEF p, q, r, s
<1>4. p * z <= q * z /\ (p * z = q * z => p = q)
  BY <1>1, <1>3, Times
<1>5. r * x <= s * x /\ (r * x = s * x => r = s)
  BY <1>1, <1>3, Times
<1> DEFINE az == a * z
           cx == c * x
<1>6. /\ az * y <= cx * y <=> az <= cx
      /\ az * y = cx * y <=> az = cx
  <2>1. az \in Int /\ cx \in Int
    BY <1>1
  <2> HIDE DEF az, cx
  <2> QED
    BY <2>1, Times
<1>7. p * z \in Int /\ q * z \in Int /\ s * x \in Int
  BY <1>1
<1>8. az * y = p * z /\ r * x = q * z /\ cx * y = s * x
  BY <1>2
<1>9. az <= cx /\ (az = cx => p = q /\ r = s)
  <2> HIDE DEF az, cx
  <2>1. p * z <= s * x /\ (p * z = s * x => p * z = q * z /\ r * x = s * x)
    BY <1>4, <1>5, <1>7, <1>8
  <2> QED
    BY <1>4, <1>5, <1>6, <1>8, <2>1
<1> QED
  BY <1>9 DEF p, q, r, s

\* Fractions are ordered by Less and told apart by Equal.
LEMMA FractionOrder ==
  ASSUME NEW a, IsFraction(a), NEW b, IsFraction(b), NEW c, IsFraction(c)
  PROVE  /\ ~Less(a, a) /\ Equal(a, a)
         /\ Less(a, b) \/ Equal(a, b) \/ Less(b, a)
         /\ ~(Less(a, b) /\ Equal(a, b)) /\ ~(Less(a, b) /\ Less(b, a))
         /\ Equal(a, b) <=> Equal(b, a)
         /\ Less(a, b) /\ Less(b, c) => Less(a, c)
         /\ Less(a, b) /\ Equal(b, c) => Less(a, c)
         /\ Equal(a, b) /\ Less(b, c) => Less(a, c)
         /\ Equal(a, b) /\ Equal(b, c) => Equal(a, c)
<1>1. /\ a.num * b.den \in Int /\ b.num * a.den \in Int /\ a.num * a.den \in Int
      /\ b.num * c.den \in Int /\ c.num * b.den \in Int
      /\ a.num * c.den \in Int /\ c.num * a.den \in Int
  BY DEF IsFraction
<1>2. ASSUME a.num * b.den <= b.num * a.den, b.num * c.den <= c.num * b.den
      PROVE  /\ a.num * c.den <= c.num * a.den
             /\ a.num * c.den = c.num * a.den =>
                  a.num * b.den = b.num * a.den /\ b.num * c.den = c.num * b.den
  <2>1. /\ a.num \in Int /\ b.num \in Int /\ c.num \in Int
        /\ a.den \in Nat \ {0} /\ b.den \in Nat \ {0} /\ c.den \in Nat \ {0}
    BY DEF IsFraction
  <2> QED
    BY <1>2, <2>1, Cross
<1>3. ASSUME c.num * b.den <= b.num * c.den, b.num * a.den <= a.num * b.den
      PROVE  c.num * a.den <= a.num * c.den
  <2>1. /\ a.num \in Int /\ b.num \in Int /\ c.num \in Int
        /\ a.den \in Nat \ {0} /\ b.den \in Nat \ {0} /\ c.den \in Nat \ {0}
    BY DEF IsFraction
  <2> QED
    BY <1>3, <2>1, Cross
<1> QED
  BY <1>1, <1>2, <1>3 DEF Less, Equal

-----------------------------------------------------------------------------
(* Scores and their means. *)

\* The scores of some samples and their sum.
LEMMA ScoresAreNatural ==
  ASSUME NEW rs \in [Samples -> Rows], NEW S \in SUBSET Samples
  PROVE  /\ IsFiniteSet(S) /\ IsFiniteSet(Evaluated(rs, S)) /\ Evaluated(rs, S) \in SUBSET S
         /\ \A s \in Evaluated(rs, S) : rs[s].score \in Nat /\ rs[s].score <= 100
         /\ Cardinality(Evaluated(rs, S)) \in Nat
         /\ Cardinality(Evaluated(rs, S)) = 0 <=> Evaluated(rs, S) = {}
         /\ ScoreSum(rs, S) \in Nat
<1> DEFINE E == Evaluated(rs, S)
           f == [s \in E |-> rs[s].score]
<1>1. IsFiniteSet(S)
  BY FinitePlan, FS_Subset
<1>2. E \in SUBSET S
  BY DEF Evaluated
<1>3. IsFiniteSet(E)
  BY <1>1, <1>2, FS_Subset
<1>4. ASSUME NEW s \in E PROVE rs[s].score \in Nat /\ rs[s].score <= 100
  <2>1. rs[s] \in Rows /\ rs[s].score # None
    BY DEF Evaluated
  <2>2. rs[s].score \in Scores
    BY <2>1 DEF Rows
  <2>3. \A x \in Scores : x \in Nat /\ x <= 100
    <3>1. Scores \subseteq 0..100
      BY PlanAssumption
    <3>2. \A x \in 0..100 : x \in Nat /\ x <= 100
      OBVIOUS
    <3> QED
      BY <3>1, <3>2
  <2> QED
    BY <2>2, <2>3
<1>5. Cardinality(E) \in Nat /\ (Cardinality(E) = 0 <=> E = {})
  BY <1>3, FS_CardinalityType, FS_EmptySet
<1>6. SumFunctionOnSet(f, E) \in Nat
  <2>1. \A s \in E : f[s] \in Nat
    BY <1>4
  <2> HIDE DEF E, f
  <2> QED
    BY <1>3, <2>1, SumNat
<1>7. ScoreSum(rs, S) = SumFunctionOnSet(f, E)
  BY DEF ScoreSum, SumFunction
<1> QED
  BY <1>1, <1>2, <1>3, <1>4, <1>5, <1>6, <1>7

\* A task plans as many samples of a model as there are indices.
LEMMA PlannedOfTask ==
  ASSUME NEW c \in Configs, NEW t \in Tasks
  PROVE  /\ OfTask(c, t) \in SUBSET Of(c) /\ OfTask(c, t) \in SUBSET Samples /\ Of(c) \in SUBSET Samples
         /\ Repeats \in Nat \ {0} /\ Cardinality(OfTask(c, t)) = Repeats
<1> DEFINE f == [i \in Indices |-> <<c, t, i>>]
<1>1. f \in [Indices -> OfTask(c, t)]
  BY DEF OfTask
<1>2. f \in Surjection(Indices, OfTask(c, t)) /\ f \in Injection(Indices, OfTask(c, t))
  <2>1. \A i, k \in Indices : f[i] = f[k] => i = k
    OBVIOUS
  <2>2. ASSUME NEW s \in OfTask(c, t) PROVE \E i \in Indices : f[i] = s
    BY DEF OfTask
  <2> QED
    BY <1>1, <2>1, <2>2 DEF Surjection, Injection, IsInjective
<1>3. Cardinality(OfTask(c, t)) = Cardinality(Indices)
  <2> HIDE DEF f
  <2> QED
    BY <1>2, PlanAssumption, FS_Surjection
<1>4. Cardinality(Indices) \in Nat \ {0}
  BY PlanAssumption, FS_CardinalityType, FS_EmptySet
<1>5. OfTask(c, t) \in SUBSET Of(c) /\ OfTask(c, t) \in SUBSET Samples /\ Of(c) \in SUBSET Samples
  BY DEF OfTask, Of, Samples
<1> QED
  BY <1>3, <1>4, <1>5 DEF Repeats

LEMMA UnitDivides ==
  ASSUME NEW n \in 1..Repeats
  PROVE  Unit \div n \in Nat \ {0} /\ Unit = n * (Unit \div n)
<1>1. Repeats \in Nat
  BY PlanAssumption, FS_CardinalityType DEF Repeats
<1>2. n \in Nat \ {0} /\ Unit \in Nat \ {0} /\ Unit % n = 0
  BY <1>1, PlanAssumption DEF Repeats
<1>3. Unit = n * (Unit \div n) /\ Unit \div n \in Int
  BY <1>2, SMTT(30)
<1> DEFINE m == Unit \div n
<1>4. m > 0
  <2> HIDE DEF m
  <2>1. m \in Int /\ Unit = n * m
    BY <1>3 DEF m
  <2>2. ASSUME m <= 0 PROVE n * m <= 0
    BY <1>2, <2>1, <2>2, SMTT(30)
  <2> QED
    BY <1>2, <2>1, <2>2
<1> QED
  BY <1>3, <1>4

\* Tasks have weights, and more tasks weigh more.
LEMMA WeightsArePositive ==
  ASSUME NEW T \in SUBSET Tasks
  PROVE  /\ IsFiniteSet(T) /\ Weights(T) \in Nat /\ Weights(T) <= Weights(Tasks)
         /\ T # {} => Weights(T) \in Nat \ {0}
         /\ \A t \in Tasks : Weight[t] \in Nat \ {0}
<1> DEFINE f == [t \in T |-> Weight[t]]
           g == [t \in Tasks |-> Weight[t]]
<1>1. IsFiniteSet(T) /\ IsFiniteSet(Tasks)
  BY PlanAssumption, FS_Subset
<1>2. \A t \in Tasks : Weight[t] \in Nat \ {0}
  BY PlanAssumption
<1>3. (\A t \in T : f[t] \in Nat /\ f[t] = g[t] /\ f[t] >= 1) /\ \A t \in Tasks : g[t] \in Nat
  BY <1>2
<1>4. Weights(T) = SumFunctionOnSet(f, T) /\ Weights(Tasks) = SumFunctionOnSet(g, Tasks)
  BY DEF Weights, SumFunction
<1> HIDE DEF f, g
<1>5. SumFunctionOnSet(f, T) \in Nat /\ \A t \in T : f[t] <= SumFunctionOnSet(f, T)
  BY <1>1, <1>3, SumNat
<1>6. SumFunctionOnSet(f, T) <= SumFunctionOnSet(g, Tasks)
  BY <1>1, <1>3, SumMore
<1>7. ASSUME T # {} PROVE Weights(T) # 0
  <2>1. PICK t \in T : TRUE
    BY <1>7
  <2>2. f[t] \in Nat /\ f[t] >= 1 /\ f[t] <= SumFunctionOnSet(f, T)
    BY <1>3, <1>5
  <2> QED
    BY <1>4, <1>5, <2>2
<1> QED
  BY <1>1, <1>2, <1>4, <1>5, <1>6, <1>7

\* The mean of a task's scores, in parts of Unit.
TaskMean(rs, c, t) ==
  (Unit \div Cardinality(Evaluated(rs, OfTask(c, t)))) * ScoreSum(rs, OfTask(c, t))

LEMMA TaskMeans ==
  ASSUME NEW rs \in [Samples -> Rows], NEW c \in Configs, NEW t \in MeasuredTasks(rs, c)
  PROVE  /\ t \in Tasks /\ Cardinality(Evaluated(rs, OfTask(c, t))) \in 1..Repeats
         /\ ScoreSum(rs, OfTask(c, t)) \in Nat /\ TaskMean(rs, c, t) \in Nat
         /\ Weight[t] * TaskMean(rs, c, t) \in Nat
<1>1. t \in Tasks /\ Evaluated(rs, OfTask(c, t)) # {}
  BY DEF MeasuredTasks
<1> DEFINE S == OfTask(c, t)
           n == Cardinality(Evaluated(rs, S))
<1>2. S \in SUBSET Samples /\ Repeats \in Nat \ {0} /\ Cardinality(S) = Repeats
  BY <1>1, PlannedOfTask
<1>3. /\ IsFiniteSet(S) /\ Evaluated(rs, S) \in SUBSET S /\ n \in Nat /\ n # 0
      /\ ScoreSum(rs, S) \in Nat
  BY <1>1, <1>2, ScoresAreNatural
<1>4. n \in 1..Repeats
  <2>1. n <= Cardinality(S)
    BY <1>3, SameSize
  <2> QED
    BY <1>2, <1>3, <2>1
<1>5. Unit \div n \in Nat
  <2> HIDE DEF n
  <2> QED
    BY <1>4, UnitDivides
<1>6. TaskMean(rs, c, t) = (Unit \div n) * ScoreSum(rs, S)
  BY DEF TaskMean
<1> HIDE DEF n, S
<1>7. TaskMean(rs, c, t) \in Nat
  BY <1>3, <1>5, <1>6
<1>8. Weight[t] \in Nat
  BY <1>1, PlanAssumption
<1>9. Weight[t] * TaskMean(rs, c, t) \in Nat
  BY <1>7, <1>8
<1> QED
  BY <1>1, <1>3, <1>4, <1>7, <1>9 DEF n, S

\* A model with a score has a mean, and one without has none.
LEMMA MeanIsFraction ==
  ASSUME NEW rs \in [Samples -> Rows], NEW c \in Configs
  PROVE  /\ IsFraction(weighted_mean(rs, c))
         /\ MeasuredTasks(rs, c) = {} => weighted_mean(rs, c) = Unknown
         /\ MeasuredTasks(rs, c) # {} =>
              /\ weighted_mean(rs, c).num =
                   SumFunction([t \in MeasuredTasks(rs, c) |-> Weight[t] * TaskMean(rs, c, t)])
              /\ weighted_mean(rs, c).num \in Nat
              /\ weighted_mean(rs, c).den = Unit * Weights(MeasuredTasks(rs, c))
<1> DEFINE M == MeasuredTasks(rs, c)
           f == [t \in M |-> Weight[t] * TaskMean(rs, c, t)]
           num == SumFunction(f)
           den == Unit * Weights(M)
<1>1. CASE M = {}
  <2>1. weighted_mean(rs, c) = Unknown
    BY <1>1 DEF weighted_mean
  <2>2. IsFraction(Unknown)
    BY DEF IsFraction, Unknown, Fraction, None
  <2> QED
    BY <1>1, <2>1, <2>2
<1>2. CASE M # {}
  <2>1. weighted_mean(rs, c) = Fraction(num, den)
    BY <1>2 DEF weighted_mean, TaskMean
  <2>2. num = SumFunctionOnSet(f, M) /\ M \in SUBSET Tasks
    BY DEF SumFunction, MeasuredTasks
  <2>3. IsFiniteSet(M) /\ Weights(M) \in Nat \ {0}
    BY <1>2, <2>2, WeightsArePositive
  <2>4. ASSUME NEW t \in M PROVE f[t] \in Nat
    BY <2>4, TaskMeans
  <2>5. SumFunctionOnSet(f, M) \in Nat
    <3> HIDE DEF f, M
    <3> QED
      BY <2>3, <2>4, SumNat
  <2>6. den \in Nat \ {0}
    <3>1. Unit \in Nat \ {0}
      BY PlanAssumption
    <3> DEFINE w == Weights(M)
    <3>2. w \in Nat \ {0}
      BY <2>3
    <3> HIDE DEF w
    <3>3. Unit * w \in Nat \ {0}
      BY <3>1, <3>2
    <3> QED
      BY <3>3 DEF w
  <2> HIDE DEF num, den
  <2>7. weighted_mean(rs, c).num = num /\ weighted_mean(rs, c).den = den
    BY <2>1 DEF Fraction
  <2>8. num \in Nat
    BY <2>2, <2>5
  <2> QED
    BY <1>2, <2>6, <2>7, <2>8 DEF IsFraction, num, den
<1> QED
  BY <1>1, <1>2

-----------------------------------------------------------------------------
(* The leaderboard. *)

LEMMA MedianIsFraction ==
  ASSUME NEW rs \in [Samples -> Rows], NEW S \in SUBSET Samples
  PROVE  IsFraction(metric_median(rs, S))
<1> DEFINE done == Evaluated(rs, S)
           n == Cardinality(done)
           X == {rs[s].score : s \in done}
           UpTo(x) == {s \in done : rs[s].score <= x}
<1>1. /\ IsFiniteSet(done) /\ n \in Nat /\ (n = 0 <=> done = {})
      /\ \A s \in done : rs[s].score \in Nat /\ rs[s].score <= 100
  BY ScoresAreNatural
<1>2. ASSUME NEW place \in Nat, place <= n, n # 0 PROVE ScoreAt(rs, S, place) \in Nat
  <2> DEFINE Y == {x \in X : Cardinality(UpTo(x)) >= place}
  <2>1. X \in SUBSET Nat /\ X # {} /\ \A x \in X : x <= 100
    BY <1>1, <1>2
  <2>2. PICK top \in X : \A x \in X : x <= top
    <3> HIDE DEF X
    <3> QED
      BY <2>1, GreatestExists
  <2>3. UpTo(top) = done
    <3>1. \A s \in done : rs[s].score \in X
      OBVIOUS
    <3> QED
      BY <2>2, <3>1
  <2>4. Y \in SUBSET Nat /\ Y # {}
    <3>1. Cardinality(UpTo(top)) >= place
      BY <1>1, <1>2, <2>3
    <3> QED
      BY <2>1, <3>1
  <2>5. \E x \in Y : \A y \in Y : x <= y
    <3> HIDE DEF Y
    <3> QED
      BY <2>4, LeastExists
  <2>6. ScoreAt(rs, S, place) = Min(Y)
    BY DEF ScoreAt
  <2>7. Min(Y) \in Y
    <3> HIDE DEF Y
    <3> QED
      BY <2>5 DEF Min
  <2> QED
    BY <2>4, <2>6, <2>7
<1>3. CASE n = 0
  <2>1. metric_median(rs, S) = Unknown
    BY <1>3 DEF metric_median
  <2> QED
    BY <2>1 DEF IsFraction, Unknown, Fraction, None
<1>4. CASE n # 0
  <2> HIDE DEF n
  <2>1. /\ (n + 1) \div 2 \in Nat /\ (n + 1) \div 2 <= n
        /\ n \div 2 + 1 \in Nat /\ n \div 2 + 1 <= n
    BY <1>1, <1>4
  <2> DEFINE a == ScoreAt(rs, S, (n + 1) \div 2)
             b == ScoreAt(rs, S, n \div 2 + 1)
  <2>2. a \in Nat /\ b \in Nat
    BY <1>2, <1>4, <2>1
  <2>3. metric_median(rs, S) = Fraction(a + b, 2)
    BY <1>4 DEF metric_median, n
  <2> HIDE DEF a, b
  <2> QED
    BY <2>2, <2>3 DEF IsFraction, Fraction
<1> QED
  BY <1>3, <1>4

Entries(rs) == {_entry(rs, c) : c \in Configs}
RankOf(rs) == {p \in Entries(rs) \X Entries(rs) : _rank_key(p[1], p[2])}

EntryOK(e) ==
  /\ e.config \in Nat /\ e.completed \in Nat
  /\ IsFraction(e.mean) /\ IsFraction(e.median)

LEMMA EntriesAreOK ==
  ASSUME NEW rs \in [Samples -> Rows]
  PROVE  /\ IsFiniteSet(Entries(rs))
         /\ \A e \in Entries(rs) : EntryOK(e)
         /\ \A d, e \in Entries(rs) : d.config = e.config => d = e
<1>1. IsFiniteSet(Entries(rs))
  <2> DEFINE f == [c \in Configs |-> _entry(rs, c)]
  <2>1. f \in Surjection(Configs, Entries(rs))
    BY DEF Surjection, Entries
  <2> HIDE DEF f
  <2> QED
    BY <2>1, PlanAssumption, FS_Surjection
<1>2. ASSUME NEW c \in Configs PROVE EntryOK(_entry(rs, c))
  <2> DEFINE e == _entry(rs, c)
  <2>1. Of(c) \in SUBSET Samples
    BY DEF Of, Samples
  <2>2. /\ e.config = c /\ e.mean = weighted_mean(rs, c) /\ e.median = metric_median(rs, Of(c))
        /\ e.completed = Cardinality(Evaluated(rs, Of(c)))
    BY DEF _entry
  <2> HIDE DEF e
  <2>3. IsFraction(e.mean) /\ IsFraction(e.median)
    BY <2>1, <2>2, MeanIsFraction, MedianIsFraction
  <2>4. e.completed \in Nat
    BY <2>1, <2>2, ScoresAreNatural
  <2>5. e.config \in Nat
    BY <2>2, PlanAssumption
  <2> QED
    BY <2>3, <2>4, <2>5 DEF EntryOK, e
<1>3. ASSUME NEW c \in Configs PROVE _entry(rs, c).config = c
  BY DEF _entry
<1> QED
  BY <1>1, <1>2, <1>3 DEF Entries

\* _rank_key decides between any two entries: by the mean, the completed evaluations, the
\* median and at last by the configuration.
LEMMA RankIsStrict ==
  ASSUME NEW rs \in [Samples -> Rows]
  PROVE  StrictOrder(RankOf(rs), Entries(rs))
<1>1. \A e \in Entries(rs) : EntryOK(e)
  BY EntriesAreOK
<1>2. \A d, e \in Entries(rs) : d.config = e.config => d = e
  BY EntriesAreOK
<1>3. ASSUME NEW x \in Entries(rs), NEW y \in Entries(rs)
      PROVE  <<x, y>> \in RankOf(rs) <=> _rank_key(x, y)
  BY DEF RankOf
<1>4. ASSUME NEW x \in Entries(rs) PROVE ~_rank_key(x, x)
  <2>1. EntryOK(x)
    BY <1>1
  <2>2. ~Less(x.mean, x.mean) /\ ~Less(x.median, x.median)
    BY <2>1, FractionOrder DEF EntryOK
  <2> QED
    BY <2>1, <2>2 DEF _rank_key, EntryOK
<1>5. ASSUME NEW x \in Entries(rs), NEW y \in Entries(rs), x # y
      PROVE  _rank_key(x, y) \/ _rank_key(y, x)
  <2>1. EntryOK(x) /\ EntryOK(y) /\ x.config # y.config
    BY <1>1, <1>2, <1>5
  <2>2. /\ Less(x.mean, y.mean) \/ Equal(x.mean, y.mean) \/ Less(y.mean, x.mean)
        /\ Equal(x.mean, y.mean) <=> Equal(y.mean, x.mean)
    BY <2>1, FractionOrder DEF EntryOK
  <2>3. /\ Less(x.median, y.median) \/ Equal(x.median, y.median) \/ Less(y.median, x.median)
        /\ Equal(x.median, y.median) <=> Equal(y.median, x.median)
    BY <2>1, FractionOrder DEF EntryOK
  <2> QED
    BY <2>1, <2>2, <2>3 DEF _rank_key, EntryOK
<1>6. ASSUME NEW x \in Entries(rs), NEW y \in Entries(rs), NEW z \in Entries(rs),
             _rank_key(x, y), _rank_key(y, z)
      PROVE  _rank_key(x, z)
  <2>1. EntryOK(x) /\ EntryOK(y) /\ EntryOK(z)
    BY <1>1
  <2>2. ASSUME NEW a, NEW b, NEW c, IsFraction(a), IsFraction(b), IsFraction(c)
        PROVE  /\ Less(b, a) /\ Less(c, b) => Less(c, a)
               /\ Less(b, a) /\ Equal(b, c) => Less(c, a)
               /\ Equal(a, b) /\ Less(c, b) => Less(c, a)
               /\ Equal(a, b) /\ Equal(b, c) => Equal(a, c)
    BY <2>2, FractionOrder
  <2>3. /\ Less(y.mean, x.mean) /\ Less(z.mean, y.mean) => Less(z.mean, x.mean)
        /\ Less(y.mean, x.mean) /\ Equal(y.mean, z.mean) => Less(z.mean, x.mean)
        /\ Equal(x.mean, y.mean) /\ Less(z.mean, y.mean) => Less(z.mean, x.mean)
        /\ Equal(x.mean, y.mean) /\ Equal(y.mean, z.mean) => Equal(x.mean, z.mean)
    BY <2>1, <2>2 DEF EntryOK
  <2>4. /\ Less(y.median, x.median) /\ Less(z.median, y.median) => Less(z.median, x.median)
        /\ Less(y.median, x.median) /\ Equal(y.median, z.median) => Less(z.median, x.median)
        /\ Equal(x.median, y.median) /\ Less(z.median, y.median) => Less(z.median, x.median)
        /\ Equal(x.median, y.median) /\ Equal(y.median, z.median) => Equal(x.median, z.median)
    BY <2>1, <2>2 DEF EntryOK
  <2> QED
    BY <1>6, <2>1, <2>3, <2>4 DEF _rank_key, EntryOK
<1> QED
  BY <1>3, <1>4, <1>5, <1>6 DEF StrictOrder

\* build_leaderboard: every model once, each before all that it ranks before.
LEMMA BoardIsRanked ==
  ASSUME NEW rs \in [Samples -> Rows]
  PROVE  LET board == build_leaderboard(rs)
             n == Cardinality(Entries(rs))
         IN /\ n \in Nat /\ DOMAIN board = 1..n
            /\ \A i \in 1..n : board[i] \in Entries(rs)
            /\ \A c \in Configs : \E i \in 1..n : board[i] = _entry(rs, c)
            /\ \A i, k \in 1..n : i < k <=> _rank_key(board[i], board[k])
<1> DEFINE board == build_leaderboard(rs)
           E == Entries(rs)
           R == RankOf(rs)
           n == Cardinality(E)
<1>1. board = [i \in 1..n |-> CHOOSE x \in E : Cardinality({y \in E : _rank_key(y, x)}) = i - 1]
  BY DEF build_leaderboard, InOrder, Entries
<1>2. \A x \in E : Under(R, E, x) = {y \in E : _rank_key(y, x)}
  BY DEF Under, RankOf
<1>3. board = [i \in 1..n |-> CHOOSE x \in E : Cardinality(Under(R, E, x)) = i - 1]
  <2> HIDE DEF R, E
  <2>1. \A i \in 1..n : (CHOOSE x \in E : Cardinality({y \in E : _rank_key(y, x)}) = i - 1)
                          = (CHOOSE x \in E : Cardinality(Under(R, E, x)) = i - 1)
    BY <1>2
  <2> QED
    BY <1>1, <2>1
<1>4. StrictOrder(R, E) /\ IsFiniteSet(E)
  BY RankIsStrict, EntriesAreOK
<1> HIDE DEF board
<1>5. /\ n \in Nat
      /\ \A i \in 1..n : board[i] \in E
      /\ \A x \in E : \E i \in 1..n : board[i] = x
      /\ \A i, k \in 1..n : i < k <=> <<board[i], board[k]>> \in R
  <2> HIDE DEF E, R
  <2> QED
    BY <1>3, <1>4, PlacedInOrder
<1>6. DOMAIN board = 1..n
  BY <1>3
<1>7. \A c \in Configs : \E i \in 1..n : board[i] = _entry(rs, c)
  <2>1. \A c \in Configs : _entry(rs, c) \in E
    BY DEF Entries
  <2> QED
    BY <1>5, <2>1
<1>8. \A i, k \in 1..n : i < k <=> _rank_key(board[i], board[k])
  <2>1. \A x, y \in E : <<x, y>> \in R <=> _rank_key(x, y)
    BY DEF RankOf
  <2> HIDE DEF E, R, n
  <2> QED
    BY <1>5, <2>1
<1> QED
  BY <1>5, <1>6, <1>7, <1>8 DEF board

\* A completed model has a mean, which is no fraction below zero.
LEMMA MeasuredHaveMeans ==
  ASSUME NEW rs \in [Samples -> Rows], NEW c \in Configs
  PROVE  /\ weighted_mean(rs, c) # Unknown <=> MeasuredTasks(rs, c) # {}
         /\ weighted_mean(rs, c) # Unknown => ~Less(weighted_mean(rs, c), Unknown)
<1> DEFINE m == weighted_mean(rs, c)
<1>1. /\ IsFraction(m) /\ (MeasuredTasks(rs, c) = {} => m = Unknown)
      /\ MeasuredTasks(rs, c) # {} => m.num \in Nat
  BY MeanIsFraction
<1>2. Unknown.num = -1 /\ Unknown.den = 1
  BY DEF Unknown, Fraction, None
<1> HIDE DEF m
<1>3. m # Unknown <=> MeasuredTasks(rs, c) # {}
  BY <1>1, <1>2
<1>4. ASSUME m.num \in Nat PROVE ~Less(m, Unknown)
  BY <1>1, <1>2, <1>4 DEF Less, IsFraction
<1> QED
  BY <1>1, <1>3, <1>4 DEF m

AllDone(rs, c) == \A s \in Of(c) : rs[s].status = "completed" /\ rs[s].artifact

\* evaluate_winner_eligibility compares counts: they are equal only when every planned
\* sample of the model was generated and evaluated.
LEMMA EligibleIsComplete ==
  ASSUME NEW rs \in [Samples -> Rows], \A s \in Samples : RowOK(rs[s]), NEW c \in Configs
  PROVE  /\ _entry(rs, c).config = c /\ _entry(rs, c).mean = weighted_mean(rs, c)
         /\ _entry(rs, c).eligible <=> AllDone(rs, c)
         /\ AllDone(rs, c) => /\ weighted_mean(rs, c) # Unknown
                              /\ \E s \in Samples : _snapshot(rs[s])
<1> DEFINE S == Of(c)
           G == Generated(rs, S)
           E == Evaluated(rs, S)
<1>1. S \in SUBSET Samples /\ IsFiniteSet(S)
  <2>1. S \in SUBSET Samples
    BY DEF Of, Samples
  <2> QED
    BY <2>1, FinitePlan, FS_Subset
<1>2. G \in SUBSET S /\ E \in SUBSET S
  BY DEF Generated, Evaluated
<1>3. PICK t \in Tasks, i \in Indices : TRUE
  BY PlanAssumption
<1>4. <<c, t, i>> \in S /\ <<c, t, i>> \in OfTask(c, t)
  BY <1>3 DEF Of, OfTask
<1>5. /\ _entry(rs, c).config = c /\ _entry(rs, c).mean = weighted_mean(rs, c)
      /\ _entry(rs, c).eligible = evaluate_winner_eligibility(Cardinality(S), Cardinality(G), Cardinality(E))
  BY DEF _entry
<1>6. AllDone(rs, c) <=> G = S /\ E = S
  <2>1. \A s \in S : rs[s].score # None <=> rs[s].status = "completed"
    BY <1>1 DEF RowOK
  <2>2. E = S <=> \A s \in S : rs[s].status = "completed"
    BY <2>1 DEF Evaluated
  <2>3. G = S <=> \A s \in S : rs[s].artifact
    BY DEF Generated
  <2> HIDE DEF S, G, E
  <2>4. AllDone(rs, c) <=> \A s \in S : rs[s].status = "completed" /\ rs[s].artifact
    BY DEF AllDone, S
  <2> QED
    BY <2>2, <2>3, <2>4
<1>7. evaluate_winner_eligibility(Cardinality(S), Cardinality(G), Cardinality(E)) <=> G = S /\ E = S
  <2> HIDE DEF S, G, E
  <2>1. /\ Cardinality(S) \in Nat /\ (Cardinality(G) = Cardinality(S) <=> G = S)
        /\ Cardinality(E) = Cardinality(S) <=> E = S
    BY <1>1, <1>2, SameSize
  <2>2. Cardinality(S) # 0
    BY <1>1, <1>4, FS_EmptySet
  <2> QED
    BY <2>1, <2>2 DEF evaluate_winner_eligibility
<1>8. ASSUME AllDone(rs, c)
      PROVE  weighted_mean(rs, c) # Unknown /\ \E s \in Samples : _snapshot(rs[s])
  <2>1. <<c, t, i>> \in Samples /\ rs[<<c, t, i>>].status = "completed"
    BY <1>1, <1>4, <1>8 DEF AllDone
  <2>2. rs[<<c, t, i>>].score # None
    BY <2>1 DEF RowOK
  <2>3. t \in MeasuredTasks(rs, c)
    BY <1>3, <1>4, <2>2 DEF MeasuredTasks, Evaluated
  <2> QED
    BY <2>1, <2>3, MeasuredHaveMeans DEF _snapshot
<1> QED
  BY <1>5, <1>6, <1>7, <1>8

\* First: the least of some places.
LEMMA FirstPlace ==
  ASSUME NEW board, NEW P \in SUBSET Nat
  PROVE  /\ P = {} => First(board, P) = {}
         /\ P # {} => \E i \in P : (\A k \in P : i <= k) /\ First(board, P) = {board[i].config}
<1>1. ASSUME P # {} PROVE \E i \in P : (\A k \in P : i <= k) /\ First(board, P) = {board[i].config}
  <2>1. \E x \in P : \A y \in P : x <= y
    BY <1>1, LeastExists
  <2>2. Min(P) \in P /\ \A k \in P : Min(P) <= k
    BY <2>1 DEF Min
  <2>3. First(board, P) = {board[Min(P)].config}
    BY <1>1 DEF First
  <2> QED
    BY <2>2, <2>3
<1> QED
  BY <1>1 DEF First

\* The first of some places of the leaderboard has the best mean of them.
LEMMA FirstIsBest ==
  ASSUME NEW rs \in [Samples -> Rows], NEW P \in SUBSET DOMAIN build_leaderboard(rs),
         NEW e \in First(build_leaderboard(rs), P)
  PROVE  \E i \in P : /\ e = build_leaderboard(rs)[i].config
                      /\ \A k \in P : ~Less(build_leaderboard(rs)[i].mean, build_leaderboard(rs)[k].mean)
<1> DEFINE board == build_leaderboard(rs)
           n == Cardinality(Entries(rs))
<1>1. /\ n \in Nat /\ DOMAIN board = 1..n /\ \A i \in 1..n : board[i] \in Entries(rs)
      /\ \A i, k \in 1..n : i < k <=> _rank_key(board[i], board[k])
  BY BoardIsRanked
<1> HIDE DEF board, n
<1>2. P \in SUBSET (1..n) /\ P \in SUBSET Nat /\ e \in First(board, P)
  BY <1>1 DEF board
<1>3. P # {}
  BY <1>2, FirstPlace
<1>4. PICK i \in P : (\A k \in P : i <= k) /\ First(board, P) = {board[i].config}
  BY <1>2, <1>3, FirstPlace
<1>5. ASSUME NEW k \in P PROVE ~Less(board[i].mean, board[k].mean)
  <2>1. EntryOK(board[i]) /\ EntryOK(board[k])
    BY <1>1, <1>2, EntriesAreOK
  <2>2. ~Less(board[i].mean, board[i].mean)
    BY <2>1, FractionOrder DEF EntryOK
  <2>3. CASE i = k
    BY <2>2, <2>3
  <2>4. CASE i < k
    <3>1. _rank_key(board[i], board[k])
      BY <1>1, <1>2, <2>4
    <3>2. Less(board[k].mean, board[i].mean) \/ Equal(board[i].mean, board[k].mean)
      BY <3>1 DEF _rank_key
    <3>3. /\ ~(Less(board[i].mean, board[k].mean) /\ Less(board[k].mean, board[i].mean))
          /\ ~(Less(board[i].mean, board[k].mean) /\ Equal(board[i].mean, board[k].mean))
      BY <2>1, FractionOrder DEF EntryOK
    <3> QED
      BY <3>2, <3>3
  <2>5. i \in Nat /\ k \in Nat /\ i <= k
    BY <1>2, <1>4
  <2> QED
    BY <2>3, <2>4, <2>5
<1> QED
  BY <1>2, <1>4, <1>5 DEF board

\* WinnersAreBest for the winners of some rows.
Best(rs, w) ==
  /\ \A e \in w.eligible :
       /\ AllDone(rs, e)
       /\ \A c \in Configs : AllDone(rs, c) => ~Less(weighted_mean(rs, e), weighted_mean(rs, c))
  /\ \A o \in w.observed : \A c \in Configs : ~Less(weighted_mean(rs, o), weighted_mean(rs, c))
  /\ w.eligible # {} => w.observed # {}
  /\ w.eligible = {} => \A c \in Configs : ~AllDone(rs, c)

LEMMA SelectedAreBest ==
  ASSUME NEW rs \in [Samples -> Rows], \A s \in Samples : RowOK(rs[s])
  PROVE  Best(rs, select_winners(Board(rs), TRUE))
<1> DEFINE w == select_winners(Board(rs), TRUE)
           board == build_leaderboard(rs)
           M == Measured(board)
           L == {i \in M : board[i].eligible}
<1>1. CASE ~ \E s \in Samples : _snapshot(rs[s])
  <2>1. Board(rs) = <<>>
    BY <1>1 DEF Board
  <2>2. Measured(<<>>) = {}
    BY DEF Measured
  <2>3. w.observed = {} /\ w.eligible = {}
    BY <2>1, <2>2 DEF select_winners, First
  <2>4. \A c \in Configs : ~AllDone(rs, c)
    BY <1>1, EligibleIsComplete
  <2> HIDE DEF w
  <2>5. Best(rs, w)
    BY <2>3, <2>4 DEF Best
  <2> QED
    BY <2>5 DEF w
<1>2. CASE \E s \in Samples : _snapshot(rs[s])
  <2> DEFINE n == Cardinality(Entries(rs))
  <2>1. Board(rs) = board
    BY <1>2 DEF Board
  <2>2. w.observed = First(board, M) /\ w.eligible = First(board, L)
    BY <2>1 DEF select_winners
  <2>3. /\ DOMAIN board = 1..n /\ \A i \in 1..n : board[i] \in Entries(rs)
        /\ \A c \in Configs : \E i \in 1..n : board[i] = _entry(rs, c)
    BY BoardIsRanked
  <2>4. M \in SUBSET DOMAIN board /\ M \in SUBSET Nat /\ L \in SUBSET M
    BY <2>3 DEF Measured
  <2>5. ASSUME NEW i \in DOMAIN board
        PROVE  /\ board[i].config \in Configs /\ board[i].mean = weighted_mean(rs, board[i].config)
               /\ i \in M <=> weighted_mean(rs, board[i].config) # Unknown
               /\ i \in L <=> AllDone(rs, board[i].config)
    <3>1. PICK c \in Configs : board[i] = _entry(rs, c)
      BY <2>3 DEF Entries
    <3>2. /\ board[i].config = c /\ board[i].mean = weighted_mean(rs, c)
          /\ board[i].eligible <=> AllDone(rs, c)
          /\ AllDone(rs, c) => weighted_mean(rs, c) # Unknown
      BY <3>1, EligibleIsComplete
    <3>3. i \in M <=> board[i].mean # Unknown
      BY DEF Measured
    <3> QED
      BY <3>2, <3>3
  <2>6. ASSUME NEW c \in Configs
        PROVE  \E k \in DOMAIN board : board[k].config = c
    <3>1. PICK k \in DOMAIN board : board[k] = _entry(rs, c)
      BY <2>3
    <3>2. board[k].config = c
      BY <3>1, EligibleIsComplete
    <3> QED
      BY <3>2
  <2> HIDE DEF w, M, L, board, n
  <2>7. ASSUME NEW P \in SUBSET DOMAIN board, NEW e \in First(board, P)
        PROVE  \E i \in P : /\ e = board[i].config
                            /\ \A k \in P : ~Less(board[i].mean, board[k].mean)
    BY FirstIsBest DEF board
  <2>8. ASSUME NEW e \in w.eligible
        PROVE  /\ AllDone(rs, e)
               /\ \A c \in Configs : AllDone(rs, c) => ~Less(weighted_mean(rs, e), weighted_mean(rs, c))
    <3>1. PICK i \in L : /\ e = board[i].config
                         /\ \A k \in L : ~Less(board[i].mean, board[k].mean)
      BY <2>2, <2>4, <2>7
    <3>2. i \in DOMAIN board /\ AllDone(rs, e) /\ board[i].mean = weighted_mean(rs, e)
      BY <2>4, <2>5, <3>1
    <3>3. ASSUME NEW c \in Configs, AllDone(rs, c) PROVE ~Less(weighted_mean(rs, e), weighted_mean(rs, c))
      <4>1. PICK k \in DOMAIN board : board[k].config = c
        BY <2>6
      <4>2. k \in L /\ board[k].mean = weighted_mean(rs, c)
        BY <2>5, <3>3, <4>1
      <4> QED
        BY <3>1, <3>2, <4>2
    <3> QED
      BY <3>2, <3>3
  <2>9. ASSUME NEW o \in w.observed, NEW c \in Configs
        PROVE  ~Less(weighted_mean(rs, o), weighted_mean(rs, c))
    <3>1. PICK i \in M : /\ o = board[i].config
                         /\ \A k \in M : ~Less(board[i].mean, board[k].mean)
      BY <2>2, <2>4, <2>7, <2>9
    <3>2. i \in DOMAIN board /\ o \in Configs /\ board[i].mean = weighted_mean(rs, o) /\ weighted_mean(rs, o) # Unknown
      BY <2>4, <2>5, <3>1
    <3>3. PICK k \in DOMAIN board : board[k].config = c
      BY <2>6, <2>9
    <3>4. board[k].mean = weighted_mean(rs, c) /\ (k \in M <=> weighted_mean(rs, c) # Unknown)
      BY <2>5, <3>3
    <3>5. CASE k \in M
      BY <3>1, <3>2, <3>4, <3>5
    <3>6. CASE k \notin M
      <4>1. ~Less(weighted_mean(rs, o), Unknown)
        BY <3>2, MeasuredHaveMeans
      <4> QED
        BY <3>4, <3>6, <4>1
    <3> QED
      BY <3>5, <3>6
  <2>10. (M = {} => First(board, M) = {}) /\ (M # {} => First(board, M) # {})
    BY <2>4, FirstPlace
  <2>11. (L = {} => First(board, L) = {}) /\ (L # {} => First(board, L) # {})
    <3>1. L \in SUBSET Nat
      BY <2>4
    <3> QED
      BY <3>1, FirstPlace
  <2>12. w.eligible # {} => w.observed # {}
    BY <2>2, <2>4, <2>10, <2>11
  <2>13. w.eligible = {} => \A c \in Configs : ~AllDone(rs, c)
    BY <2>2, <2>5, <2>6, <2>11
  <2>14. Best(rs, w)
    BY <2>8, <2>9, <2>12, <2>13 DEF Best
  <2> QED
    BY <2>14 DEF w
<1> QED
  BY <1>1, <1>2

-----------------------------------------------------------------------------
(* What is missing. *)

\* Factors that are not negative keep an order.
LEMMA Widened ==
  ASSUME NEW a \in Nat, NEW b \in Nat, a <= b, NEW k \in Nat
  PROVE  k * a \in Nat /\ k * b \in Nat /\ k * a <= k * b
<1>1. ASSUME k # 0 PROVE k * a <= k * b
  <2>1. k \in Nat \ {0}
    BY <1>1
  <2>2. a * k <= b * k
    BY <2>1, Times
  <2> QED
    BY <2>2
<1>2. ASSUME k = 0 PROVE k * a <= k * b
  BY <1>2
<1> QED
  BY <1>1, <1>2

\* The weighted scores of each task.
WeightedScores(rs, c) == [t \in Tasks |-> Weight[t] * ScoreSum(rs, OfTask(c, t))]

LEMMA AdjustedIs ==
  ASSUME NEW rs \in [Samples -> Rows], NEW c \in Configs
  PROVE  /\ \A t \in Tasks : /\ Weight[t] \in Nat /\ ScoreSum(rs, OfTask(c, t)) \in Nat
                             /\ WeightedScores(rs, c)[t] \in Nat
         /\ coverage_adjusted(rs, c).num = SumFunctionOnSet(WeightedScores(rs, c), Tasks)
         /\ coverage_adjusted(rs, c).num \in Nat
         /\ coverage_adjusted(rs, c).den = Repeats * Weights(Tasks)
         /\ Repeats \in Nat \ {0} /\ Weights(Tasks) \in Nat \ {0} /\ Unit \in Nat \ {0}
         /\ Repeats * Weights(Tasks) \in Nat \ {0}
<1> DEFINE f == WeightedScores(rs, c)
<1>1. ASSUME NEW t \in Tasks
      PROVE  Weight[t] \in Nat /\ ScoreSum(rs, OfTask(c, t)) \in Nat /\ f[t] \in Nat
  <2> DEFINE x == ScoreSum(rs, OfTask(c, t))
  <2>1. Weight[t] \in Nat
    BY PlanAssumption
  <2>2. x \in Nat
    BY PlannedOfTask, ScoresAreNatural
  <2>3. f[t] = Weight[t] * x
    BY DEF WeightedScores
  <2> HIDE DEF f, x
  <2>4. f[t] \in Nat
    BY <2>1, <2>2, <2>3
  <2> QED
    BY <2>1, <2>2, <2>4 DEF x
<1>2. IsFiniteSet(Tasks) /\ Weights(Tasks) \in Nat \ {0} /\ Unit \in Nat \ {0}
  BY PlanAssumption, WeightsArePositive
<1>3. Repeats \in Nat \ {0}
  <2>1. PICK t \in Tasks : TRUE
    BY PlanAssumption
  <2> QED
    BY <2>1, PlannedOfTask
<1>4. /\ coverage_adjusted(rs, c).num = SumFunction(f)
      /\ coverage_adjusted(rs, c).den = Repeats * Weights(Tasks)
  BY DEF coverage_adjusted, Fraction, WeightedScores
<1>5. SumFunction(f) = SumFunctionOnSet(f, Tasks)
  BY DEF SumFunction, WeightedScores
<1> HIDE DEF f
<1>6. SumFunctionOnSet(f, Tasks) \in Nat
  BY <1>1, <1>2, SumNat
<1> DEFINE w == Weights(Tasks)
<1>7. Repeats * w \in Nat \ {0}
  <2>1. w \in Nat \ {0}
    BY <1>2
  <2> HIDE DEF w
  <2> QED
    BY <1>3, <2>1
<1> QED
  BY <1>1, <1>2, <1>3, <1>4, <1>5, <1>6, <1>7 DEF f

\* A task's mean over its completed scores is at least that over its planned ones, and
\* the same when all are completed.
LEMMA MeansAreShares ==
  ASSUME NEW rs \in [Samples -> Rows], NEW c \in Configs, NEW t \in MeasuredTasks(rs, c)
  PROVE  LET x == Weight[t] * TaskMean(rs, c, t)
             y == Weight[t] * ScoreSum(rs, OfTask(c, t))
         IN /\ x \in Nat /\ y \in Nat
            /\ Repeats * x \in Nat /\ Unit * y \in Nat /\ Unit * y <= Repeats * x
            /\ Cardinality(Evaluated(rs, OfTask(c, t))) = Repeats => Repeats * x = Unit * y
<1> DEFINE n == Cardinality(Evaluated(rs, OfTask(c, t)))
           u == Unit \div n
           v == ScoreSum(rs, OfTask(c, t))
           W == Weight[t]
<1>1. t \in Tasks /\ n \in 1..Repeats /\ v \in Nat /\ TaskMean(rs, c, t) = u * v
  BY TaskMeans DEF TaskMean
<1>2. W \in Nat /\ Repeats \in Nat \ {0}
  BY <1>1, AdjustedIs
<1>3. u \in Nat \ {0} /\ Unit = n * u
  <2> HIDE DEF n
  <2> QED
    BY <1>1, UnitDivides
<1> HIDE DEF n, u, v, W
<1> DEFINE p == W * (u * v)
<1>4. p \in Nat
  BY <1>1, <1>2, <1>3
<1>5. n \in Nat /\ n <= Repeats
  BY <1>1, <1>2
<1>6. Unit * (W * v) = n * p /\ W * v \in Nat
  <2>1. (n * u) * (W * v) = n * (W * (u * v)) /\ W * v \in Nat
    BY <1>1, <1>2, <1>3, <1>5
  <2> QED
    BY <1>3, <2>1
<1>7. p * n <= p * Repeats /\ p * n \in Nat /\ p * Repeats \in Nat
  <2> HIDE DEF p
  <2> QED
    BY <1>2, <1>4, <1>5, Widened
<1>8. n * p = p * n /\ Repeats * p = p * Repeats
  <2> HIDE DEF p
  <2> QED
    BY <1>2, <1>4, <1>5
<1>9. W * TaskMean(rs, c, t) = p
  BY <1>1
<1> HIDE DEF p
<1>10. /\ Repeats * p \in Nat /\ Unit * (W * v) \in Nat /\ Unit * (W * v) <= Repeats * p
       /\ n = Repeats => Repeats * p = Unit * (W * v)
  BY <1>6, <1>7, <1>8
<1> QED
  BY <1>4, <1>6, <1>9, <1>10 DEF n, v, W

\* Sums of the shares of all the measured tasks.
LEMMA MeanIsAShare ==
  ASSUME NEW rs \in [Samples -> Rows], NEW c \in Configs, MeasuredTasks(rs, c) # {}
  PROVE  LET m == weighted_mean(rs, c).num
             a == coverage_adjusted(rs, c).num
         IN /\ m \in Nat /\ a \in Nat /\ Unit * a <= Repeats * m
            /\ (\A t \in MeasuredTasks(rs, c) : Cardinality(Evaluated(rs, OfTask(c, t))) = Repeats)
                 => Repeats * m = Unit * a
<1> DEFINE M == MeasuredTasks(rs, c)
           f == [t \in M |-> Weight[t] * TaskMean(rs, c, t)]
           g == [t \in M |-> Repeats * (Weight[t] * TaskMean(rs, c, t))]
           s == [t \in M |-> Weight[t] * ScoreSum(rs, OfTask(c, t))]
           h == [t \in M |-> Unit * (Weight[t] * ScoreSum(rs, OfTask(c, t)))]
           m == weighted_mean(rs, c).num
           a == coverage_adjusted(rs, c).num
           ws == WeightedScores(rs, c)
           AllShare == \A t \in M : Cardinality(Evaluated(rs, OfTask(c, t))) = Repeats
<1>1. M \in SUBSET Tasks /\ IsFiniteSet(M) /\ IsFiniteSet(Tasks)
  <2>1. M \in SUBSET Tasks
    BY DEF MeasuredTasks
  <2> QED
    BY <2>1, PlanAssumption, FS_Subset
<1>2. m = SumFunctionOnSet(f, M) /\ m \in Nat
  <2>1. m = SumFunction(f) /\ m \in Nat
    BY MeanIsFraction
  <2> QED
    BY <2>1 DEF SumFunction
<1>3. /\ a \in Nat /\ a = SumFunctionOnSet(ws, Tasks) /\ Repeats \in Nat \ {0} /\ Unit \in Nat \ {0}
      /\ \A t \in Tasks : ws[t] \in Nat
  BY AdjustedIs
<1>4. ASSUME NEW t \in M
      PROVE  /\ f[t] \in Nat /\ s[t] \in Nat /\ g[t] \in Nat /\ h[t] \in Nat
             /\ g[t] = Repeats * f[t] /\ h[t] = Unit * s[t] /\ h[t] <= g[t]
             /\ AllShare => h[t] = g[t]
             /\ s[t] = ws[t]
  <2>1. s[t] = ws[t]
    BY <1>1 DEF WeightedScores
  <2> DEFINE x == Weight[t] * TaskMean(rs, c, t)
             y == Weight[t] * ScoreSum(rs, OfTask(c, t))
  <2>2. /\ x \in Nat /\ y \in Nat /\ Repeats * x \in Nat /\ Unit * y \in Nat /\ Unit * y <= Repeats * x
        /\ Cardinality(Evaluated(rs, OfTask(c, t))) = Repeats => Repeats * x = Unit * y
    BY MeansAreShares
  <2>3. f[t] = x /\ s[t] = y /\ g[t] = Repeats * x /\ h[t] = Unit * y
    OBVIOUS
  <2>4. AllShare => Cardinality(Evaluated(rs, OfTask(c, t))) = Repeats
    OBVIOUS
  <2> HIDE DEF f, g, s, h, x, y, AllShare, M, ws
  <2> QED
    BY <2>1, <2>2, <2>3, <2>4
<1>5. ASSUME NEW t \in Tasks \ M PROVE ws[t] = 0
  <2>1. Evaluated(rs, OfTask(c, t)) = {}
    BY DEF MeasuredTasks
  <2>2. ScoreSum(rs, OfTask(c, t)) = SumFunctionOnSet([u \in {} |-> rs[u].score], {})
    BY <2>1 DEF ScoreSum, SumFunction
  <2>3. ScoreSum(rs, OfTask(c, t)) = 0
    BY <2>2, SumEmpty
  <2>4. Weight[t] \in Nat /\ ws[t] = Weight[t] * ScoreSum(rs, OfTask(c, t))
    BY AdjustedIs DEF WeightedScores
  <2> QED
    BY <2>3, <2>4
<1> HIDE DEF f, g, s, h, ws, M, m, a, AllShare
<1>6. SumFunctionOnSet(s, M) = a
  <2>1. /\ \A t \in M : s[t] = ws[t]
        /\ \A t \in Tasks \ M : ws[t] = 0
        /\ \A t \in Tasks : ws[t] \in Int
    BY <1>3, <1>4, <1>5
  <2>2. SumFunctionOnSet(s, M) = SumFunctionOnSet(ws, Tasks)
    BY <1>1, <2>1, SumPadded
  <2> QED
    BY <1>3, <2>2
<1>7. SumFunctionOnSet(g, M) = Repeats * m
  <2>1. \A t \in M : f[t] \in Int /\ g[t] = Repeats * f[t]
    BY <1>4
  <2>2. SumFunctionOnSet(g, M) = Repeats * SumFunctionOnSet(f, M)
    BY <1>1, <1>3, <2>1, SumScaled
  <2> QED
    BY <1>2, <2>2
<1>8. SumFunctionOnSet(h, M) = Unit * a
  <2>1. \A t \in M : s[t] \in Int /\ h[t] = Unit * s[t]
    BY <1>4
  <2>2. SumFunctionOnSet(h, M) = Unit * SumFunctionOnSet(s, M)
    BY <1>1, <1>3, <2>1, SumScaled
  <2> QED
    BY <1>6, <2>2
<1>9. SumFunctionOnSet(h, M) <= SumFunctionOnSet(g, M)
  <2>1. \A t \in M : h[t] \in Int /\ g[t] \in Int /\ h[t] <= g[t]
    BY <1>4
  <2> QED
    BY <1>1, <2>1, SumGrows
<1>10. ASSUME AllShare PROVE SumFunctionOnSet(h, M) = SumFunctionOnSet(g, M)
  <2>1. \A t \in M : h[t] \in Int /\ h[t] = g[t]
    BY <1>4, <1>10
  <2> QED
    BY <1>1, <2>1, SumSame
<1>11. m \in Nat /\ a \in Nat /\ Unit * a <= Repeats * m /\ (AllShare => Repeats * m = Unit * a)
  BY <1>2, <1>3, <1>7, <1>8, <1>9, <1>10
<1> QED
  BY <1>11 DEF m, a, AllShare, M

\* MissingNeverHelps, its first two parts: the adjusted score against the primary one.
LEMMA AdjustedIsNoBetter ==
  ASSUME NEW rs \in [Samples -> Rows], NEW c \in Configs
  PROVE  LET mean == weighted_mean(rs, c)
             adjusted == coverage_adjusted(rs, c)
         IN /\ mean # Unknown => ~Less(mean, adjusted)
            /\ Evaluated(rs, Of(c)) = Of(c) => Equal(mean, adjusted)
<1> DEFINE M == MeasuredTasks(rs, c)
           mean == weighted_mean(rs, c)
           adjusted == coverage_adjusted(rs, c)
           m == mean.num
           a == adjusted.num
           part == Weights(M)
           all == Weights(Tasks)
           AllShare == \A t \in M : Cardinality(Evaluated(rs, OfTask(c, t))) = Repeats
<1>1. mean # Unknown => M # {}
  BY MeasuredHaveMeans
<1>2. ASSUME Evaluated(rs, Of(c)) = Of(c) PROVE M = Tasks /\ AllShare /\ M # {}
  <2>1. ASSUME NEW t \in Tasks
        PROVE  t \in M /\ Cardinality(Evaluated(rs, OfTask(c, t))) = Repeats
    <3>1. OfTask(c, t) \in SUBSET Of(c) /\ Cardinality(OfTask(c, t)) = Repeats
      BY PlannedOfTask
    <3>2. Evaluated(rs, OfTask(c, t)) = OfTask(c, t)
      BY <1>2, <3>1 DEF Evaluated
    <3>3. OfTask(c, t) # {}
      <4>1. PICK i \in Indices : TRUE
        BY PlanAssumption
      <4>2. <<c, t, i>> \in OfTask(c, t)
        BY <4>1 DEF OfTask
      <4> QED
        BY <4>2
    <3> QED
      BY <3>1, <3>2, <3>3 DEF MeasuredTasks
  <2>2. M \subseteq Tasks /\ Tasks # {}
    BY PlanAssumption DEF MeasuredTasks
  <2> QED
    BY <2>1, <2>2
<1>3. ASSUME M # {}
      PROVE  /\ a * (Unit * part) <= m * (Repeats * all)
             /\ AllShare /\ M = Tasks => m * (Repeats * all) = a * (Unit * part)
             /\ mean.den = Unit * part /\ adjusted.den = Repeats * all
             /\ a * (Unit * part) \in Int /\ m * (Repeats * all) \in Int
  <2>1. /\ m \in Nat /\ a \in Nat /\ Unit * a <= Repeats * m
        /\ AllShare => Repeats * m = Unit * a
    BY <1>3, MeanIsAShare
  <2>2. Repeats \in Nat \ {0} /\ Unit \in Nat \ {0} /\ all \in Nat \ {0} /\ adjusted.den = Repeats * all
    BY AdjustedIs
  <2>3. part \in Nat /\ part <= all
    <3>1. M \in SUBSET Tasks
      BY DEF MeasuredTasks
    <3> QED
      BY <3>1, WeightsArePositive
  <2>4. mean.den = Unit * part
    BY <1>3, MeanIsFraction
  <2>5. M = Tasks => part = all
    OBVIOUS
  <2> HIDE DEF m, a, part, all, AllShare, M, mean, adjusted
  <2> DEFINE p == Repeats * m
             q == Unit * a
  <2>6. p \in Nat /\ q \in Nat /\ q <= p /\ (AllShare => p = q)
    BY <2>1, <2>2
  <2>7. a * (Unit * part) = part * q /\ m * (Repeats * all) = p * all
    BY <2>1, <2>2, <2>3
  <2> HIDE DEF p, q
  <2>8. part * q \in Nat /\ part * p \in Nat /\ part * q <= part * p
    BY <2>3, <2>6, Widened
  <2>9. p * part \in Nat /\ p * all \in Nat /\ p * part <= p * all
    BY <2>2, <2>3, <2>6, Widened
  <2>10. part * p = p * part
    BY <2>3, <2>6
  <2>11. M = Tasks /\ AllShare => p * all = part * q
    BY <2>5, <2>6, <2>10
  <2> QED
    BY <2>2, <2>4, <2>7, <2>8, <2>9, <2>10, <2>11
<1> HIDE DEF part, all, M, mean, adjusted, AllShare
<1>4. ASSUME M # {} PROVE ~Less(mean, adjusted)
  BY <1>3, <1>4 DEF Less
<1>5. ASSUME M # {}, M = Tasks, AllShare PROVE Equal(mean, adjusted)
  BY <1>3, <1>5 DEF Equal
<1> QED
  BY <1>1, <1>2, <1>4, <1>5 DEF mean, adjusted

\* MissingNeverHelps, its third part: without one of the evaluations.
LEMMA FewerIsNoBetter ==
  ASSUME NEW rs \in [Samples -> Rows], NEW c \in Configs, NEW s \in Evaluated(rs, Of(c))
  PROVE  ~Less(coverage_adjusted(rs, c), coverage_adjusted([rs EXCEPT ![s] = NewRow], c))
<1> DEFINE less == [rs EXCEPT ![s] = NewRow]
           f == WeightedScores(rs, c)
           g == WeightedScores(less, c)
<1>1. NewRow \in Rows /\ NewRow.score = None
  BY DEF NewRow, Rows
<1>2. less \in [Samples -> Rows]
  BY <1>1
<1>3. ASSUME NEW t \in Tasks PROVE ScoreSum(less, OfTask(c, t)) <= ScoreSum(rs, OfTask(c, t))
  <2> DEFINE S == OfTask(c, t)
             D == Evaluated(rs, S)
             E == Evaluated(less, S)
             x == [u \in D |-> rs[u].score]
             y == [u \in E |-> less[u].score]
  <2>1. S \in SUBSET Samples /\ s \in Samples
    BY PlannedOfTask DEF Evaluated, Of, Samples
  <2>2. E \in SUBSET D /\ \A u \in E : less[u] = rs[u]
    BY <1>1, <2>1 DEF Evaluated
  <2>3. IsFiniteSet(D) /\ \A u \in D : rs[u].score \in Nat
    BY <2>1, ScoresAreNatural
  <2>4. (\A u \in D : x[u] \in Nat) /\ \A u \in E : y[u] = x[u]
    <3>1. \A u \in D : x[u] = rs[u].score
      OBVIOUS
    <3>2. \A u \in E : y[u] = less[u].score
      OBVIOUS
    <3> HIDE DEF x, y, D, E, less
    <3> QED
      BY <2>2, <2>3, <3>1, <3>2
  <2>5. ScoreSum(rs, S) = SumFunctionOnSet(x, D) /\ ScoreSum(less, S) = SumFunctionOnSet(y, E)
    BY DEF ScoreSum, SumFunction
  <2> HIDE DEF x, y, D, E
  <2>6. SumFunctionOnSet(y, E) <= SumFunctionOnSet(x, D)
    BY <2>2, <2>3, <2>4, SumMore
  <2> QED
    BY <2>5, <2>6
<1> DEFINE a == coverage_adjusted(rs, c)
           b == coverage_adjusted(less, c)
           d == Repeats * Weights(Tasks)
<1>4. /\ a.num \in Nat /\ a.num = SumFunctionOnSet(f, Tasks) /\ a.den = d /\ d \in Nat \ {0}
      /\ \A t \in Tasks : f[t] \in Nat /\ Weight[t] \in Nat /\ ScoreSum(rs, OfTask(c, t)) \in Nat
  BY AdjustedIs
<1>5. /\ b.num \in Nat /\ b.num = SumFunctionOnSet(g, Tasks) /\ b.den = d
      /\ \A t \in Tasks : g[t] \in Nat /\ ScoreSum(less, OfTask(c, t)) \in Nat
  <2> HIDE DEF less
  <2> QED
    BY <1>2, AdjustedIs
<1>6. ASSUME NEW t \in Tasks PROVE g[t] <= f[t]
  <2> DEFINE v == ScoreSum(less, OfTask(c, t))
             w == ScoreSum(rs, OfTask(c, t))
  <2>1. g[t] = Weight[t] * v /\ f[t] = Weight[t] * w
    BY DEF WeightedScores
  <2>2. v \in Nat /\ w \in Nat /\ v <= w /\ Weight[t] \in Nat
    BY <1>3, <1>4, <1>5
  <2> HIDE DEF v, w
  <2> QED
    BY <2>1, <2>2, Widened
<1> HIDE DEF f, g, a, b, d
<1>7. b.num <= a.num
  <2>1. IsFiniteSet(Tasks) /\ \A t \in Tasks : g[t] \in Int /\ f[t] \in Int /\ g[t] <= f[t]
    BY <1>4, <1>5, <1>6, PlanAssumption
  <2>2. SumFunctionOnSet(g, Tasks) <= SumFunctionOnSet(f, Tasks)
    BY <2>1, SumGrows
  <2> QED
    BY <1>4, <1>5, <2>2
<1>8. b.num * d <= a.num * d /\ b.num * d \in Int /\ a.num * d \in Int
  <2>1. a.num \in Int /\ b.num \in Int /\ d \in Nat \ {0}
    BY <1>4, <1>5
  <2> QED
    BY <1>7, <2>1, Times
<1> QED
  BY <1>4, <1>5, <1>8 DEF Less, a, b

-----------------------------------------------------------------------------
(* The parts of a document. *)

\* The places of the models that may win: by their entries, and by their documents.
Qualified(board) == {i \in Measured(board) : board[i].eligible}
QualifiedBy(shown, models) ==
  {i \in Measured(shown) : eligibility_from_model_document(models[shown[i].config])}

\* The winners that are derived from the model documents and the leaderboard.
LEMMA DerivedWinners ==
  ASSUME NEW rs \in [Samples -> Rows],
         NEW board, board = Board(rs),
         NEW shown, shown = [i \in DOMAIN board |-> [config |-> board[i].config, mean |-> board[i].mean]],
         NEW models, models = [c \in Configs |-> _model_document(rs, c)]
  PROVE  /\ First(shown, Measured(shown)) = First(board, Measured(board))
         /\ First(shown, QualifiedBy(shown, models)) = First(board, Qualified(board))
         /\ First(board, Measured(board)) = {} => First(board, Qualified(board)) = {}
<1> DEFINE n == Cardinality(Entries(rs))
           M == Measured(board)
           L == {i \in M : board[i].eligible}
           N == Measured(shown)
           K == {i \in N : eligibility_from_model_document(models[shown[i].config])}
<1>1. /\ n \in Nat /\ DOMAIN board \in SUBSET (1..n)
      /\ \A i \in DOMAIN board : board[i] \in Entries(rs)
  <2>1. /\ n \in Nat /\ DOMAIN build_leaderboard(rs) = 1..n
        /\ \A i \in 1..n : build_leaderboard(rs)[i] \in Entries(rs)
    BY BoardIsRanked
  <2>2. CASE board = build_leaderboard(rs)
    BY <2>1, <2>2
  <2>3. CASE board = <<>>
    BY <2>1, <2>3
  <2>4. board = build_leaderboard(rs) \/ board = <<>>
    BY DEF Board
  <2> QED
    BY <2>2, <2>3, <2>4
<1>2. ASSUME NEW i \in DOMAIN board
      PROVE  /\ i \in DOMAIN shown /\ shown[i].config = board[i].config /\ shown[i].mean = board[i].mean
             /\ eligibility_from_model_document(models[shown[i].config]) <=> board[i].eligible
  <2>1. PICK c \in Configs : board[i] = _entry(rs, c)
    BY <1>1 DEF Entries
  <2>2. /\ board[i].config = c
        /\ board[i].eligible = evaluate_winner_eligibility(Cardinality(Of(c)), Cardinality(Generated(rs, Of(c))),
                                                           Cardinality(Evaluated(rs, Of(c))))
    BY <2>1 DEF _entry
  <2>3. shown[i].config = board[i].config /\ shown[i].mean = board[i].mean
    OBVIOUS
  <2>4. models[c] = _model_document(rs, c)
    OBVIOUS
  <2>5. /\ models[c].planned = Cardinality(Of(c))
        /\ models[c].successful = Cardinality(Generated(rs, Of(c)))
        /\ models[c].completed = Cardinality(Evaluated(rs, Of(c)))
    BY <2>4 DEF _model_document
  <2>6. eligibility_from_model_document(models[c])
          = evaluate_winner_eligibility(Cardinality(Of(c)), Cardinality(Generated(rs, Of(c))),
                                        Cardinality(Evaluated(rs, Of(c))))
    BY <2>5 DEF eligibility_from_model_document
  <2> QED
    BY <2>2, <2>3, <2>6
<1>3. DOMAIN shown = DOMAIN board
  OBVIOUS
<1>4. N = M /\ K = L /\ M \in SUBSET Nat /\ L \in SUBSET Nat /\ M \subseteq DOMAIN board /\ L \subseteq M
  <2>1. N = M
    BY <1>2, <1>3 DEF Measured
  <2>2. M \subseteq DOMAIN board
    BY DEF Measured
  <2>3. K = L
    BY <1>2, <2>1, <2>2
  <2>4. L \subseteq M
    OBVIOUS
  <2> HIDE DEF M, L, N, K
  <2>5. M \in SUBSET Nat
    BY <1>1, <2>2
  <2> QED
    BY <2>1, <2>2, <2>3, <2>4, <2>5
<1>5. ASSUME NEW P \in SUBSET Nat, P \subseteq DOMAIN board PROVE First(shown, P) = First(board, P)
  <2>1. CASE P = {}
    BY <2>1 DEF First
  <2>2. CASE P # {}
    <3>1. \E x \in P : \A y \in P : x <= y
      BY <2>2, LeastExists
    <3>2. Min(P) \in P
      BY <3>1 DEF Min
    <3>3. shown[Min(P)].config = board[Min(P)].config
      BY <1>2, <1>5, <3>2
    <3> QED
      BY <2>2, <3>3 DEF First
  <2> QED
    BY <2>1, <2>2
<1> HIDE DEF M, L, N, K
<1>6. First(board, M) = {} => L = {}
  BY <1>4, FirstPlace
<1>7. First(shown, N) = First(board, M) /\ First(shown, K) = First(board, L)
  BY <1>4, <1>5
<1>8. First(board, M) = {} => First(board, L) = {}
  BY <1>6 DEF First
<1> QED
  BY <1>7, <1>8 DEF M, L, N, K, Qualified, QualifiedBy

LEMMA WinnersAgree ==
  ASSUME NEW rs \in [Samples -> Rows], NEW d,
         d.winners = select_winners(Board(rs), d.status \in _TERMINAL_RUNS),
         d.leaderboard = [i \in DOMAIN Board(rs) |-> [config |-> Board(rs)[i].config, mean |-> Board(rs)[i].mean]],
         d.models = [c \in Configs |-> _model_document(rs, c)],
         NEW recorded \in BOOLEAN
  PROVE  _winners_section(d, recorded) = <<d.winners.observed, d.winners.eligible>>
<1> DEFINE board == Board(rs)
           shown == d.leaderboard
           models == d.models
           observed == First(board, Measured(board))
           eligible == First(board, Qualified(board))
           w == _export_document_winners(d, recorded)
<1>1. CASE d.status \notin _TERMINAL_RUNS
  <2>1. d.winners = [observed |-> {}, eligible |-> {}, final |-> FALSE]
    BY <1>1 DEF select_winners
  <2>2. w = [observed |-> {}, eligible |-> {}, final |-> FALSE]
    BY <1>1, <2>1 DEF _export_document_winners
  <2>3. _winners_section(d, recorded) = <<{}, {}>>
    BY <2>2 DEF _winners_section
  <2> QED
    BY <2>1, <2>3
<1>2. CASE d.status \in _TERMINAL_RUNS
  <2>1. d.winners = [observed |-> observed, eligible |-> eligible, final |-> TRUE]
    BY <1>2 DEF select_winners, Qualified
  <2>2. /\ First(shown, Measured(shown)) = observed
        /\ First(shown, QualifiedBy(shown, models)) = eligible
        /\ observed = {} => eligible = {}
    <3>1. /\ board = Board(rs) /\ models = [c \in Configs |-> _model_document(rs, c)]
          /\ shown = [i \in DOMAIN board |-> [config |-> board[i].config, mean |-> board[i].mean]]
      OBVIOUS
    <3> HIDE DEF board, shown, models
    <3> QED
      BY <3>1, DerivedWinners
  <2>3. ~recorded => w = [observed |-> First(shown, Measured(shown)),
                          eligible |-> First(shown, QualifiedBy(shown, models)), final |-> TRUE]
    BY <1>2 DEF _export_document_winners, QualifiedBy
  <2>4. recorded => w = d.winners
    BY DEF _export_document_winners
  <2>5. _winners_section(d, recorded) = IF ~w.final \/ w.observed = {} THEN <<{}, {}>> ELSE <<w.observed, w.eligible>>
    BY DEF _winners_section
  <2>6. w = [observed |-> observed, eligible |-> eligible, final |-> TRUE]
    <3> HIDE DEF observed, eligible, w, shown, models
    <3> QED
      BY <2>1, <2>2, <2>3, <2>4
  <2> HIDE DEF observed, eligible, w, shown, models
  <2>7. _winners_section(d, recorded) = <<observed, eligible>>
    BY <2>2, <2>5, <2>6
  <2> QED
    BY <2>1, <2>7
<1> QED
  BY <1>1, <1>2

\* The samples of a set are counted by their models.
LEMMA CountedByModel ==
  ASSUME NEW S \in SUBSET Samples, NEW n, DOMAIN n = Configs,
         \A c \in Configs : n[c] = Cardinality({s \in Of(c) : s \in S})
  PROVE  SumFunction(n) = Cardinality(S)
<1> DEFINE g == [s \in S |-> s[1]]
<1>1. IsFiniteSet(S) /\ IsFiniteSet(Configs)
  BY FinitePlan, FS_Subset, PlanAssumption
<1>2. \A s \in S : g[s] \in Configs
  BY DEF Samples
<1>3. ASSUME NEW c \in Configs PROVE n[c] = Cardinality(Part(S, g, c))
  <2>1. {s \in Of(c) : s \in S} = Part(S, g, c)
    BY DEF Part, Of, Samples
  <2> QED
    BY <2>1
<1> HIDE DEF g
<1>4. SumFunctionOnSet(n, Configs) = Cardinality(S)
  BY <1>1, <1>2, <1>3, CountedByParts
<1> QED
  BY <1>4 DEF SumFunction

LEMMA DocumentAgrees ==
  ASSUME RunOK, NEW status, NEW d, d = Document(status)
  PROVE  Agrees(d)
<1>1. /\ d.status = status /\ d.models = [c \in Configs |-> _model_document(rows, c)]
      /\ d.winners = select_winners(Board(rows), d.status \in _TERMINAL_RUNS)
      /\ d.leaderboard = [i \in DOMAIN Board(rows) |-> [config |-> Board(rows)[i].config, mean |-> Board(rows)[i].mean]]
      /\ d.totals = _totals(rows)
  BY DEF Document, result_rows
<1>2. rows \in [Samples -> Rows] /\ \A s \in Samples : RowOK(rows[s])
  BY DEF RunOK
<1>3. ASSUME NEW recorded \in BOOLEAN
      PROVE  _winners_section(d, recorded) = <<d.winners.observed, d.winners.eligible>>
  BY <1>1, <1>2, WinnersAgree
<1> DEFINE C == {s \in Samples : rows[s].status = "completed"}
           G == {s \in Samples : rows[s].status = "generation_failed"}
           n == [c \in Configs |-> d.models[c].completed]
           m == [c \in Configs |-> d.models[c].generation_failures]
<1>4. ASSUME NEW c \in Configs
      PROVE  /\ d.models[c].completed = Cardinality({s \in Of(c) : s \in C})
             /\ d.models[c].generation_failures = Cardinality({s \in Of(c) : s \in G})
             /\ d.models[c].end_to_end = d.models[c].correct
  <2>1. Of(c) \subseteq Samples
    BY DEF Of, Samples
  <2>2. Evaluated(rows, Of(c)) = {s \in Of(c) : s \in C}
    BY <1>2, <2>1 DEF Evaluated, RowOK
  <2>3. {s \in Of(c) : rows[s].status = "generation_failed"} = {s \in Of(c) : s \in G}
    BY <2>1
  <2>4. EndToEnd(rows, Of(c)) = Correct(rows, Of(c))
    BY <1>2, <2>1 DEF EndToEnd, Correct, Evaluated, RowOK
  <2>5. d.models[c] = _model_document(rows, c)
    BY <1>1
  <2>6. /\ _model_document(rows, c).completed = Cardinality(Evaluated(rows, Of(c)))
        /\ _model_document(rows, c).generation_failures
             = Cardinality({s \in Of(c) : rows[s].status = "generation_failed"})
        /\ _model_document(rows, c).end_to_end = Cardinality(EndToEnd(rows, Of(c)))
        /\ _model_document(rows, c).correct = Cardinality(Correct(rows, Of(c)))
    BY DEF _model_document, OfStatus
  <2> QED
    BY <2>2, <2>3, <2>4, <2>5, <2>6
<1>5. d.totals.completed = Cardinality(C) /\ d.totals.generation_failures = Cardinality(G)
  BY <1>1 DEF _totals, OfStatus
<1>6. C \in SUBSET Samples /\ G \in SUBSET Samples
  OBVIOUS
<1>7. /\ DOMAIN n = Configs /\ \A c \in Configs : n[c] = Cardinality({s \in Of(c) : s \in C})
      /\ DOMAIN m = Configs /\ \A c \in Configs : m[c] = Cardinality({s \in Of(c) : s \in G})
  <2>1. \A c \in Configs : n[c] = d.models[c].completed /\ m[c] = d.models[c].generation_failures
    OBVIOUS
  <2>2. DOMAIN n = Configs /\ DOMAIN m = Configs
    OBVIOUS
  <2> HIDE DEF n, m, C, G
  <2> QED
    BY <1>4, <2>1, <2>2
<1>8. SumFunction(n) = Cardinality(C) /\ SumFunction(m) = Cardinality(G)
  <2> HIDE DEF n, m, C, G
  <2> QED
    BY <1>6, <1>7, CountedByModel
<1> QED
  BY <1>3, <1>4, <1>5, <1>8 DEF Agrees

-----------------------------------------------------------------------------
(* Failures. *)

\* The categories of failures are finitely many, and every code has one.
LEMMA CodesAreNormalized ==
  /\ IsFiniteSet(Categories)
  /\ \A code : normalize_generation_failure(code) \in Categories
<1> DEFINE names == <<"rate_limited", "unauthorized", "forbidden", "not_found", "provider_unavailable",
                      "provider_timeout", "provider_error", "invalid_response", "malformed_output", "unknown">>
           f == [i \in 1..10 |-> names[i]]
           T == {f[i] : i \in 1..10}
<1>1. f \in Surjection(1..10, T)
  <2> HIDE DEF names
  <2> QED
    BY DEF Surjection
<1>2. IsFiniteSet(T)
  <2> HIDE DEF f, T
  <2>1. IsFiniteSet(1..10)
    <3>1. 1 \in Int /\ 10 \in Int
      OBVIOUS
    <3> QED
      BY <3>1, FS_Interval, Zenon
  <2> QED
    BY <1>1, <2>1, FS_Surjection
<1>3. \A x \in {"rate_limited", "unauthorized", "forbidden", "not_found", "provider_unavailable", "provider_timeout",
                "provider_error", "invalid_response", "malformed_output", "unknown"} : x \in T
  <2>1. /\ f[1] = "rate_limited" /\ f[2] = "unauthorized" /\ f[3] = "forbidden" /\ f[4] = "not_found"
        /\ f[5] = "provider_unavailable" /\ f[6] = "provider_timeout" /\ f[7] = "provider_error"
        /\ f[8] = "invalid_response" /\ f[9] = "malformed_output" /\ f[10] = "unknown"
    OBVIOUS
  <2>2. \A i \in 1..10 : f[i] \in T
    OBVIOUS
  <2> HIDE DEF f, T
  <2> QED
    BY <2>1, <2>2
<1>4. Categories \subseteq T
  <2>1. Categories \subseteq {"rate_limited", "unauthorized", "forbidden", "not_found", "provider_unavailable",
            "provider_timeout", "provider_error", "invalid_response", "malformed_output", "unknown"}
    BY DEF Categories, Range, _NORMALIZED_FAILURE_CODES
  <2> HIDE DEF T
  <2> QED
    BY <1>3, <2>1
<1>5. IsFiniteSet(Categories)
  <2> HIDE DEF T
  <2> QED
    BY <1>2, <1>4, FS_Subset
<1>6. ASSUME NEW code PROVE normalize_generation_failure(code) \in Categories
  BY DEF normalize_generation_failure, Categories, Range
<1> QED
  BY <1>5, <1>6

\* The failures of a model in a finished run, by category and by code.
LEMMA FailuresAreCounted ==
  ASSUME RunOK, run \in _TERMINAL_RUNS, NEW c \in Configs
  PROVE  /\ SumFunction(generation_failure_category_counts(rows, Of(c))) = Cardinality(Failed(rows, Of(c)))
         /\ SumFunction(_failure_documents(rows, c)) = Cardinality(Of(c)) - OfStatus(rows, Of(c), "completed")
<1> DEFINE S == Of(c)
           F == Failed(rows, S)
           C == {s \in S : rows[s].status = "completed"}
           T == {s \in S : rows[s].status # "completed"}
           counts == generation_failure_category_counts(rows, S)
           listed == _failure_documents(rows, c)
           g == [s \in F |-> normalize_generation_failure(rows[s].code)]
           h == [s \in T |-> rows[s].code]
<1>1. S \in SUBSET Samples /\ IsFiniteSet(S)
  <2>1. S \in SUBSET Samples
    BY DEF Of, Samples
  <2> QED
    BY <2>1, FinitePlan, FS_Subset
<1>2. IsFiniteSet(F) /\ IsFiniteSet(C) /\ IsFiniteSet(T)
  BY <1>1, FS_Subset DEF Failed
<1>3. SumFunction(counts) = Cardinality(F)
  <2>1. DOMAIN counts = Categories
    BY DEF generation_failure_category_counts
  <2>2. \A s \in F : g[s] \in Categories
    BY CodesAreNormalized
  <2>3. ASSUME NEW k \in Categories PROVE counts[k] = Cardinality(Part(F, g, k))
    <3>1. {s \in F : normalize_generation_failure(rows[s].code) = k} = Part(F, g, k)
      BY DEF Part
    <3>2. counts[k] = Cardinality({s \in F : normalize_generation_failure(rows[s].code) = k})
      BY DEF generation_failure_category_counts
    <3> QED
      BY <3>1, <3>2
  <2> HIDE DEF counts, F, g
  <2>4. SumFunctionOnSet(counts, Categories) = Cardinality(F)
    BY <1>2, <2>2, <2>3, CodesAreNormalized, CountedByParts
  <2> QED
    BY <2>1, <2>4 DEF SumFunction
<1>4. ASSUME NEW s \in S
      PROVE  /\ rows[s].status # "completed" => rows[s].code \in AllCodes
             /\ rows[s].status = "completed" => rows[s].code \notin AllCodes
  <2>1. RowOK(rows[s]) /\ rows[s].status \in Terminal
    BY <1>1 DEF RunOK
  <2>2. "none" \notin AllCodes
    BY PlanAssumption DEF AllCodes, WorkerCodes
  <2> QED
    BY <2>1, <2>2 DEF RowOK, Terminal, AllCodes, WorkerCodes
<1>5. SumFunction(listed) = Cardinality(T)
  <2>1. DOMAIN listed = AllCodes
    BY DEF _failure_documents
  <2>2. \A s \in T : h[s] \in AllCodes
    BY <1>4
  <2>3. ASSUME NEW k \in AllCodes PROVE listed[k] = Cardinality(Part(T, h, k))
    <3>1. {s \in S : rows[s].code = k} = Part(T, h, k)
      BY <1>4 DEF Part
    <3>2. listed[k] = Cardinality({s \in S : rows[s].code = k})
      BY DEF _failure_documents
    <3> QED
      BY <3>1, <3>2
  <2>4. IsFiniteSet(AllCodes)
    <3>1. IsFiniteSet({"worker_failure"}) /\ IsFiniteSet({"worker_lease_expired"})
      BY FS_Singleton
    <3>2. IsFiniteSet({"worker_failure"} \cup {"worker_lease_expired"})
      BY <3>1, FS_Union
    <3>3. IsFiniteSet(Codes \cup ({"worker_failure"} \cup {"worker_lease_expired"}))
      BY <3>2, PlanAssumption, FS_Union
    <3>4. AllCodes = Codes \cup ({"worker_failure"} \cup {"worker_lease_expired"})
      BY DEF AllCodes, WorkerCodes
    <3> QED
      BY <3>3, <3>4
  <2> HIDE DEF listed, T, h
  <2>5. SumFunctionOnSet(listed, AllCodes) = Cardinality(T)
    BY <1>2, <2>2, <2>3, <2>4, CountedByParts
  <2> QED
    BY <2>1, <2>5 DEF SumFunction
<1>6. C \cap T = {} /\ C \cup T = S
  OBVIOUS
<1>7. OfStatus(rows, S, "completed") = Cardinality(C)
  BY DEF OfStatus
<1> HIDE DEF S, F, C, T, counts, listed
<1>8. /\ Cardinality(S) = Cardinality(C) + Cardinality(T)
      /\ Cardinality(C) \in Nat /\ Cardinality(T) \in Nat
  BY <1>2, <1>6, CountedApart, FS_CardinalityType
<1>9. SumFunction(listed) = Cardinality(S) - OfStatus(rows, S, "completed")
  BY <1>5, <1>7, <1>8
<1> QED
  BY <1>3, <1>9 DEF S, F, counts, listed

-----------------------------------------------------------------------------
(* Reports. *)

\* store_artifact, complete, record_failure, recover_stale: a row that still changes
\* belongs to a run that nobody has read as terminal.
LEMMA SetKeeps ==
  ASSUME ReportInv, NEW s \in Samples, rows[s].status \notin Terminal,
         NEW row \in Rows, RowOK(row), Set(s, row)
  PROVE  ReportInv'
<1>1. run \notin _TERMINAL_RUNS
  BY DEF ReportInv, RunOK
<1>2. rows' \in [Samples -> Rows] /\ \A u \in Samples : RowOK(rows'[u])
  BY DEF ReportInv, RunOK, Set
<1>3. RunOK'
  <2>1. CASE \E u \in Samples : rows'[u].status \notin Terminal
    BY <1>2, <2>1 DEF Set, FinishRun, RunOK, RunStates, _TERMINAL_RUNS
  <2>2. CASE ~ \E u \in Samples : rows'[u].status \notin Terminal
    <3>1. CASE \E u \in Samples : rows'[u].status = "skipped"
      BY <1>2, <2>2, <3>1 DEF Set, FinishRun, RunOK, RunStates, _TERMINAL_RUNS
    <3>2. CASE ~ \E u \in Samples : rows'[u].status = "skipped"
      BY <1>2, <2>2, <3>2 DEF Set, FinishRun, RunOK, RunStates, _TERMINAL_RUNS
    <3> QED
      BY <3>1, <3>2
  <2> QED
    BY <2>1, <2>2
<1>4. ReaderOK'
  BY <1>1 DEF ReportInv, ReaderOK, Set
<1>5. PublishedOK'
  <2>1. published' = published
    BY DEF Set
  <2>2. ASSUME NEW i \in 1..Len(published) PROVE StillTrue(published[i])'
    BY <1>1, <2>1, <2>2 DEF ReportInv, PublishedOK, StillTrue
  <2> QED
    BY <2>1, <2>2 DEF ReportInv, PublishedOK, Elements
<1> QED
  BY <1>3, <1>4, <1>5 DEF ReportInv

LEMMA SampleKeeps ==
  ASSUME ReportInv, NEW s \in Samples,
         store_artifact(s) \/ complete(s) \/ record_failure(s) \/ recover_stale(s)
  PROVE  ReportInv'
<1>1. rows[s] \in Rows /\ RowOK(rows[s])
  BY DEF ReportInv, RunOK
<1>2. CASE store_artifact(s)
  <2> DEFINE row == [rows[s] EXCEPT !.status = "generated", !.artifact = TRUE]
  <2>1. rows[s].status = "queued" /\ Set(s, row)
    BY <1>2 DEF store_artifact
  <2>2. row \in Rows /\ RowOK(row)
    BY <1>1, <2>1 DEF Rows, RowOK
  <2> QED
    BY <2>1, <2>2, SetKeeps DEF Terminal
<1>3. CASE complete(s)
  <2>1. PICK x \in Scores, ok \in BOOLEAN :
          Set(s, [rows[s] EXCEPT !.status = "completed", !.score = x, !.correct = ok, !.code = "none"])
    BY <1>3 DEF complete
  <2>2. rows[s].status = "generated"
    BY <1>3 DEF complete
  <2> DEFINE row == [rows[s] EXCEPT !.status = "completed", !.score = x, !.correct = ok, !.code = "none"]
  <2>3. x # None
    BY PlanAssumption DEF None
  <2>4. row \in Rows /\ RowOK(row)
    BY <1>1, <2>2, <2>3 DEF Rows, RowOK, Terminal
  <2> QED
    BY <2>1, <2>2, <2>4, SetKeeps DEF Terminal
<1>4. CASE record_failure(s)
  <2>1. rows[s].status \in {"queued", "generated"}
    BY <1>4 DEF record_failure, Waiting
  <2> DEFINE Again(code) == [rows[s] EXCEPT !.code = code]
             Ended(code, status) == [rows[s] EXCEPT !.code = code, !.status = status]
  <2>2. CASE ~rows[s].artifact /\ \E code \in Codes :
               Set(s, Again(code)) \/ Set(s, Ended(code, "generation_failed"))
    <3>1. PICK code \in Codes : Set(s, Again(code)) \/ Set(s, Ended(code, "generation_failed"))
      BY <2>2
    <3>2. Again(code) \in Rows /\ RowOK(Again(code))
      BY <1>1, <2>1 DEF Rows, RowOK, AllCodes
    <3>3. Ended(code, "generation_failed") \in Rows /\ RowOK(Ended(code, "generation_failed"))
      BY <1>1, <2>1, <2>2 DEF Rows, RowOK, AllCodes, Terminal
    <3> HIDE DEF Again, Ended
    <3> QED
      BY <2>1, <3>1, <3>2, <3>3, SetKeeps DEF Terminal
  <2>3. CASE \/ Set(s, Again("worker_failure"))
             \/ Set(s, Ended("worker_failure", "evaluation_failed"))
    <3> DEFINE again == Again("worker_failure")
               last == Ended("worker_failure", "evaluation_failed")
    <3>1. again \in Rows /\ RowOK(again) /\ last \in Rows /\ RowOK(last)
      BY <1>1, <2>1 DEF Rows, RowOK, AllCodes, WorkerCodes, Terminal
    <3> HIDE DEF Again, Ended
    <3> QED
      BY <2>1, <2>3, <3>1, SetKeeps DEF Terminal
  <2> QED
    BY <1>4, <2>2, <2>3 DEF record_failure
<1>5. CASE recover_stale(s)
  <2>1. rows[s].status \in {"queued", "generated"}
    BY <1>5 DEF recover_stale, Waiting
  <2> DEFINE again == [rows[s] EXCEPT !.code = "worker_lease_expired"]
             last == [rows[s] EXCEPT !.code = "worker_lease_expired", !.status = "skipped"]
  <2>2. Set(s, again) \/ Set(s, last)
    BY <1>5 DEF recover_stale
  <2>3. again \in Rows /\ RowOK(again) /\ last \in Rows /\ RowOK(last)
    BY <1>1, <2>1 DEF Rows, RowOK, Terminal, AllCodes, WorkerCodes
  <2> QED
    BY <2>1, <2>2, <2>3, SetKeeps DEF Terminal
<1> QED
  BY <1>2, <1>3, <1>4, <1>5

LEMMA GetRunKeeps == ASSUME ReportInv, get_run PROVE ReportInv'
<1>1. RunOK'
  BY DEF ReportInv, RunOK, get_run
<1>2. PublishedOK'
  <2>1. published' = published /\ rows' = rows /\ run' = run
    BY DEF get_run
  <2>2. ASSUME NEW i \in 1..Len(published) PROVE StillTrue(published[i])'
    BY <2>1, <2>2 DEF ReportInv, PublishedOK, StillTrue
  <2> QED
    BY <2>1, <2>2 DEF ReportInv, PublishedOK, Elements
<1>3. ReaderOK'
  <2>1. /\ exports \in 0..MaxExports /\ exports < MaxExports /\ exports' = exports + 1
        /\ published' = published /\ Len(published) <= exports /\ run' = run
    BY DEF ReportInv, ReaderOK, get_run
  <2>2. Len(published) \in Nat
    BY DEF ReportInv, PublishedOK
  <2>3. exports' \in 0..MaxExports /\ Len(published') < exports'
    BY <2>1, <2>2, PlanAssumption
  <2>4. /\ reader' \in [pc : {"idle", "export", "summary"}, run : RunStates \cup {"none"}]
        /\ reader'.run = run
    BY DEF ReportInv, RunOK, get_run
  <2> QED
    BY <2>1, <2>2, <2>3, <2>4 DEF ReaderOK
<1> QED
  BY <1>1, <1>2, <1>3 DEF ReportInv

\* build, get: a document that is true when it is made is kept so.
LEMMA PublishKeeps ==
  ASSUME ReportInv, NEW d, StillTrue(d), reader.pc # "idle", reader' = Idle,
         published' = Append(published, d), UNCHANGED <<rows, run, exports>>
  PROVE  ReportInv'
<1>1. RunOK'
  BY DEF ReportInv, RunOK
<1>2. /\ published' \in Seq(Elements(published'))
      /\ Len(published) \in Nat /\ Len(published') = Len(published) + 1
      /\ \A i \in 1..Len(published) : published'[i] = published[i]
      /\ published'[Len(published) + 1] = d
  BY Appended DEF ReportInv, PublishedOK
<1>3. PublishedOK'
  <2>1. ASSUME NEW i \in 1..Len(published') PROVE StillTrue(published'[i])
    <3>1. CASE i \in 1..Len(published)
      BY <1>2, <3>1 DEF ReportInv, PublishedOK
    <3>2. CASE i = Len(published) + 1
      BY <1>2, <3>2
    <3> QED
      BY <1>2, <3>1, <3>2
  <2>2. ASSUME NEW i \in 1..Len(published') PROVE StillTrue(published[i])'
    BY <2>1, <2>2 DEF StillTrue
  <2> QED
    BY <1>2, <2>2 DEF PublishedOK, Elements
<1>4. ReaderOK'
  BY <1>2 DEF ReportInv, ReaderOK, Idle, RunStates, _TERMINAL_RUNS
<1> QED
  BY <1>1, <1>3, <1>4 DEF ReportInv

LEMMA BuildKeeps == ASSUME ReportInv, build PROVE ReportInv'
<1> DEFINE d == Document(reader.run)
<1>1. /\ d.kind = "export" /\ d.status = reader.run /\ d.totals = _totals(rows)
      /\ d.winners = select_winners(Board(rows), reader.run \in _TERMINAL_RUNS)
  BY DEF Document, result_rows
<1>2. reader.run \in _TERMINAL_RUNS => reader.run = run
  BY DEF ReportInv, ReaderOK
<1>3. reader.run \notin _TERMINAL_RUNS =>
        ~ d.winners.final /\ d.winners.observed = {} /\ d.winners.eligible = {}
  BY <1>1 DEF select_winners
<1>4. reader.run \in _TERMINAL_RUNS => d.winners = select_winners(Board(rows), TRUE) /\ d.winners.final
  BY <1>1 DEF select_winners
<1>5. Agrees(d)
  <2>1. RunOK /\ d = Document(reader.run)
    BY DEF ReportInv
  <2> HIDE DEF d
  <2> QED
    BY <2>1, DocumentAgrees
<1> HIDE DEF d
<1>6. StillTrue(d)
  BY <1>1, <1>2, <1>3, <1>4, <1>5 DEF StillTrue
<1> QED
  BY <1>6, PublishKeeps DEF build, d

LEMMA GetKeeps == ASSUME ReportInv, get PROVE ReportInv'
<1> DEFINE d == Summary(reader.run)
<1>1. d.kind = "summary" /\ d.status = reader.run /\ d.totals = _totals(rows)
  BY DEF Summary, result_rows
<1>2. reader.run \in _TERMINAL_RUNS => reader.run = run
  BY DEF ReportInv, ReaderOK
<1> HIDE DEF d
<1>3. StillTrue(d)
  BY <1>1, <1>2 DEF StillTrue
<1> QED
  BY <1>3, PublishKeeps DEF get, d

LEMMA ReportsKeep == ASSUME ReportInv, Next PROVE ReportInv'
BY SampleKeeps, GetRunKeeps, BuildKeeps, GetKeeps DEF Next

-----------------------------------------------------------------------------
(* Archives. *)

\* While nothing changes the rows, every command makes the same export of them.
LEMMA SameExport == ASSUME UNCHANGED vars PROVE Artifacts(run)' = Artifacts(run)
BY DEF vars, Artifacts, Document, result_rows

\* Before the first command there is nothing to keep.
LEMMA UntouchedKeeps ==
  ASSUME ArchiveInv, Untouched, UNCHANGED archiveVars, run' \in RunStates
  PROVE  ArchiveInv'
<1>1. Untouched'
  BY DEF Untouched, At, archiveVars
<1>2. \A w \in Writers : writers[w] \in [pc : {"idle"}, export : {"none"}]
  BY DEF ArchiveInv, WritersOK, Untouched, At
<1>3. WritersOK'
  BY <1>2 DEF ArchiveInv, WritersOK, Written, Files, archiveVars
<1>4. FilesOK'
  BY DEF ArchiveInv, FilesOK, Begun, archiveVars
<1>5. Begun' /\ Kept'
  BY <1>1, <1>2 DEF ArchiveInv, Begun, Kept, After, Files, archiveVars
<1> QED
  BY <1>3, <1>4, <1>5 DEF ArchiveInv

\* What a command holds at its place.
Placed(pc, x) ==
  \/ pc = "build" /\ x = run
  \/ pc \in Written /\ x = Artifacts(run)
  \/ pc = "dead" /\ x \in {run, Artifacts(run)}

Moves(w, pc, x) == writers' = [writers EXCEPT ![w] = [pc |-> pc, export |-> x]]

\* A command moves on: what it holds is what its place demands.
LEMMA MoveKeeps ==
  ASSUME ArchiveInv, UNCHANGED vars, NEW w \in Writers, NEW pc, NEW x,
         Moves(w, pc, x),
         Placed(pc, x)
  PROVE  WritersOK' /\ ~Untouched'
<1>1. Artifacts(run)' = Artifacts(run) /\ run' = run
  BY SameExport DEF vars
<1>2. pc \in {"build", "dead"} \cup Written /\ x \in {"none", run, Artifacts(run)} /\ pc # "idle"
  BY DEF Placed, Written, Files
<1>3. writers' \in [Writers -> [pc : {"idle", "build", "dead"} \cup Written,
                               export : {"none", run, Artifacts(run)}]]
  BY <1>2 DEF ArchiveInv, WritersOK, Moves
<1>4. ASSUME NEW v \in Writers
      PROVE  /\ writers'[v].pc = "idle" => writers'[v].export = "none"
             /\ writers'[v].pc = "build" => writers'[v].export = run
             /\ writers'[v].pc \in Written => writers'[v].export = Artifacts(run)
  <2>1. CASE v = w
    BY <2>1, <1>2 DEF ArchiveInv, WritersOK, Placed, Moves, Written, Files
  <2>2. CASE v # w
    BY <2>2 DEF ArchiveInv, WritersOK, Moves
  <2> QED
    BY <2>1, <2>2
<1>5. WritersOK'
  BY <1>1, <1>3, <1>4 DEF WritersOK
<1>6. writers'[w].pc # "idle"
  BY <1>2 DEF ArchiveInv, WritersOK, Moves
<1> QED
  BY <1>5, <1>6 DEF Untouched, At

\* Go changes the place of a command and nothing it holds.
LEMMA Going ==
  ASSUME WritersOK, NEW w \in Writers, NEW pc, Go(w, pc)
  PROVE  Moves(w, pc, writers[w].export)
<1>1. PICK P, X : writers \in [Writers -> [pc : P, export : X]]
  BY DEF WritersOK
<1>2. [writers[w] EXCEPT !.pc = pc] = [pc |-> pc, export |-> writers[w].export]
  BY <1>1
<1>3. writers' = [writers EXCEPT ![w] = [writers[w] EXCEPT !.pc = pc]]
  BY DEF Go
<1> QED
  BY <1>2, <1>3 DEF Moves

\* The files are right as long as nobody touches them and the run stays as it is.
LEMMA SameFiles ==
  ASSUME ArchiveInv, UNCHANGED vars, UNCHANGED <<files, extra>>
  PROVE  FilesOK'
BY SameExport DEF ArchiveInv, FilesOK

\* A command that has not come to a file leaves the directory as it is.
LEMMA BeforeFilesKeeps ==
  ASSUME ArchiveInv, UNCHANGED vars, UNCHANGED <<files, extra, damages>>,
         run \in _TERMINAL_RUNS, NEW w \in Writers, NEW pc, NEW x,
         writers[w].pc \in {"idle", "build", "check"},
         Moves(w, pc, x),
         pc \in {"build", "check", "refused", "candidates"}, Placed(pc, x)
  PROVE  ArchiveInv'
<1>1. WritersOK' /\ ~Untouched'
  BY MoveKeeps
<1>2. FilesOK'
  BY SameFiles
<1>3. Begun'
  BY <1>1 DEF Begun, vars
<1>4. Kept'
  <2> SUFFICES ASSUME damages = 0, NEW f \in Files, NEW v \in Writers, writers'[v].pc \in After(f)
               PROVE  Right(f)'
    BY DEF ArchiveInv, Kept
  <2>1. writers \in [Writers -> [pc : {"idle", "build", "dead"} \cup Written,
                                export : {"none", run, Artifacts(run)}]]
    BY DEF ArchiveInv, WritersOK
  <2>2. writers'[w].pc = pc /\ \A u \in Writers : u # w => writers'[u] = writers[u]
    BY <2>1 DEF Moves
  <2>3. pc \notin After(f)
    BY DEF After, Files
  <2>4. v # w /\ writers[v].pc \in After(f)
    BY <2>2, <2>3
  <2>5. Right(f)
    BY <2>4 DEF ArchiveInv, Kept
  <2>6. CASE files[f] = Content(Artifacts(run), f)
    BY <2>6, SameExport DEF Right
  <2>7. CASE \E u \in Writers : writers[u].pc \in {f, "dead"}
    <3>1. PICK u \in Writers : writers[u].pc \in {f, "dead"}
      BY <2>7
    <3>2. u # w
      BY <3>1 DEF Files
    <3> QED
      BY <2>2, <3>1, <3>2 DEF Right
  <2> QED
    BY <2>5, <2>6, <2>7 DEF Right
<1> QED
  BY <1>1, <1>2, <1>3, <1>4 DEF ArchiveInv

LEMMA ArchiveKeeps ==
  ASSUME ArchiveInv, UNCHANGED vars, NEW w \in Writers, archive(w)
  PROVE  ArchiveInv'
<1>1. /\ writers[w].pc = "idle" /\ run \in _TERMINAL_RUNS
      /\ UNCHANGED <<files, extra, damages>>
  BY DEF archive, At
<1>2. Moves(w, "build", run)
  BY DEF archive, Moves
<1>3. Placed("build", run)
  BY DEF Placed
<1> QED
  BY <1>1, <1>2, <1>3, BeforeFilesKeeps

LEMMA ExportKeeps ==
  ASSUME ArchiveInv, UNCHANGED vars, NEW w \in Writers, export(w)
  PROVE  ArchiveInv'
<1>1. writers[w].pc = "build" /\ UNCHANGED <<files, extra, damages>>
  BY DEF export, At
<1>2. run \in _TERMINAL_RUNS
  BY <1>1 DEF ArchiveInv, Begun, Untouched, At
<1>3. writers' = [writers EXCEPT ![w] = [pc |-> "check", export |-> Artifacts(writers[w].export)]]
  BY DEF export
<1>4. writers[w].export = run
  BY <1>1 DEF ArchiveInv, WritersOK
<1>5. Moves(w, "check", Artifacts(run))
  BY <1>3, <1>4 DEF Moves
<1>6. Placed("check", Artifacts(run))
  BY DEF Placed, Written
<1> QED
  BY <1>1, <1>2, <1>5, <1>6, BeforeFilesKeeps

LEMMA WriteArchiveKeeps ==
  ASSUME ArchiveInv, UNCHANGED vars, NEW w \in Writers, write_archive(w)
  PROVE  ArchiveInv'
<1>1. writers[w].pc = "check" /\ UNCHANGED <<files, extra, damages>>
  BY DEF write_archive, At
<1>2. run \in _TERMINAL_RUNS
  BY <1>1 DEF ArchiveInv, Begun, Untouched, At
<1>3. writers[w].export = Artifacts(run)
  BY <1>1 DEF ArchiveInv, WritersOK, Written
<1>4. \E pc \in {"refused", "candidates"} : Go(w, pc)
  BY DEF write_archive, Then
<1>5. PICK pc \in {"refused", "candidates"} : Go(w, pc)
  BY <1>4
<1>6. Moves(w, pc, Artifacts(run))
  BY <1>3, <1>5, Going DEF ArchiveInv
<1>7. Placed(pc, Artifacts(run))
  BY DEF Placed, Written, Files
<1> QED
  BY <1>1, <1>2, <1>6, <1>7, BeforeFilesKeeps

\* A command at a file truncates it or, when there is nothing to write, makes it right.
LEMMA BeginFileKeeps ==
  ASSUME ArchiveInv, UNCHANGED vars, NEW w \in Writers, NEW file \in Files, begin_file(w, file)
  PROVE  ArchiveInv'
<1>1. writers[w].pc = file /\ UNCHANGED <<writers, extra, damages>>
  BY DEF begin_file, At
<1>2. writers[w].export = Artifacts(run)
  BY <1>1 DEF ArchiveInv, WritersOK, Written
<1>3. /\ Artifacts(run)' = Artifacts(run) /\ run' = run
      /\ \A f \in Files : Content(Artifacts(run), f)' = Content(Artifacts(run), f)
  BY SameExport DEF vars
<1>4. PICK c : /\ c \in {Partial, Content(Artifacts(run), file)}
               /\ files' = [files EXCEPT ![file] = c]
  <2>1. CASE file = "candidates" /\ writers[w].export.candidates = {}
    <3>1. Content(Artifacts(run), file) = Whole({})
      BY <1>2, <2>1 DEF Content
    <3> QED
      BY <2>1, <3>1 DEF begin_file
  <2>2. CASE ~ (file = "candidates" /\ writers[w].export.candidates = {})
    BY <2>2 DEF begin_file
  <2> QED
    BY <2>1, <2>2
<1>5. /\ files' \in [Files -> {Missing, Partial} \cup {Content(Artifacts(run), f) : f \in Files}]
      /\ \A f \in Files : files'[f] \in {Missing, Partial, Content(Artifacts(run), f)}
      /\ \A f \in Files : f # file => files'[f] = files[f]
  <2>1. c \in {Missing, Partial} \cup {Content(Artifacts(run), f) : f \in Files}
    BY <1>4
  <2> QED
    BY <1>4, <2>1 DEF ArchiveInv, FilesOK
<1>6. WritersOK'
  BY <1>1, <1>3 DEF ArchiveInv, WritersOK
<1>7. FilesOK'
  BY <1>1, <1>3, <1>5 DEF ArchiveInv, FilesOK
<1>8. Begun'
  BY <1>1, <1>3 DEF ArchiveInv, Begun, Untouched, At, Files
<1>9. Kept'
  <2> SUFFICES ASSUME damages = 0, NEW f \in Files, NEW v \in Writers, writers[v].pc \in After(f)
               PROVE  Right(f)'
    BY <1>1 DEF ArchiveInv, Kept
  <2>1. CASE f = file
    BY <1>1, <2>1 DEF Right
  <2>2. CASE f # file
    <3>1. Right(f)
      BY DEF ArchiveInv, Kept
    <3> QED
      BY <1>1, <1>3, <1>5, <2>2, <3>1 DEF Right
  <2> QED
    BY <2>1, <2>2
<1> QED
  BY <1>6, <1>7, <1>8, <1>9 DEF ArchiveInv

\* A command that leaves a file leaves it right, whoever wrote to it before.
LEMMA WriteFileKeeps ==
  ASSUME ArchiveInv, UNCHANGED vars, NEW w \in Writers, NEW file \in Files, write_file(w, file)
  PROVE  ArchiveInv'
<1>1. /\ writers[w].pc = file /\ UNCHANGED <<extra, damages>> /\ Go(w, Then[file])
      /\ files' = [files EXCEPT ![file] = Content(writers[w].export, file)]
  BY DEF write_file, At
<1>2. writers[w].export = Artifacts(run)
  BY <1>1 DEF ArchiveInv, WritersOK, Written
<1>3. /\ Artifacts(run)' = Artifacts(run) /\ run' = run
      /\ \A f \in Files : Content(Artifacts(run), f)' = Content(Artifacts(run), f)
  BY SameExport DEF vars
<1>4. /\ Then[file] \in Written /\ Then[file] # "dead"
      /\ \A f \in Files : Then[file] \in After(f) => f = file \/ file \in After(f)
  BY DEF Then, Written, After, Files
<1>5. Moves(w, Then[file], Artifacts(run)) /\ Placed(Then[file], Artifacts(run))
  BY <1>1, <1>2, <1>4, Going DEF ArchiveInv, Placed
<1>6. WritersOK' /\ ~Untouched'
  BY <1>5, MoveKeeps
<1>7. /\ files' \in [Files -> {Missing, Partial} \cup {Content(Artifacts(run), f) : f \in Files}]
      /\ files'[file] = Content(Artifacts(run), file)
      /\ \A f \in Files : f # file => files'[f] = files[f]
  <2>1. files' = [files EXCEPT ![file] = Content(Artifacts(run), file)]
    BY <1>1, <1>2
  <2> QED
    BY <2>1 DEF ArchiveInv, FilesOK
<1>8. FilesOK'
  BY <1>1, <1>3, <1>7 DEF ArchiveInv, FilesOK
<1>9. Begun'
  <2>1. run \in _TERMINAL_RUNS
    BY <1>1 DEF ArchiveInv, Begun, Untouched, At, Files
  <2> QED
    BY <1>3, <1>6, <2>1 DEF Begun
<1>10. Kept'
  <2> SUFFICES ASSUME damages = 0, NEW f \in Files, NEW v \in Writers, writers'[v].pc \in After(f)
               PROVE  Right(f)'
    BY <1>1 DEF ArchiveInv, Kept
  <2>1. writers \in [Writers -> [pc : {"idle", "build", "dead"} \cup Written,
                                export : {"none", run, Artifacts(run)}]]
    BY DEF ArchiveInv, WritersOK
  <2>2. writers'[w].pc = Then[file] /\ \A u \in Writers : u # w => writers'[u] = writers[u]
    BY <1>5, <2>1 DEF Moves
  <2>3. CASE f = file
    BY <1>3, <1>7, <2>3 DEF Right
  <2>4. CASE f # file
    <3>1. writers[v].pc \in After(f)
      BY <1>1, <1>4, <2>2, <2>4
    <3>2. Right(f)
      BY <3>1 DEF ArchiveInv, Kept
    <3>3. CASE files[f] = Content(Artifacts(run), f)
      BY <1>3, <1>7, <2>4, <3>3 DEF Right
    <3>4. CASE \E u \in Writers : writers[u].pc \in {f, "dead"}
      <4>1. PICK u \in Writers : writers[u].pc \in {f, "dead"}
        BY <3>4
      <4>2. u # w
        BY <1>1, <2>4, <4>1 DEF Files
      <4> QED
        BY <2>2, <4>1, <4>2 DEF Right
    <3> QED
      BY <3>2, <3>3, <3>4 DEF Right
  <2> QED
    BY <2>3, <2>4
<1> QED
  BY <1>6, <1>8, <1>9, <1>10 DEF ArchiveInv

LEMMA DieKeeps ==
  ASSUME ArchiveInv, UNCHANGED vars, NEW w \in Writers, Die(w)
  PROVE  ArchiveInv'
<1>1. /\ writers[w].pc \notin {"idle", "done", "refused", "dead"} /\ Go(w, "dead")
      /\ UNCHANGED <<files, extra, damages>>
  BY DEF Die, At
<1>2. writers[w].export \in {run, Artifacts(run)}
  <2>1. writers[w].pc \in {"build"} \cup Written
    BY <1>1 DEF ArchiveInv, WritersOK
  <2> QED
    BY <2>1 DEF ArchiveInv, WritersOK
<1>3. Moves(w, "dead", writers[w].export) /\ Placed("dead", writers[w].export)
  BY <1>1, <1>2, Going DEF ArchiveInv, Placed
<1>4. WritersOK' /\ ~Untouched'
  BY <1>3, MoveKeeps
<1>5. FilesOK'
  BY <1>1, SameFiles
<1>6. Begun'
  <2>1. run \in _TERMINAL_RUNS
    BY <1>1 DEF ArchiveInv, Begun, Untouched, At
  <2> QED
    BY <1>4, <2>1 DEF Begun, vars
<1>7. Kept'
  <2>1. writers'[w].pc = "dead"
    BY <1>3 DEF Moves, ArchiveInv, WritersOK
  <2> QED
    BY <1>1, <2>1 DEF ArchiveInv, Kept, Right
<1> QED
  BY <1>4, <1>5, <1>6, <1>7 DEF ArchiveInv

\* Damage leaves a file missing or partial, or as it was.
LEMMA DamageKeeps ==
  ASSUME ArchiveInv, UNCHANGED vars, ~Untouched, Damage
  PROVE  ArchiveInv'
<1>1. /\ Artifacts(run)' = Artifacts(run) /\ run' = run
      /\ \A f \in Files : Content(Artifacts(run), f)' = Content(Artifacts(run), f)
  BY SameExport DEF vars
<1>2. damages' = 1 /\ writers' = writers
  BY DEF Damage
<1>3. WritersOK' /\ Begun' /\ Kept'
  BY <1>1, <1>2 DEF ArchiveInv, WritersOK, Begun, Kept, Untouched, At
<1>4. /\ files' \in [Files -> {Missing, Partial} \cup {Content(Artifacts(run), f) : f \in Files}]
      /\ \A f \in Files : files'[f] \in {files[f], Missing, Partial}
      /\ extra' \in BOOLEAN
  BY DEF ArchiveInv, FilesOK, Damage
<1>5. FilesOK'
  BY <1>1, <1>4 DEF ArchiveInv, FilesOK
<1> QED
  BY <1>3, <1>5 DEF ArchiveInv

-----------------------------------------------------------------------------
(* The invariant. *)

LEMMA InitOK == ArchiveInit => IInv
<1> SUFFICES ASSUME ArchiveInit PROVE IInv
  OBVIOUS
<1>1. RunOK
  <2>1. NewRow \in Rows /\ RowOK(NewRow)
    BY DEF NewRow, Rows, RowOK
  <2> QED
    BY <2>1 DEF ArchiveInit, Init, RunOK, RunStates, _TERMINAL_RUNS
<1>2. ReaderOK
  BY PlanAssumption DEF ArchiveInit, Init, ReaderOK, Idle, RunStates, _TERMINAL_RUNS
<1>3. PublishedOK
  BY DEF ArchiveInit, Init, PublishedOK, Elements
<1>4. WritersOK
  BY DEF ArchiveInit, WritersOK, Written, Files
<1>5. Untouched
  BY DEF ArchiveInit, Untouched, At
<1>6. FilesOK /\ Begun
  BY <1>5 DEF ArchiveInit, FilesOK, Begun
<1>7. Kept
  BY DEF ArchiveInit, Kept, After, Files
<1> QED
  BY <1>1, <1>2, <1>3, <1>4, <1>6, <1>7 DEF IInv, ReportInv, ArchiveInv

\* Reports are kept true by a step that changes nothing they are made of.
LEMMA SameReports == ASSUME ReportInv, UNCHANGED vars PROVE ReportInv'
<1>1. /\ rows' = rows /\ run' = run /\ reader' = reader /\ published' = published
      /\ exports' = exports
  BY DEF vars
<1>2. RunOK' /\ ReaderOK'
  BY <1>1 DEF ReportInv, RunOK, ReaderOK
<1>3. PublishedOK'
  <2>1. ASSUME NEW i \in 1..Len(published) PROVE StillTrue(published[i])'
    BY <1>1, <2>1 DEF ReportInv, PublishedOK, StillTrue
  <2> QED
    BY <1>1, <2>1 DEF ReportInv, PublishedOK, Elements
<1> QED
  BY <1>2, <1>3 DEF ReportInv

LEMMA StepOK == IInv /\ [ArchiveNext]_<<vars, archiveVars>> => IInv'
<1> SUFFICES ASSUME IInv, [ArchiveNext]_<<vars, archiveVars>> PROVE IInv'
  OBVIOUS
<1>1. ReportInv /\ ArchiveInv
  BY DEF IInv
<1>2. CASE Untouched /\ Next /\ UNCHANGED archiveVars
  <2>1. ReportInv'
    BY <1>1, <1>2, ReportsKeep
  <2>2. ArchiveInv'
    BY <1>1, <1>2, <2>1, UntouchedKeeps DEF ReportInv, RunOK
  <2> QED
    BY <2>1, <2>2 DEF IInv
<1>3. ASSUME UNCHANGED vars, NEW w \in Writers,
             \/ archive(w) \/ export(w) \/ write_archive(w) \/ Die(w)
             \/ \E f \in Files : begin_file(w, f) \/ write_file(w, f)
      PROVE  IInv'
  BY <1>1, <1>3, SameReports, ArchiveKeeps, ExportKeeps, WriteArchiveKeeps, DieKeeps,
     BeginFileKeeps, WriteFileKeeps DEF IInv
<1>4. CASE ~Untouched /\ Damage /\ UNCHANGED vars
  BY <1>1, <1>4, SameReports, DamageKeeps DEF IInv
<1>5. CASE UNCHANGED <<vars, archiveVars>>
  <2>1. UNCHANGED vars /\ UNCHANGED <<files, extra, writers, damages>>
    BY <1>5 DEF archiveVars
  <2>2. Artifacts(run)' = Artifacts(run) /\ run' = run
    BY <2>1, SameExport DEF vars
  <2>3. WritersOK' /\ Begun' /\ Kept'
    BY <1>1, <2>1, <2>2 DEF ArchiveInv, WritersOK, Begun, Kept, Right, Untouched, At
  <2> QED
    BY <1>1, <2>1, <2>3, SameFiles, SameReports DEF ArchiveInv, IInv
<1> QED
  BY <1>2, <1>3, <1>4, <1>5 DEF ArchiveNext

LEMMA AlwaysIInv == ArchiveSpec => []IInv
BY InitOK, StepOK, PTL DEF ArchiveSpec

-----------------------------------------------------------------------------
(* What follows from it. *)

\* What an export or a summary calls final is what the rows say now.
LEMMA ReportsStay == ASSUME ReportInv PROVE FinalReportsStay
<1>1. DOMAIN published = 1..Len(published)
  BY DEF ReportInv, PublishedOK
<1>2. WinnersAreFinal
  BY <1>1 DEF ReportInv, PublishedOK, StillTrue, WinnersAreFinal, Exports
<1>3. ASSUME NEW i \in DOMAIN published
      PROVE  LET t == published[i].totals
                 accounted == t.completed + t.generation_failures + t.evaluation_failures
             IN /\ published[i].status = "completed" => accounted = t.recorded
                /\ published[i].status = "partial" => accounted < t.recorded
                /\ published[i].status \in _TERMINAL_RUNS => t = _totals(rows) /\ published[i].status = run
  <2>1. StillTrue(published[i])
    BY <1>1, <1>3 DEF ReportInv, PublishedOK
  <2>2. CASE published[i].status \notin _TERMINAL_RUNS
    BY <2>2 DEF _TERMINAL_RUNS
  <2>3. CASE published[i].status \in _TERMINAL_RUNS
    <3>1. published[i].status = run /\ published[i].totals = _totals(rows)
      BY <2>1, <2>3 DEF StillTrue
    <3>2. /\ \A s \in Samples : rows[s].status \in Terminal
          /\ run = "completed" => \A s \in Samples : rows[s].status # "skipped"
          /\ run = "partial" => \E s \in Samples : rows[s].status = "skipped"
      BY <2>3, <3>1 DEF ReportInv, RunOK
    <3> QED
      BY <3>1, <3>2, TotalsAddUp
  <2> QED
    BY <2>2, <2>3
<1> QED
  BY <1>2, <1>3 DEF FinalReportsStay, ReportsAddUp

\* _winners_section: what is printed of a final document is what it records; a model is
\* only called eligible when one is observed at all.
LEMMA PrintedWinners ==
  ASSUME run \in _TERMINAL_RUNS
  PROVE  LET w == select_winners(Board(rows), TRUE)
         IN _winners_section(Document(run), TRUE) = <<w.observed, w.eligible>>
<1> DEFINE w == select_winners(Board(rows), TRUE)
<1>1. Document(run).winners = select_winners(Board(rows), run \in _TERMINAL_RUNS)
  BY DEF Document, result_rows
<1>2. Document(run).winners = w
  BY <1>1 DEF select_winners
<1>3. w.observed = {} => w.eligible = {}
  BY DEF select_winners, First
<1>4. w.final
  BY DEF select_winners
<1> HIDE DEF w
<1>5. _winners_section(Document(run), TRUE) = <<w.observed, w.eligible>>
  BY <1>2, <1>3, <1>4 DEF _winners_section, _export_document_winners
<1> QED
  BY <1>5 DEF w

\* verify_archive accepts exactly the files of the one export there is.
LEMMA ArchivesWhole == ASSUME ReportInv, ArchiveInv PROVE ArchiveIsWhole
<1> DEFINE A == Artifacts(run)
<1>1. /\ Content(A, "candidates") = Whole(A.candidates) /\ Content(A, "results") = Whole(A)
      /\ Content(A, "report") = Whole(render_report(A)) /\ Content(A, "manifest") = Whole(Manifest(A))
  BY DEF Content
<1>2. /\ Manifest(A).results = Whole(A) /\ Manifest(A).report = Whole(render_report(A))
      /\ Manifest(A).candidates = Whole(A.candidates)
  BY DEF Manifest
<1>3. /\ A.document = Document(run) /\ A.candidates = Generated(rows, Samples)
      /\ render_report(A).winners = _winners_section(Document(run), TRUE)
  BY DEF Artifacts, render_report, result_rows
<1>4. \A f \in Files : files[f] \in {Missing, Partial, Content(A, f)}
  BY DEF ArchiveInv, FilesOK
<1>5. \A x : Whole(x).is = "whole" /\ Whole(x).value = x
  BY DEF Whole
<1> HIDE DEF A
<1>6. ASSUME verify_archive(files, extra)
      PROVE  /\ ~extra /\ \A f \in Files : files[f].is = "whole"
             /\ files["candidates"].value = Generated(rows, Samples)
             /\ files["results"].value.document = Document(run)
             /\ LET w == select_winners(Board(rows), TRUE)
                IN files["report"].value.winners = <<w.observed, w.eligible>>
  <2>1. files["manifest"] = Whole(Manifest(A))
    BY <1>1, <1>4, <1>6 DEF verify_archive, Files, Missing, Partial
  <2>2. ~extra
    BY <1>6 DEF verify_archive
  <2>3. /\ files["results"] = Whole(A) /\ files["report"] = Whole(render_report(A))
        /\ files["candidates"] = Whole(A.candidates)
    BY <1>2, <1>5, <1>6, <2>1 DEF verify_archive, _verify_file_hash
  <2>4. run \in _TERMINAL_RUNS
    <3>1. files["manifest"] # Missing
      BY <1>5, <2>1 DEF Missing
    <3> QED
      BY <3>1 DEF ArchiveInv, Begun, Files
  <2>5. \A f \in Files : files[f].is = "whole"
    BY <1>5, <2>1, <2>3 DEF Files
  <2>6. files["report"].value.winners = _winners_section(Document(run), TRUE)
    BY <1>3, <1>5, <2>3
  <2>7. /\ files["candidates"].value = Generated(rows, Samples)
        /\ files["results"].value.document = Document(run)
    BY <1>3, <1>5, <2>3
  <2> QED
    BY <2>2, <2>4, <2>5, <2>6, <2>7, PrintedWinners
<1>7. ASSUME damages = 0, NEW w \in Writers, At(w, "done"),
             \A v \in Writers : \E pc \in {"idle", "build", "check", "refused", "done"} : At(v, pc)
      PROVE  verify_archive(files, extra)
  <2>1. ASSUME NEW f \in Files PROVE files[f] = Content(A, f)
    <3>1. Right(f)
      BY <1>7 DEF ArchiveInv, Kept, At, After, Files
    <3>2. ~ \E v \in Writers : writers[v].pc \in {f, "dead"}
      BY <1>7 DEF At, Files
    <3> QED
      BY <3>1, <3>2 DEF Right, A
  <2>2. /\ files["results"] = Whole(A) /\ files["report"] = Whole(render_report(A))
        /\ files["candidates"] = Whole(A.candidates) /\ files["manifest"] = Whole(Manifest(A))
    BY <1>1, <2>1 DEF Files
  <2>3. ~extra
    BY <1>7 DEF ArchiveInv, Kept
  <2>4. files["manifest"].is = "whole" /\ files["manifest"].value = Manifest(A)
    BY <1>5, <2>2
  <2>5. ASSUME NEW f \in {"results", "report", "candidates"} PROVE files[f] = Manifest(A)[f]
    BY <1>2, <2>2, <2>5
  <2>6. files["results"].value.candidates = Manifest(A).candidates.value
    BY <1>2, <1>5, <2>2
  <2> QED
    BY <2>3, <2>4, <2>5, <2>6
    DEF verify_archive, _verify_file_hash, _verify_candidate_sources
<1> QED
  BY <1>6, <1>7 DEF ArchiveIsWhole

\* A row shows its evaluation, its artifact and its end by its status.
LEMMA ShownByStatus ==
  ASSUME ReportInv, NEW S \in SUBSET Samples
  PROVE  /\ Evaluated(rows, S) = {s \in S : rows[s].status = "completed"}
         /\ Correct(rows, S) = {s \in S : rows[s].status = "completed" /\ rows[s].correct}
         /\ \A s \in S : rows[s].status = "completed" => rows[s].artifact
BY DEF ReportInv, RunOK, RowOK, Evaluated, Correct, is_correct_evaluation

\* statistics.py, _task_metrics: the label of a task says what its planned samples show,
\* and a sample that is missing counts neither as a success nor as a failure.
LEMMA LabelsEarned == ASSUME ReportInv PROVE ConsistencyIsEarned
<1> SUFFICES ASSUME NEW c \in Configs, NEW t \in Tasks
             PROVE  LET S == OfTask(c, t)
                        label == _task_consistency(rows, S)
                    IN /\ label = "consistently_correct" <=>
                            \A s \in S : rows[s].status = "completed" /\ rows[s].artifact /\ rows[s].correct
                       /\ \A s \in S : rows[s].status = "completed" =>
                            \/ label = "sometimes_correct"
                            \/ rows[s].correct /\ label \in {"consistently_correct", "incomplete_coverage"}
                            \/ ~rows[s].correct /\ label = "never_correct"
  BY DEF ConsistencyIsEarned
<1> DEFINE S == OfTask(c, t)
           done == {s \in S : rows[s].status = "completed"}
           right == {s \in S : rows[s].status = "completed" /\ rows[s].correct}
           label == _task_consistency(rows, S)
<1>1. S \in SUBSET Samples
  BY DEF OfTask, Samples
<1>2. S # {}
  <2>1. PICK n \in Indices : TRUE
    BY PlanAssumption
  <2>2. <<c, t, n>> \in S
    BY DEF OfTask
  <2> QED
    BY <2>2
<1> HIDE DEF S
<1>3. /\ Evaluated(rows, S) = done /\ Correct(rows, S) = right
      /\ \A s \in S : rows[s].status = "completed" => rows[s].artifact
  BY <1>1, ShownByStatus
<1>4. \A s \in S : rows[s].correct \in BOOLEAN
  BY <1>1 DEF ReportInv, RunOK, Rows
<1> HIDE DEF done, right
<1>5. label = CASE done = {} -> "no_completed_evaluations"
                [] done # {} /\ right = {} -> "never_correct"
                [] right # {} /\ right # done -> "sometimes_correct"
                [] done # {} /\ right = done /\ done = S -> "consistently_correct"
                [] OTHER -> "incomplete_coverage"
  BY <1>3 DEF _task_consistency
<1> HIDE DEF label
<1>6. label = "consistently_correct" <=> (done # {} /\ right = done /\ done = S)
  BY <1>5
<1>7. label = "never_correct" <=> (done # {} /\ right = {})
  BY <1>5
<1>8. label = "sometimes_correct" <=> (done # {} /\ right # {} /\ right # done)
  BY <1>5 DEF done, right
<1>9. label = "incomplete_coverage" <=> (done # {} /\ right = done /\ done # S)
  BY <1>5
<1>10. label = "consistently_correct" <=>
         \A s \in S : rows[s].status = "completed" /\ rows[s].artifact /\ rows[s].correct
  BY <1>2, <1>3, <1>6 DEF done, right
<1>11. ASSUME NEW s \in S, rows[s].status = "completed"
       PROVE  \/ label = "sometimes_correct"
              \/ rows[s].correct /\ label \in {"consistently_correct", "incomplete_coverage"}
              \/ ~rows[s].correct /\ label = "never_correct"
  <2>1. s \in done /\ (s \in right <=> rows[s].correct)
    BY <1>11 DEF done, right
  <2> QED
    BY <1>4, <1>6, <1>7, <1>8, <1>9, <2>1
<1> QED
  BY <1>10, <1>11 DEF label, S

\* reliability.py: in a finished run a provider's code is found on failed generations
\* only, which have no artifact; a sample that has neither was given up by the worker.
LEMMA FailuresApart == ASSUME ReportInv PROVE FailuresAreApart
<1> SUFFICES ASSUME run \in _TERMINAL_RUNS, NEW c \in Configs
             PROVE  LET S == Of(c)
                        failed == Failed(rows, S)
                    IN /\ failed \cap Generated(rows, S) = {}
                       /\ failure_codes(rows, S, Codes) = Cardinality(failed)
                       /\ \A s \in S \ (Generated(rows, S) \cup failed) : rows[s].code \in WorkerCodes
  BY DEF FailuresAreApart
<1> DEFINE S == Of(c)
           failed == Failed(rows, S)
<1>1. S \subseteq Samples
  BY DEF Of, Samples
<1>2. ASSUME NEW s \in S
      PROVE  RowOK(rows[s]) /\ rows[s].status \in Terminal /\ rows[s].artifact \in BOOLEAN
  BY <1>1, <1>2 DEF ReportInv, RunOK, Rows
<1>3. {s \in S : rows[s].code \in Codes} = failed
  BY <1>2, PlanAssumption DEF RowOK, Terminal, Failed
<1>4. failed \cap Generated(rows, S) = {}
  BY <1>2 DEF RowOK, Failed, Generated
<1>5. \A s \in S \ (Generated(rows, S) \cup failed) : rows[s].code \in WorkerCodes
  BY <1>2 DEF RowOK, Terminal, Failed, Generated, WorkerCodes
<1>6. failure_codes(rows, S, Codes) = Cardinality(failed)
  BY <1>3 DEF failure_codes
<1> QED
  BY <1>4, <1>5, <1>6

\* WinnersAreBest: winners are named by final exports only, of rows that are so still.
LEMMA WinnersBest == ASSUME ReportInv PROVE WinnersAreBest
<1> DEFINE Complete(c) == \A s \in Of(c) : rows[s].status = "completed" /\ rows[s].artifact
<1> SUFFICES ASSUME NEW i \in Exports
             PROVE  LET w == published[i].winners
                    IN /\ \A e \in w.eligible :
                            /\ Complete(e)
                            /\ \A c \in Configs : Complete(c) =>
                                 ~Less(weighted_mean(rows, e), weighted_mean(rows, c))
                       /\ \A o \in w.observed : \A c \in Configs :
                            ~Less(weighted_mean(rows, o), weighted_mean(rows, c))
                       /\ w.eligible # {} => w.observed # {}
                       /\ w.final /\ w.eligible = {} => \A c \in Configs : ~Complete(c)
  BY DEF WinnersAreBest
<1> DEFINE w == published[i].winners
<1>1. StillTrue(published[i]) /\ published[i].kind = "export"
  BY DEF ReportInv, PublishedOK, Exports
<1>2. CASE w.final
  <2>1. w = select_winners(Board(rows), TRUE)
    BY <1>1, <1>2 DEF StillTrue
  <2>2. Best(rows, w)
    BY <2>1, SelectedAreBest DEF ReportInv, RunOK
  <2> HIDE DEF w
  <2> QED
    BY <2>2 DEF Best, AllDone, w
<1>3. CASE ~w.final
  <2>1. w.observed = {} /\ w.eligible = {}
    BY <1>1, <1>3 DEF StillTrue
  <2> QED
    BY <1>3, <2>1
<1> QED
  BY <1>2, <1>3

LEMMA NeverHelped == ASSUME ReportInv PROVE MissingNeverHelps
<1>1. rows \in [Samples -> Rows]
  BY DEF ReportInv, RunOK
<1>2. ASSUME NEW c \in Configs
      PROVE  LET mean == weighted_mean(rows, c)  adjusted == coverage_adjusted(rows, c) IN
             /\ mean # Unknown => ~Less(mean, adjusted)
             /\ Evaluated(rows, Of(c)) = Of(c) => Equal(mean, adjusted)
             /\ \A s \in Evaluated(rows, Of(c)) :
                  ~Less(adjusted, coverage_adjusted([rows EXCEPT ![s] = NewRow], c))
  BY <1>1, AdjustedIsNoBetter, FewerIsNoBetter
<1> QED
  BY <1>2 DEF MissingNeverHelps

\* The rows, the run, the reader and the number of reports have their types, with at
\* most one report for each time that a run was read.
THEOREM TypeCorrect == ArchiveSpec => []TypeOK
<1>1. IInv => TypeOK
  BY DEF IInv, ReportInv, RunOK, ReaderOK, Rows, RunStates, TypeOK
<1> QED
  BY <1>1, AlwaysIInv, PTL

\* exporting.py, build; service.py, get; productization.py, write_archive and
\* verify_archive: what a report calls final stays true, although run and rows are read
\* apart, and an archive that verifies is one whole export, whichever commands wrote,
\* overwrote or were killed, and whatever was damaged.
THEOREM FinalReportsKept == ArchiveSpec => []FinalReportsAreKept
<1>1. IInv => FinalReportsAreKept
  BY ReportsStay, ArchivesWhole DEF IInv, FinalReportsAreKept
<1> QED
  BY <1>1, AlwaysIInv, PTL

\* winners.py, select_winners; statistics.py: the models an export names as winners are
\* the best by the means of their completed samples, the eligible one among the complete
\* models, and neither the coverage-adjusted score nor a label credits a missing sample.
THEOREM WinnersEarned == ArchiveSpec => []WinnersAreEarned
<1>1. IInv => WinnersAreEarned
  BY WinnersBest, NeverHelped, LabelsEarned DEF IInv, WinnersAreEarned, MissingIsNeverCredited
<1> QED
  BY <1>1, AlwaysIInv, PTL

\* exporting.py, build; reliability.py: totals, model documents, derived winners and
\* categories of failures are counted separately from the same rows and agree, and the
\* failures of a finished run are counted once each.
THEOREM CountsAgree == ArchiveSpec => []CountsAddUp
<1>1. ASSUME ReportInv PROVE DocumentsAgree
  <2>1. ASSUME NEW i \in Exports PROVE Agrees(published[i])
    <3>1. StillTrue(published[i]) /\ published[i].kind = "export"
      BY <1>1 DEF ReportInv, PublishedOK, Exports
    <3> QED
      BY <3>1 DEF StillTrue
  <2> QED
    BY <2>1 DEF DocumentsAgree, Agrees
<1>2. ASSUME ReportInv PROVE FailuresAddUp
  <2>1. FailuresAreApart
    BY <1>2, FailuresApart
  <2>2. ASSUME run \in _TERMINAL_RUNS, NEW c \in Configs
        PROVE  /\ SumFunction(generation_failure_category_counts(rows, Of(c))) = Cardinality(Failed(rows, Of(c)))
               /\ SumFunction(_failure_documents(rows, c)) = Cardinality(Of(c)) - OfStatus(rows, Of(c), "completed")
    BY <1>2, <2>2, FailuresAreCounted DEF ReportInv
  <2> QED
    BY <2>1, <2>2 DEF FailuresAddUp
<1>3. IInv => CountsAddUp
  BY <1>1, <1>2 DEF IInv, CountsAddUp
<1> QED
  BY <1>3, AlwaysIInv, PTL

=============================================================================
