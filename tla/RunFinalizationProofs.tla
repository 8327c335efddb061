---------------------- MODULE RunFinalizationProofs ----------------------
(***************************************************************************)
(* Proofs about RunFinalization, for any runs, samples and tasks.  The     *)
(* invariant says why counting under the run's lock is enough: what a      *)
(* transaction has concluded about a run it holds stays true until it      *)
(* commits, because nobody ends a sample without holding its run.          *)
(***************************************************************************)
EXTENDS RunFinalization, SequenceTheorems, FiniteSetTheorems, TLAPS

\* The runs that t has still to visit.
ToVisit(t) == {queue[t][i] : i \in 1 .. Len(queue[t])}

\* A transaction has something to visit exactly while it says so.
Stages ==
  \A t \in Tasks :
    /\ pc[t] \in {"idle", "wait"} => writes[t] = NoWrites /\ outcome[t] = NoOutcome
    /\ pc[t] \in {"idle", "wait", "commit"} => queue[t] = <<>>
    /\ pc[t] \in {"lock", "count"} => queue[t] # <<>>
    /\ pc[t] = "count" => run_lock[Head(queue[t])] = t

\* Only the holder of a sample's lock writes it, and no one writes a terminal one.
Writers ==
  \A t \in Tasks : \A s \in Samples : writes[t][s] # Same =>
    sample_lock[s] = t /\ status[s] \notin Terminal

\* A transaction that ends a sample visits its run, and keeps its lock afterwards.
Visits ==
  \A t \in Tasks : \A s \in Samples : writes[t][s] \in Terminal =>
    /\ kind[t] # "claim"
    /\ \/ RunOf[s] \in ToVisit(t)
       \/ run_lock[RunOf[s]] = t /\ outcome[t][RunOf[s]] = Verdict(t, RunOf[s])

\* What a transaction writes to a run holds until it commits.
Verdicts ==
  \A t \in Tasks : \A r \in Runs : outcome[t][r] # Same =>
    /\ run_lock[r] = t
    /\ kind[t] # "claim" => outcome[t][r] = Verdict(t, r)
    /\ kind[t] = "claim" => /\ outcome[t][r] = "running"
                            /\ \E s \in Members(r) : writes[t][s] = "active"

\* A claim visits the run of the sample it makes active.
Claims ==
  \A t \in Tasks : kind[t] = "claim" =>
    \A r \in ToVisit(t) : \E s \in Members(r) : writes[t][s] = "active"

IInv == TypeOK /\ Stages /\ Writers /\ Visits /\ Verdicts /\ Claims /\ RunFollowsSamples

-----------------------------------------------------------------------------

\* Same is none of the statuses a transaction may write.
LEMMA SameIsNoStatus == Same \notin Statuses /\ Same \notin RunStatuses
BY DEF Same, Statuses, RunStatuses, Terminal, RunTerminal

\* The initial states satisfy the invariant.
LEMMA InitInv == Init => IInv
<1> SUFFICES ASSUME Init PROVE IInv
  OBVIOUS
<1> USE DEF Init
<1>1. TypeOK
  BY DEF TypeOK, Statuses, RunStatuses, NoWrites, NoOutcome
<1>2. Stages /\ Writers /\ Visits /\ Verdicts /\ Claims
  BY SameIsNoStatus DEF Stages, Writers, Visits, Verdicts, Claims, NoWrites, NoOutcome, Statuses, Terminal
<1>3. RunFollowsSamples
  BY RunOfAssumption DEF RunFollowsSamples, Members, RunTerminal, Terminal
<1> QED
  BY <1>1, <1>2, <1>3 DEF IInv

\* A transaction that asks for its sample holds nothing yet, and preserves the
\* invariant.
LEMMA AskInv ==
  ASSUME IInv, NEW t \in Tasks, NEW method \in {"claim", "finish", "retry"}, NEW s \in Samples,
         ask(t, method, s)
  PROVE  IInv'
<1> USE DEF ask
<1>1. /\ pc'[t] = "wait" /\ queue[t] = <<>> /\ writes[t] = NoWrites /\ outcome[t] = NoOutcome
      /\ \A u \in Tasks \ {t} : pc'[u] = pc[u] /\ kind'[u] = kind[u]
  BY DEF IInv, TypeOK, Stages
<1>v. \A u \in Tasks : /\ ToVisit(u)' = ToVisit(u)
                       /\ \A r \in Runs : Verdict(u, r)' = Verdict(u, r)
  BY DEF ToVisit, Verdict, View
<1>e. ToVisit(t) = {}
  <2>1. Len(queue[t]) = 0
    BY <1>1
  <2> QED
    BY <2>1 DEF ToVisit
<1>2. TypeOK'
  BY DEF IInv, TypeOK
<1>3. Stages'
  BY <1>1 DEF IInv, Stages
<1>4. Writers'
  BY DEF IInv, Writers
<1>5. Visits'
  <2> SUFFICES ASSUME NEW u \in Tasks, NEW x \in Samples, writes[u][x] \in Terminal
               PROVE  /\ kind'[u] # "claim"
                      /\ \/ RunOf[x] \in ToVisit(u)'
                         \/ /\ run_lock[RunOf[x]] = u
                            /\ outcome[u][RunOf[x]] = Verdict(u, RunOf[x])'
    BY DEF Visits
  <2>1. u # t /\ RunOf[x] \in Runs
    BY <1>1, SameIsNoStatus, RunOfAssumption DEF NoWrites, Statuses
  <2> QED
    BY <2>1, <1>1, <1>v DEF IInv, Visits
<1>6. Verdicts'
  <2> SUFFICES ASSUME NEW u \in Tasks, NEW r \in Runs, outcome[u][r] # Same
               PROVE  /\ run_lock[r] = u
                      /\ kind'[u] # "claim" => outcome[u][r] = Verdict(u, r)'
                      /\ kind'[u] = "claim" => /\ outcome[u][r] = "running"
                                              /\ \E x \in Members(r) : writes[u][x] = "active"
    BY DEF Verdicts, Members
  <2>1. u # t
    BY <1>1 DEF NoOutcome
  <2> QED
    BY <2>1, <1>1, <1>v DEF IInv, Verdicts
<1>7. Claims'
  <2> SUFFICES ASSUME NEW u \in Tasks, kind'[u] = "claim", NEW r \in ToVisit(u)'
               PROVE  \E x \in Members(r) : writes[u][x] = "active"
    BY DEF Claims, Members
  <2>1. r \in ToVisit(u) /\ u # t
    BY <1>v, <1>e
  <2> QED
    BY <2>1, <1>1 DEF IInv, Claims
<1>8. RunFollowsSamples'
  BY DEF IInv, RunFollowsSamples, Members
<1> QED
  BY <1>2, <1>3, <1>4, <1>5, <1>6, <1>7, <1>8 DEF IInv

\* A transaction that begins with locks on live samples, and visits the runs of
\* those it ends, preserves the invariant.
LEMMA BeginInv ==
  ASSUME IInv, NEW t \in Tasks,
         NEW method \in {"claim", "finish", "retry", "recover", "reconcile"},
         NEW w \in [Samples -> Statuses \cup {Same}], NEW q \in Seq(Runs),
         \A s \in Samples : w[s] # Same => status[s] \notin Terminal,
         \A s \in Samples : w[s] \in Terminal =>
           method # "claim" /\ \E i \in 1 .. Len(q) : q[i] = RunOf[s],
         method = "claim" =>
           \A i \in 1 .. Len(q) : \E s \in Members(q[i]) : w[s] = "active",
         pc[t] \in {"idle", "wait"}, Begin(t, method, w, q)
  PROVE  IInv'
<1> USE DEF Begin
<1>0. /\ writes'[t] = w /\ queue'[t] = q /\ kind'[t] = method
      /\ outcome'[t] = NoOutcome
      /\ \A u \in Tasks \ {t} : /\ pc'[u] = pc[u] /\ kind'[u] = kind[u]
                               /\ writes'[u] = writes[u] /\ queue'[u] = queue[u]
                               /\ outcome'[u] = outcome[u]
  BY DEF IInv, TypeOK, Stages
<1>v. \A u \in Tasks \ {t} : \A r \in Runs : Verdict(u, r)' = Verdict(u, r)
  BY <1>0 DEF Verdict, View
<1>1. TypeOK'
  BY DEF IInv, TypeOK
<1>2. Stages'
  BY <1>0 DEF IInv, TypeOK, Stages
<1>3. Writers'
  <2> SUFFICES ASSUME NEW u \in Tasks, NEW s \in Samples, writes'[u][s] # Same
               PROVE  sample_lock'[s] = u /\ status'[s] \notin Terminal
    BY DEF Writers
  <2>1. CASE u = t
    BY <2>1, <1>0 DEF IInv, TypeOK
  <2>2. CASE u # t
    BY <2>2, <1>0, TasksAssumption DEF IInv, TypeOK, Writers
  <2> QED
    BY <2>1, <2>2
<1>4. Visits'
  <2> SUFFICES ASSUME NEW u \in Tasks, NEW s \in Samples, writes'[u][s] \in Terminal
               PROVE  /\ kind'[u] # "claim"
                      /\ \/ RunOf[s] \in ToVisit(u)'
                         \/ /\ run_lock'[RunOf[s]] = u
                            /\ outcome'[u][RunOf[s]] = Verdict(u, RunOf[s])'
    BY DEF Visits
  <2>1. CASE u = t
    <3>1. method # "claim" /\ \E i \in 1 .. Len(q) : q[i] = RunOf[s]
      BY <2>1, <1>0
    <3>2. ToVisit(t)' = {q[i] : i \in 1 .. Len(q)} /\ kind'[t] = method
      BY <1>0 DEF ToVisit
    <3> QED
      BY <2>1, <3>1, <3>2
  <2>2. CASE u # t
    <3>1. ToVisit(u)' = ToVisit(u)
      BY <2>2, <1>0 DEF ToVisit
    <3>2. RunOf[s] \in Runs
      BY RunOfAssumption
    <3> QED
      BY <2>2, <3>1, <3>2, <1>0, <1>v DEF IInv, Visits
  <2> QED
    BY <2>1, <2>2
<1>5. Verdicts'
  <2> SUFFICES ASSUME NEW u \in Tasks, NEW r \in Runs, outcome'[u][r] # Same
               PROVE  /\ run_lock'[r] = u
                      /\ kind'[u] # "claim" => outcome'[u][r] = Verdict(u, r)'
                      /\ kind'[u] = "claim" => /\ outcome'[u][r] = "running"
                                              /\ \E s \in Members(r) : writes'[u][s] = "active"
    BY DEF Verdicts, Members
  <2>1. u # t
    BY <1>0 DEF NoOutcome
  <2> QED
    BY <2>1, <1>0, <1>v DEF IInv, Verdicts
<1>6. Claims'
  <2> SUFFICES ASSUME NEW u \in Tasks, kind'[u] = "claim", NEW r \in ToVisit(u)'
               PROVE  \E s \in Members(r) : writes'[u][s] = "active"
    BY DEF Claims, Members
  <2>1. CASE u = t
    BY <2>1, <1>0 DEF ToVisit
  <2>2. CASE u # t
    <3>1. ToVisit(u)' = ToVisit(u)
      BY <2>2, <1>0 DEF ToVisit
    <3> QED
      BY <2>2, <3>1, <1>0 DEF IInv, Claims
  <2> QED
    BY <2>1, <2>2
<1>7. RunFollowsSamples'
  BY DEF IInv, RunFollowsSamples, Members
<1> QED
  BY <1>1, <1>2, <1>3, <1>4, <1>5, <1>6, <1>7 DEF IInv


\* Locking a run that nobody else holds preserves the invariant.
LEMMA LockRunInv == ASSUME IInv, NEW t \in Tasks, lock_run(t) PROVE IInv'
<1> DEFINE r == Head(queue[t])
<1> USE DEF lock_run
<1>0. /\ queue[t] \in Seq(Runs) /\ queue[t] # <<>> /\ r \in Runs
      /\ run_lock[r] \in {NoTask, t}
      /\ run_lock'[r] = t
      /\ \A x \in Runs \ {r} : run_lock'[x] = run_lock[x]
  BY DEF IInv, TypeOK, Stages, Free
<1>1. \A u \in Tasks : \A x \in Runs : run_lock[x] = u => run_lock'[x] = u
  BY <1>0, TasksAssumption
<1>v. \A u \in Tasks : \A x \in Runs : Verdict(u, x)' = Verdict(u, x)
  BY DEF Verdict, View
<1>2. TypeOK'
  BY <1>0 DEF IInv, TypeOK
<1>3. Stages'
  <2> SUFFICES ASSUME NEW u \in Tasks
               PROVE  /\ pc'[u] \in {"idle", "wait"} => writes[u] = NoWrites /\ outcome[u] = NoOutcome
                      /\ pc'[u] \in {"idle", "wait", "commit"} => queue[u] = <<>>
                      /\ pc'[u] \in {"lock", "count"} => queue[u] # <<>>
                      /\ pc'[u] = "count" => run_lock'[Head(queue[u])] = u
    BY DEF Stages
  <2>1. CASE u = t
    BY <2>1, <1>0 DEF IInv, TypeOK
  <2>2. CASE u # t
    <3>1. pc'[u] = pc[u] /\ queue[u] \in Seq(Runs)
      BY <2>2 DEF IInv, TypeOK
    <3>2. queue[u] # <<>> => Head(queue[u]) \in Runs
      BY <3>1
    <3> QED
      BY <3>1, <3>2, <1>1 DEF IInv, Stages
  <2> QED
    BY <2>1, <2>2
<1>4. Writers'
  BY DEF IInv, Writers
<1>5. Visits'
  <2> SUFFICES ASSUME NEW u \in Tasks, NEW s \in Samples, writes[u][s] \in Terminal
               PROVE  /\ kind[u] # "claim"
                      /\ \/ RunOf[s] \in ToVisit(u)'
                         \/ /\ run_lock'[RunOf[s]] = u
                            /\ outcome[u][RunOf[s]] = Verdict(u, RunOf[s])'
    BY DEF Visits
  <2>1. ToVisit(u)' = ToVisit(u) /\ RunOf[s] \in Runs
    BY RunOfAssumption DEF ToVisit
  <2> QED
    BY <2>1, <1>1, <1>v DEF IInv, Visits
<1>6. Verdicts'
  BY <1>1, <1>v DEF IInv, Verdicts, Members
<1>7. Claims'
  <2> SUFFICES ASSUME NEW u \in Tasks, kind[u] = "claim", NEW x \in ToVisit(u)'
               PROVE  \E s \in Members(x) : writes[u][s] = "active"
    BY DEF Claims, Members
  <2>1. x \in ToVisit(u)
    BY DEF ToVisit
  <2> QED
    BY <2>1 DEF IInv, Claims
<1>8. RunFollowsSamples'
  BY DEF IInv, RunFollowsSamples, Members
<1> QED
  BY <1>2, <1>3, <1>4, <1>5, <1>6, <1>7, <1>8 DEF IInv

\* Counting the samples of a locked run preserves the invariant.
LEMMA VisitRunInv == ASSUME IInv, NEW t \in Tasks, visit_run(t) PROVE IInv'
<1> DEFINE r == Head(queue[t])
<1> USE DEF visit_run
<1>0. /\ queue[t] \in Seq(Runs) /\ queue[t] # <<>> /\ r \in Runs
      /\ run_lock[r] = t
      /\ queue'[t] = Tail(queue[t])
      /\ outcome'[t][r] = IF kind[t] = "claim" THEN "running" ELSE Verdict(t, r)
      /\ \A x \in Runs \ {r} : outcome'[t][x] = outcome[t][x]
  BY DEF IInv, TypeOK, Stages
<1>1. \A u \in Tasks \ {t} : /\ pc'[u] = pc[u] /\ queue'[u] = queue[u]
                             /\ outcome'[u] = outcome[u]
  BY DEF IInv, TypeOK
<1>v. \A u \in Tasks : \A x \in Runs : Verdict(u, x)' = Verdict(u, x)
  BY DEF Verdict, View
<1>q. \A x \in ToVisit(t) : x = r \/ x \in ToVisit(t)'
  <2> SUFFICES ASSUME NEW i \in 1 .. Len(queue[t]), queue[t][i] # r
               PROVE  \E k \in 1 .. Len(Tail(queue[t])) : Tail(queue[t])[k] = queue[t][i]
    BY <1>0 DEF ToVisit
  <2>1. i # 1 /\ i - 1 \in 1 .. Len(Tail(queue[t])) /\ Tail(queue[t])[i - 1] = queue[t][i]
    BY <1>0
  <2> QED
    BY <2>1
<1>w. \A x \in ToVisit(t)' : x \in ToVisit(t)
  <2> SUFFICES ASSUME NEW k \in 1 .. Len(Tail(queue[t]))
               PROVE  \E i \in 1 .. Len(queue[t]) : queue[t][i] = Tail(queue[t])[k]
    BY <1>0 DEF ToVisit
  <2>1. k + 1 \in 1 .. Len(queue[t]) /\ queue[t][k + 1] = Tail(queue[t])[k]
    BY <1>0
  <2> QED
    BY <2>1
<1>2. TypeOK'
  <2>1. Verdict(t, r) \in RunStatuses \cup {Same}
    BY DEF Verdict, RunStatuses, RunTerminal
  <2>2. "running" \in RunStatuses /\ Tail(queue[t]) \in Seq(Runs)
    BY <1>0 DEF RunStatuses
  <2> QED
    BY <2>1, <2>2, <1>0 DEF IInv, TypeOK
<1>3. Stages'
  <2>1. /\ Len(queue[t]) = 1 => Tail(queue[t]) = <<>>
        /\ Len(queue[t]) # 1 => Tail(queue[t]) # <<>>
    <3>1. Tail(queue[t]) \in Seq(Runs) /\ Len(Tail(queue[t])) = Len(queue[t]) - 1
      BY <1>0
    <3>2. Tail(queue[t]) = <<>> <=> Len(Tail(queue[t])) = 0
      BY <3>1, EmptySeq, Zenon
    <3> QED
      BY <3>1, <3>2, <1>0
  <2>2. pc'[t] = IF Len(queue[t]) = 1 THEN "commit" ELSE "lock"
    BY DEF IInv, TypeOK
  <2> SUFFICES ASSUME NEW u \in Tasks
               PROVE  /\ pc'[u] \in {"idle", "wait"} => writes[u] = NoWrites /\ outcome'[u] = NoOutcome
                      /\ pc'[u] \in {"idle", "wait", "commit"} => queue'[u] = <<>>
                      /\ pc'[u] \in {"lock", "count"} => queue'[u] # <<>>
                      /\ pc'[u] = "count" => run_lock[Head(queue'[u])] = u
    BY DEF Stages
  <2>3. CASE u = t
    <3>1. CASE Len(queue[t]) = 1
      <4>1. queue'[t] = <<>>
        BY <2>1, <3>1, <1>0, Zenon
      <4>2. pc'[t] = "commit"
        BY <2>2, <3>1, Zenon
      <4> HIDE DEF visit_run
      <4> QED
        BY <4>1, <4>2, <2>3
    <3>2. CASE Len(queue[t]) # 1
      BY <2>1, <2>2, <2>3, <3>2, <1>0
    <3> QED
      BY <3>1, <3>2
  <2>4. CASE u # t
    BY <2>4, <1>1 DEF IInv, Stages
  <2> QED
    BY <2>3, <2>4
<1>4. Writers'
  BY DEF IInv, Writers
<1>5. Visits'
  <2> SUFFICES ASSUME NEW u \in Tasks, NEW s \in Samples, writes[u][s] \in Terminal
               PROVE  /\ kind[u] # "claim"
                      /\ \/ RunOf[s] \in ToVisit(u)'
                         \/ /\ run_lock[RunOf[s]] = u
                            /\ outcome'[u][RunOf[s]] = Verdict(u, RunOf[s])'
    BY DEF Visits
  <2>1. RunOf[s] \in Runs
    BY RunOfAssumption
  <2>2. CASE u = t
    BY <2>1, <2>2, <1>0, <1>q, <1>v DEF IInv, Visits
  <2>3. CASE u # t
    <3>1. ToVisit(u)' = ToVisit(u)
      BY <2>3, <1>1 DEF ToVisit
    <3> QED
      BY <2>1, <2>3, <3>1, <1>1, <1>v DEF IInv, Visits
  <2> QED
    BY <2>2, <2>3
<1>6. Verdicts'
  <2> SUFFICES ASSUME NEW u \in Tasks, NEW x \in Runs, outcome'[u][x] # Same
               PROVE  /\ run_lock[x] = u
                      /\ kind[u] # "claim" => outcome'[u][x] = Verdict(u, x)'
                      /\ kind[u] = "claim" => /\ outcome'[u][x] = "running"
                                              /\ \E s \in Members(x) : writes[u][s] = "active"
    BY DEF Verdicts, Members
  <2>1. CASE u = t /\ x = r
    <3>1. r \in ToVisit(t)
      <4>1. 1 \in 1 .. Len(queue[t]) /\ queue[t][1] = r
        BY <1>0
      <4> QED
        BY <4>1 DEF ToVisit
    <3> QED
      BY <2>1, <3>1, <1>0, <1>v DEF IInv, Claims
  <2>2. CASE u = t /\ x # r
    BY <2>2, <1>0, <1>v DEF IInv, Verdicts
  <2>3. CASE u # t
    BY <2>3, <1>1, <1>v DEF IInv, Verdicts
  <2> QED
    BY <2>1, <2>2, <2>3
<1>7. Claims'
  <2> SUFFICES ASSUME NEW u \in Tasks, kind[u] = "claim", NEW x \in ToVisit(u)'
               PROVE  \E s \in Members(x) : writes[u][s] = "active"
    BY DEF Claims, Members
  <2>1. x \in ToVisit(u)
    BY <1>w, <1>1 DEF ToVisit
  <2> QED
    BY <2>1 DEF IInv, Claims
<1>8. RunFollowsSamples'
  BY DEF IInv, RunFollowsSamples, Members
<1> QED
  BY <1>2, <1>3, <1>4, <1>5, <1>6, <1>7, <1>8 DEF IInv

\* What a transaction leaves when it ends: nothing of its own, and everything of
\* the others.
LEMMA EndFacts ==
  ASSUME IInv, NEW t \in Tasks, End(t)
  PROVE  /\ pc'[t] = "idle" /\ kind'[t] = "none" /\ writes'[t] = NoWrites
         /\ outcome'[t] = NoOutcome /\ queue'[t] = <<>>
         /\ \A u \in Tasks \ {t} :
              /\ pc'[u] = pc[u] /\ kind'[u] = kind[u] /\ writes'[u] = writes[u]
              /\ outcome'[u] = outcome[u] /\ queue'[u] = queue[u]
              /\ \A s \in Samples : sample_lock[s] = u => sample_lock'[s] = u
              /\ \A r \in Runs : run_lock[r] = u => run_lock'[r] = u
         /\ sample_lock' \in [Samples -> Tasks \cup {NoTask}]
         /\ run_lock' \in [Runs -> Tasks \cup {NoTask}]
         /\ pc' \in [Tasks -> {"idle", "wait", "lock", "count", "commit"}]
         /\ wanted' \in [Tasks -> SUBSET Samples]
         /\ kind' \in [Tasks -> {"none", "claim", "finish", "retry", "recover", "reconcile"}]
         /\ writes' \in [Tasks -> [Samples -> Statuses \cup {Same}]]
         /\ outcome' \in [Tasks -> [Runs -> RunStatuses \cup {Same}]]
         /\ queue' \in [Tasks -> Seq(Runs)]
<1> USE DEF IInv, TypeOK, End
<1>1. NoWrites \in [Samples -> Statuses \cup {Same}] /\ NoOutcome \in [Runs -> RunStatuses \cup {Same}]
  BY DEF NoWrites, NoOutcome
<1>2. <<>> \in Seq(Runs)
  OBVIOUS
<1>3. /\ pc'[t] = "idle" /\ kind'[t] = "none" /\ writes'[t] = NoWrites
      /\ outcome'[t] = NoOutcome /\ queue'[t] = <<>>
  OBVIOUS
<1>4. ASSUME NEW u \in Tasks \ {t}
      PROVE  /\ pc'[u] = pc[u] /\ kind'[u] = kind[u] /\ writes'[u] = writes[u]
             /\ outcome'[u] = outcome[u] /\ queue'[u] = queue[u]
             /\ \A s \in Samples : sample_lock[s] = u => sample_lock'[s] = u
             /\ \A r \in Runs : run_lock[r] = u => run_lock'[r] = u
  OBVIOUS
<1>5. /\ sample_lock' \in [Samples -> Tasks \cup {NoTask}]
      /\ run_lock' \in [Runs -> Tasks \cup {NoTask}]
      /\ pc' \in [Tasks -> {"idle", "wait", "lock", "count", "commit"}]
      /\ wanted' \in [Tasks -> SUBSET Samples]
      /\ kind' \in [Tasks -> {"none", "claim", "finish", "retry", "recover", "reconcile"}]
  OBVIOUS
<1>6. /\ writes' \in [Tasks -> [Samples -> Statuses \cup {Same}]]
      /\ outcome' \in [Tasks -> [Runs -> RunStatuses \cup {Same}]]
      /\ queue' \in [Tasks -> Seq(Runs)]
  BY <1>1, <1>2
<1> QED
  BY <1>3, <1>4, <1>5, <1>6, Zenon

\* An end that keeps the statuses, or writes them so that what the others hold
\* and have concluded stays true, preserves all of the invariant but its last part.
LEMMA EndInv ==
  ASSUME IInv, NEW t \in Tasks, End(t),
         status' \in [Samples -> Statuses], run_status' \in [Runs -> RunStatuses],
         \A u \in Tasks \ {t} : \A s \in Samples : writes[u][s] # Same => status'[s] = status[s],
         \A u \in Tasks \ {t} : \A r \in Runs : run_lock[r] = u => Verdict(u, r)' = Verdict(u, r)
  PROVE  TypeOK' /\ Stages' /\ Writers' /\ Visits' /\ Verdicts' /\ Claims'
<1>1. TypeOK'
  BY EndFacts DEF TypeOK
<1>2. Stages'
  <2> SUFFICES ASSUME NEW u \in Tasks
               PROVE  /\ pc'[u] \in {"idle", "wait"} => writes'[u] = NoWrites /\ outcome'[u] = NoOutcome
                      /\ pc'[u] \in {"idle", "wait", "commit"} => queue'[u] = <<>>
                      /\ pc'[u] \in {"lock", "count"} => queue'[u] # <<>>
                      /\ pc'[u] = "count" => run_lock'[Head(queue'[u])] = u
    BY DEF Stages
  <2>1. CASE u = t
    BY <2>1, EndFacts
  <2>2. CASE u # t
    <3>1. queue[u] # <<>> => Head(queue[u]) \in Runs
      BY DEF IInv, TypeOK
    <3>2. u \in Tasks \ {t}
      BY <2>2
    <3>3. /\ pc'[u] = pc[u] /\ writes'[u] = writes[u] /\ outcome'[u] = outcome[u]
          /\ queue'[u] = queue[u]
          /\ \A r \in Runs : run_lock[r] = u => run_lock'[r] = u
      BY <3>2, EndFacts
    <3> QED
      BY <3>1, <3>3 DEF IInv, Stages
  <2> QED
    BY <2>1, <2>2
<1>3. Writers'
  <2> SUFFICES ASSUME NEW u \in Tasks, NEW s \in Samples, writes'[u][s] # Same
               PROVE  sample_lock'[s] = u /\ status'[s] \notin Terminal
    BY DEF Writers
  <2>1. u # t
    BY EndFacts DEF NoWrites
  <2>2. writes'[u] = writes[u] /\ (sample_lock[s] = u => sample_lock'[s] = u)
    BY <2>1, EndFacts
  <2> QED
    BY <2>1, <2>2 DEF IInv, Writers
<1>4. Visits'
  <2> SUFFICES ASSUME NEW u \in Tasks, NEW s \in Samples, writes'[u][s] \in Terminal
               PROVE  /\ kind'[u] # "claim"
                      /\ \/ RunOf[s] \in ToVisit(u)'
                         \/ /\ run_lock'[RunOf[s]] = u
                            /\ outcome'[u][RunOf[s]] = Verdict(u, RunOf[s])'
    BY DEF Visits
  <2>1. u # t
    BY EndFacts, SameIsNoStatus DEF NoWrites, Statuses
  <2>2. RunOf[s] \in Runs
    BY RunOfAssumption
  <2>3. /\ kind'[u] = kind[u] /\ writes'[u] = writes[u] /\ outcome'[u] = outcome[u]
        /\ queue'[u] = queue[u]
        /\ run_lock[RunOf[s]] = u => run_lock'[RunOf[s]] = u
    BY <2>1, <2>2, EndFacts
  <2>4. ToVisit(u)' = ToVisit(u)
    BY <2>3 DEF ToVisit
  <2> QED
    BY <2>1, <2>2, <2>3, <2>4 DEF IInv, Visits
<1>5. Verdicts'
  <2> SUFFICES ASSUME NEW u \in Tasks, NEW r \in Runs, outcome'[u][r] # Same
               PROVE  /\ run_lock'[r] = u
                      /\ kind'[u] # "claim" => outcome'[u][r] = Verdict(u, r)'
                      /\ kind'[u] = "claim" => /\ outcome'[u][r] = "running"
                                               /\ \E s \in Members(r) : writes'[u][s] = "active"
    BY DEF Verdicts, Members
  <2>1. u # t
    BY EndFacts DEF NoOutcome
  <2>2. /\ kind'[u] = kind[u] /\ writes'[u] = writes[u] /\ outcome'[u] = outcome[u]
        /\ run_lock[r] = u => run_lock'[r] = u
    BY <2>1, EndFacts
  <2> QED
    BY <2>1, <2>2 DEF IInv, Verdicts
<1>6. Claims'
  <2> SUFFICES ASSUME NEW u \in Tasks, kind'[u] = "claim", NEW r \in ToVisit(u)'
               PROVE  \E s \in Members(r) : writes'[u][s] = "active"
    BY DEF Claims, Members
  <2>1. u # t
    BY EndFacts
  <2>2. kind'[u] = kind[u] /\ writes'[u] = writes[u] /\ queue'[u] = queue[u]
    BY <2>1, EndFacts
  <2>3. r \in ToVisit(u)
    BY <2>2 DEF ToVisit
  <2> QED
    BY <2>2, <2>3 DEF IInv, Claims
<1> QED
  BY <1>1, <1>2, <1>3, <1>4, <1>5, <1>6

\* A transaction that ends without writing, refused or aborted, changes nothing.
LEMMA NoWriteInv ==
  ASSUME IInv, NEW t \in Tasks, End(t), UNCHANGED <<status, run_status>>
  PROVE  IInv'
<1>1. End(t) /\ status' = status /\ run_status' = run_status
  OBVIOUS
<1>2. ASSUME NEW u \in Tasks \ {t}, NEW r \in Runs PROVE Verdict(u, r)' = Verdict(u, r)
  <2>1. writes'[u] = writes[u]
    BY <1>1, EndFacts
  <2> QED
    BY <1>1, <2>1 DEF Verdict, View
<1>3. status \in [Samples -> Statuses] /\ run_status \in [Runs -> RunStatuses]
  BY DEF IInv, TypeOK
<1>4. TypeOK' /\ Stages' /\ Writers' /\ Visits' /\ Verdicts' /\ Claims'
  BY <1>1, <1>2, <1>3, EndInv
<1>5. RunFollowsSamples'
  BY <1>1 DEF IInv, RunFollowsSamples, Members
<1> QED
  BY <1>4, <1>5 DEF IInv


\* A transaction that commits ends samples only of runs whose locks it holds, and
\* has written their verdicts.
LEMMA CommitFacts ==
  ASSUME IInv, NEW t \in Tasks, commit(t), NEW s \in Samples
  PROVE  /\ status'[s] = IF writes[t][s] = Same THEN status[s] ELSE writes[t][s]
         /\ writes[t][s] # Same => status[s] \notin Terminal /\ sample_lock[s] = t
         /\ status[s] \in Terminal => status'[s] = status[s]
         /\ status'[s] \in Terminal /\ status[s] \notin Terminal =>
              /\ kind[t] # "claim"
              /\ run_lock[RunOf[s]] = t
              /\ outcome[t][RunOf[s]] = Verdict(t, RunOf[s])
<1>1. status'[s] = IF writes[t][s] = Same THEN status[s] ELSE writes[t][s]
  BY DEF commit, View
<1>2. writes[t][s] # Same => status[s] \notin Terminal /\ sample_lock[s] = t
  BY DEF IInv, Writers
<1>3. ToVisit(t) = {}
  <2>1. queue[t] = <<>>
    BY DEF commit, IInv, Stages
  <2>2. Len(queue[t]) = 0
    BY <2>1
  <2> QED
    BY <2>2 DEF ToVisit
<1>4. writes[t][s] \in Terminal =>
        /\ kind[t] # "claim"
        /\ run_lock[RunOf[s]] = t
        /\ outcome[t][RunOf[s]] = Verdict(t, RunOf[s])
  BY <1>3 DEF IInv, Visits
<1> QED
  BY <1>1, <1>2, <1>4

\* A commit preserves the invariant.
LEMMA CommitInv == ASSUME IInv, NEW t \in Tasks, commit(t) PROVE IInv'
<1>1. End(t)
  BY DEF commit
<1>2. status' \in [Samples -> Statuses]
  BY DEF commit, View, IInv, TypeOK
<1>3. run_status' \in [Runs -> RunStatuses]
  BY DEF commit, IInv, TypeOK
<1>4. ASSUME NEW u \in Tasks \ {t}, NEW s \in Samples, writes[u][s] # Same
      PROVE  status'[s] = status[s]
  <2>1. sample_lock[s] = u
    BY <1>4 DEF IInv, Writers
  <2> QED
    BY <2>1, CommitFacts
<1>5. ASSUME NEW u \in Tasks \ {t}, NEW r \in Runs, run_lock[r] = u
      PROVE  Verdict(u, r)' = Verdict(u, r)
  <2>1. writes'[u] = writes[u]
    BY <1>1, EndFacts
  <2>2. ASSUME NEW s \in Members(r)
        PROVE  /\ View(u)'[s] \in Terminal <=> View(u)[s] \in Terminal
               /\ View(u)'[s] = "skipped" <=> View(u)[s] = "skipped"
    <3>1. s \in Samples /\ RunOf[s] = r
      BY DEF Members
    <3>2. status'[s] \in Terminal => status[s] \in Terminal
      BY <3>1, <1>5, CommitFacts
    <3>3. status[s] \in Terminal => status'[s] = status[s]
      BY <3>1, CommitFacts
    <3>4. /\ View(u)[s] = IF writes[u][s] = Same THEN status[s] ELSE writes[u][s]
          /\ View(u)'[s] = IF writes[u][s] = Same THEN status'[s] ELSE writes[u][s]
      BY <3>1, <2>1 DEF View
    <3>5. "skipped" \in Terminal
      BY DEF Terminal
    <3> QED
      BY <3>2, <3>3, <3>4, <3>5
  <2>3. Members(r)' = Members(r)
    BY DEF Members
  <2> QED
    BY <2>2, <2>3 DEF Verdict
<1>6. TypeOK' /\ Stages' /\ Writers' /\ Visits' /\ Verdicts' /\ Claims'
  BY <1>1, <1>2, <1>3, <1>4, <1>5, EndInv
<1>7. RunFollowsSamples'
  <2> SUFFICES ASSUME NEW r \in Runs
               PROVE  /\ run_status'[r] \in RunTerminal <=> \A s \in Members(r) : status'[s] \in Terminal
                      /\ run_status'[r] = "partial" <=> /\ run_status'[r] \in RunTerminal
                                                        /\ \E s \in Members(r) : status'[s] = "skipped"
    BY DEF RunFollowsSamples, Members
  <2>0. /\ run_status'[r] = IF outcome[t][r] = Same THEN run_status[r] ELSE outcome[t][r]
        /\ \A s \in Members(r) : s \in Samples /\ RunOf[s] = r /\ status'[s] = View(t)[s]
    BY DEF commit, Members
  <2>1. CASE outcome[t][r] = Same /\ \A s \in Members(r) : status'[s] \in Terminal => status[s] \in Terminal
    <3>1. ASSUME NEW s \in Members(r)
          PROVE  /\ status'[s] \in Terminal <=> status[s] \in Terminal
                 /\ status'[s] = "skipped" <=> status[s] = "skipped"
      BY <2>0, <2>1, CommitFacts DEF Terminal
    <3> QED
      BY <2>0, <2>1, <3>1 DEF IInv, RunFollowsSamples
  <2>2. CASE outcome[t][r] = Same /\ \E s \in Members(r) : status'[s] \in Terminal /\ status[s] \notin Terminal
    <3>1. PICK s \in Members(r) : status'[s] \in Terminal /\ status[s] \notin Terminal
      BY <2>2
    <3>2. Verdict(t, r) = Same
      BY <3>1, <2>0, <2>2, CommitFacts
    <3>3. \E x \in Members(r) : status'[x] \notin Terminal
      BY <3>2, <2>0 DEF Verdict, Same
    <3>4. run_status[r] \notin RunTerminal
      BY <3>1 DEF IInv, RunFollowsSamples
    <3> QED
      BY <3>3, <3>4, <2>0, <2>2 DEF RunTerminal
  <2>3. CASE outcome[t][r] # Same /\ kind[t] = "claim"
    <3>1. outcome[t][r] = "running" /\ \E s \in Members(r) : writes[t][s] = "active"
      BY <2>3 DEF IInv, Verdicts
    <3>2. PICK s \in Members(r) : writes[t][s] = "active"
      BY <3>1
    <3>3. status'[s] = "active"
      BY <3>2, <2>0, CommitFacts DEF Same
    <3> QED
      BY <3>1, <3>3, <2>0, <2>3 DEF Terminal, RunTerminal
  <2>4. CASE outcome[t][r] # Same /\ kind[t] # "claim"
    <3>1. outcome[t][r] = Verdict(t, r)
      BY <2>4 DEF IInv, Verdicts
    <3> QED
      BY <3>1, <2>0, <2>4 DEF Verdict, RunTerminal
  <2> QED
    BY <2>1, <2>2, <2>3, <2>4
<1> QED
  BY <1>6, <1>7 DEF IInv

-----------------------------------------------------------------------------

\* An order of some runs is a list of them that leaves out none.
LEMMA OrderIsList ==
  ASSUME NEW R \in SUBSET Runs, NEW q \in Orders(R)
  PROVE  q \in Seq(Runs) /\ \A r \in R : \E i \in 1 .. Len(q) : q[i] = r
<1>1. Cardinality(R) \in Nat
  BY RunsAssumption, FS_Subset, FS_CardinalityType
<1>2. q \in [1 .. Cardinality(R) -> R] /\ R = {q[i] : i \in 1 .. Cardinality(R)}
  BY DEF Orders
<1>3. q \in Seq(Runs) /\ Len(q) = Cardinality(R)
  BY <1>1, <1>2
<1> QED
  BY <1>2, <1>3

\* The transactions begin as BeginInv asks.
LEMMA MethodInv ==
  ASSUME IInv, NEW t \in Tasks,
         \/ \E s \in Samples : claim(t, s) \/ finish(t, s) \/ retry(t, s)
         \/ \E again, given_up \in SUBSET Samples : recover_stale(t, again, given_up)
         \/ reconcile_terminal_runs(t)
  PROVE  IInv'
<1>t. "active" \in Statuses /\ "waiting" \in Statuses /\ "done" \in Statuses /\ "skipped" \in Statuses
      /\ "active" \notin Terminal /\ "waiting" \notin Terminal /\ Same \notin Terminal
  BY DEF Statuses, Terminal, Same
<1>r. \A s \in Samples : RunOf[s] \in Runs
  BY RunOfAssumption
<1>1. ASSUME NEW s \in Samples, claim(t, s) PROVE IInv'
  <2> DEFINE w == [NoWrites EXCEPT ![s] = "active"]
             q == IF run_status[RunOf[s]] = "queued" THEN <<RunOf[s]>> ELSE <<>>
  <2>1. w \in [Samples -> Statuses \cup {Same}] /\ w[s] = "active" /\ \A x \in Samples \ {s} : w[x] = Same
    BY <1>t DEF NoWrites
  <2>2. q \in Seq(Runs) /\ \A i \in 1 .. Len(q) : q[i] = RunOf[s]
    BY <1>r
  <2>3. pc[t] = "wait" /\ status[s] = "waiting" /\ Begin(t, "claim", w, q)
    BY <1>1 DEF claim, Asked
  <2>4. \A x \in Samples : w[x] # Same => status[x] \notin Terminal
    BY <2>1, <2>3, <1>t
  <2>5. \A x \in Samples : w[x] \notin Terminal
    BY <2>1, <1>t
  <2>6. \A i \in 1 .. Len(q) : \E x \in Members(q[i]) : w[x] = "active"
    BY <2>1, <2>2 DEF Members
  <2> HIDE DEF w, q
  <2> QED
    BY <2>1, <2>2, <2>3, <2>4, <2>5, <2>6, BeginInv
<1>2. ASSUME NEW s \in Samples, finish(t, s) PROVE IInv'
  <2> DEFINE w == [NoWrites EXCEPT ![s] = "done"]
             q == <<RunOf[s]>>
  <2>1. w \in [Samples -> Statuses \cup {Same}] /\ w[s] = "done" /\ \A x \in Samples \ {s} : w[x] = Same
    BY <1>t DEF NoWrites
  <2>2. q \in Seq(Runs) /\ 1 \in 1 .. Len(q) /\ q[1] = RunOf[s]
    BY <1>r
  <2>3. pc[t] = "wait" /\ status[s] = "active" /\ Begin(t, "finish", w, q)
    BY <1>2 DEF finish, Asked
  <2>4. \A x \in Samples : w[x] # Same => status[x] \notin Terminal
    BY <2>1, <2>3, <1>t
  <2>5. \A x \in Samples : w[x] \in Terminal => \E i \in 1 .. Len(q) : q[i] = RunOf[x]
    BY <2>1, <2>2, <1>t
  <2> HIDE DEF w, q
  <2> QED
    BY <2>1, <2>2, <2>3, <2>4, <2>5, BeginInv
<1>3. ASSUME NEW s \in Samples, retry(t, s) PROVE IInv'
  <2> DEFINE w == [NoWrites EXCEPT ![s] = "waiting"]
             q == <<>>
  <2>1. w \in [Samples -> Statuses \cup {Same}] /\ w[s] = "waiting" /\ \A x \in Samples \ {s} : w[x] = Same
    BY <1>t DEF NoWrites
  <2>2. q \in Seq(Runs)
    OBVIOUS
  <2>3. pc[t] = "wait" /\ status[s] = "active" /\ Begin(t, "retry", w, q)
    BY <1>3 DEF retry, Asked
  <2>4. \A x \in Samples : w[x] # Same => status[x] \notin Terminal
    BY <2>1, <2>3, <1>t
  <2>5. \A x \in Samples : w[x] \notin Terminal
    BY <2>1, <1>t
  <2> HIDE DEF w, q
  <2> QED
    BY <2>1, <2>2, <2>3, <2>4, <2>5, BeginInv
<1>4. ASSUME NEW again \in SUBSET Samples, NEW given_up \in SUBSET Samples,
             recover_stale(t, again, given_up)
      PROVE  IInv'
  <2> DEFINE R == {RunOf[s] : s \in given_up}
             w == [s \in Samples |-> IF s \in again THEN "waiting"
                                     ELSE IF s \in given_up THEN "skipped" ELSE Same]
  <2>0. pc[t] = "idle"
    BY <1>4 DEF recover_stale
  <2>1. PICK q \in Orders(R) : Begin(t, "recover", w, q)
    BY <1>4 DEF recover_stale
  <2>2. q \in Seq(Runs) /\ \A r \in R : \E i \in 1 .. Len(q) : q[i] = r
    <3>1. R \in SUBSET Runs
      BY <1>r
    <3> HIDE DEF R
    <3> QED
      BY <3>1, OrderIsList
  <2>3. w \in [Samples -> Statuses \cup {Same}]
    BY <1>t
  <2>4. \A x \in Samples : w[x] # Same => status[x] \notin Terminal
    BY <1>4, <1>t DEF recover_stale
  <2>5. ASSUME NEW x \in Samples, w[x] \in Terminal PROVE \E i \in 1 .. Len(q) : q[i] = RunOf[x]
    <3>1. x \in given_up
      BY <2>5, <1>t
    <3> QED
      BY <3>1, <2>2
  <2> HIDE DEF w, R
  <2> QED
    BY <2>0, <2>1, <2>2, <2>3, <2>4, <2>5, BeginInv
<1>5. ASSUME reconcile_terminal_runs(t) PROVE IInv'
  <2> DEFINE open == {r \in Runs : run_status[r] \notin RunTerminal}
  <2>0. pc[t] = "idle"
    BY <1>5 DEF reconcile_terminal_runs
  <2>1. PICK q \in Orders(open) : Begin(t, "reconcile", NoWrites, q)
    BY <1>5 DEF reconcile_terminal_runs
  <2>2. q \in Seq(Runs)
    BY OrderIsList
  <2>3. NoWrites \in [Samples -> Statuses \cup {Same}] /\ \A x \in Samples : NoWrites[x] = Same
    BY DEF NoWrites
  <2> HIDE DEF open
  <2> QED
    BY <2>0, <2>1, <2>2, <2>3, <1>t, BeginInv
<1> QED
  BY <1>1, <1>2, <1>3, <1>4, <1>5

\* Every step preserves the invariant.
LEMMA StepInv == IInv /\ [Next]_vars => IInv'
<1> SUFFICES ASSUME IInv, [Next]_vars PROVE IInv'
  OBVIOUS
<1>1. CASE Next
  <2>1. PICK t \in Tasks :
          \/ \E s \in Samples : \/ \E method \in {"claim", "finish", "retry"} : ask(t, method, s)
                              \/ refuse(t, s)
          \/ \/ \E s \in Samples : claim(t, s) \/ finish(t, s) \/ retry(t, s)
             \/ \E again, given_up \in SUBSET Samples : recover_stale(t, again, given_up)
             \/ reconcile_terminal_runs(t)
          \/ Visit(t)
    BY <1>1 DEF Next
  <2>2. abort(t) \/ (\E s \in Samples : refuse(t, s)) => IInv'
    BY NoWriteInv DEF abort, refuse
  <2> QED
    BY <2>1, <2>2, AskInv, MethodInv, LockRunInv, VisitRunInv, CommitInv DEF Visit
<1>2. CASE UNCHANGED vars
  <2> USE <1>2 DEF vars, taskVars
  <2>1. TypeOK' /\ Stages' /\ Writers'
    BY DEF IInv, TypeOK, Stages, Writers
  <2>2. \A u \in Tasks : /\ ToVisit(u)' = ToVisit(u)
                         /\ \A r \in Runs : Verdict(u, r)' = Verdict(u, r)
    BY DEF ToVisit, Verdict, View
  <2>3. Visits'
    BY <2>2, RunOfAssumption DEF IInv, Visits
  <2>4. Verdicts'
    BY <2>2 DEF IInv, Verdicts, Members
  <2>5. Claims'
    <3> SUFFICES ASSUME NEW u \in Tasks, kind[u] = "claim", NEW r \in ToVisit(u)'
                 PROVE  \E s \in Members(r) : writes[u][s] = "active"
      BY DEF Claims, Members
    <3> QED
      BY <2>2 DEF IInv, Claims
  <2>6. RunFollowsSamples'
    BY DEF IInv, RunFollowsSamples, Members
  <2> QED
    BY <2>1, <2>3, <2>4, <2>5, <2>6 DEF IInv
<1> QED
  BY <1>1, <1>2

-----------------------------------------------------------------------------

\* Type correctness, for any runs, samples and transactions.
THEOREM TypeCorrect == Spec => []TypeOK
<1>1. IInv => TypeOK
  BY DEF IInv
<1> QED
  BY InitInv, StepInv, <1>1, PTL DEF Spec

\* However claims, completions, retries, recoveries and reconciliations of any
\* number of workers interleave, a committed run is over exactly when all of its
\* samples are, and partial exactly when one of them was given up: counting under
\* the lock of the run row, as _finish_run_if_terminal does, is enough.
THEOREM RunsFollowSamples == Spec => []RunFollowsSamples
<1>1. IInv => RunFollowsSamples
  BY DEF IInv
<1> QED
  BY InitInv, StepInv, <1>1, PTL DEF Spec

\* A commit changes an open run only, and closes one only with its last sample.
LEMMA CommitCloses ==
  ASSUME IInv, IInv', NEW t \in Tasks, commit(t), NEW r \in Runs, run_status'[r] # run_status[r]
  PROVE  /\ run_status[r] \notin RunTerminal
         /\ run_status'[r] \in RunTerminal =>
              \E s \in Members(r) : status[s] \notin Terminal /\ status'[s] \in Terminal
<1>1. \A s \in Members(r) : status[s] \in Terminal => status'[s] = status[s]
  BY CommitFacts DEF Members
<1>2. /\ run_status[r] \in RunTerminal <=> \A s \in Members(r) : status[s] \in Terminal
      /\ run_status[r] = "partial" <=> /\ run_status[r] \in RunTerminal
                                       /\ \E s \in Members(r) : status[s] = "skipped"
  BY DEF IInv, RunFollowsSamples
<1>3. /\ run_status'[r] \in RunTerminal <=> \A s \in Members(r) : status'[s] \in Terminal
      /\ run_status'[r] = "partial" <=> /\ run_status'[r] \in RunTerminal
                                        /\ \E s \in Members(r) : status'[s] = "skipped"
  BY DEF IInv, RunFollowsSamples, Members
<1>4. run_status[r] \notin RunTerminal
  <2> SUFFICES ASSUME run_status[r] \in RunTerminal PROVE FALSE
    OBVIOUS
  <2>1. \A s \in Members(r) : status'[s] = status[s] /\ status[s] \in Terminal
    BY <1>1, <1>2
  <2>2. run_status'[r] \in RunTerminal /\ (run_status'[r] = "partial" <=> run_status[r] = "partial")
    BY <2>1, <1>2, <1>3
  <2> QED
    BY <2>2 DEF RunTerminal
<1> QED
  BY <1>2, <1>3, <1>4

\* A run is closed by the transaction that ends its last sample and never changes
\* afterwards, so that reconcile_terminal_runs has nothing to repair.
THEOREM RunsClosedByLastSample == Spec => ClosedByLastSample
<1>1. ASSUME IInv, IInv', [Next]_vars
      PROVE  [\A r \in Runs : run_status'[r] # run_status[r] =>
               /\ run_status[r] \notin RunTerminal
               /\ run_status'[r] \in RunTerminal =>
                    \E s \in Members(r) : status[s] \notin Terminal /\ status'[s] \in Terminal]_vars
  <2>1. CASE \E t \in Tasks : commit(t)
    BY <1>1, <2>1, CommitCloses
  <2>2. CASE UNCHANGED vars
    BY <2>2
  <2>3. CASE Next /\ ~ \E t \in Tasks : commit(t)
    <3>1. PICK t \in Tasks :
            \/ \E s \in Samples : \/ \E method \in {"claim", "finish", "retry"} : ask(t, method, s)
                                \/ refuse(t, s)
            \/ \/ \E s \in Samples : claim(t, s) \/ finish(t, s) \/ retry(t, s)
               \/ \E again, given_up \in SUBSET Samples : recover_stale(t, again, given_up)
               \/ reconcile_terminal_runs(t)
            \/ lock_run(t) \/ visit_run(t) \/ abort(t)
      BY <2>3 DEF Next, Visit
    <3>2. \A method, w, q : Begin(t, method, w, q) => run_status' = run_status
      BY DEF Begin
    <3>3. ASSUME NEW again \in SUBSET Samples, NEW given_up \in SUBSET Samples,
                 recover_stale(t, again, given_up)
          PROVE  run_status' = run_status
      BY <3>2, <3>3 DEF recover_stale
    <3>4. reconcile_terminal_runs(t) => run_status' = run_status
      BY <3>2 DEF reconcile_terminal_runs
    <3>5. \A s \in Samples : claim(t, s) \/ finish(t, s) \/ retry(t, s) => run_status' = run_status
      BY <3>2 DEF claim, finish, retry
    <3>6. lock_run(t) \/ visit_run(t) \/ abort(t) => run_status' = run_status
      BY DEF lock_run, visit_run, abort
    <3>7. \A s \in Samples : (\E method \in {"claim", "finish", "retry"} : ask(t, method, s))
                              \/ refuse(t, s) => run_status' = run_status
      BY DEF ask, refuse
    <3> QED
      BY <3>1, <3>3, <3>4, <3>5, <3>6, <3>7
  <2> QED
    BY <1>1, <2>1, <2>2, <2>3
<1> QED
  BY InitInv, StepInv, <1>1, PTL DEF Spec, ClosedByLastSample

-----------------------------------------------------------------------------

\* The order of the locks: who waits for a sample holds nothing, and who waits for a
\* run with one sample to write holds no other run.
LockOrder ==
  \A t \in Tasks :
    /\ pc[t] \in {"idle", "wait"} =>
         /\ \A s \in Samples : sample_lock[s] # t
         /\ \A r \in Runs : run_lock[r] # t
    /\ pc[t] # "idle" => kind[t] # "none"
    /\ kind[t] \in {"claim", "finish", "retry"} =>
         /\ Len(queue[t]) <= 1
         /\ pc[t] = "lock" => \A r \in Runs : run_lock[r] # t

\* A transaction that begins keeps the order, if it visits several runs only as a
\* maintenance loop.
LEMMA BeginOrder ==
  ASSUME IInv, LockOrder, NEW t \in Tasks,
         NEW method \in {"claim", "finish", "retry", "recover", "reconcile"}, NEW w,
         NEW q \in Seq(Runs),
         method \in {"claim", "finish", "retry"} => Len(q) <= 1,
         pc[t] \in {"idle", "wait"}, Begin(t, method, w, q)
  PROVE  LockOrder'
<1> SUFFICES ASSUME NEW u \in Tasks
             PROVE  /\ pc'[u] \in {"idle", "wait"} =>
                         /\ \A s \in Samples : sample_lock'[s] # u
                         /\ \A r \in Runs : run_lock[r] # u
                    /\ pc'[u] # "idle" => kind'[u] # "none"
                    /\ kind'[u] \in {"claim", "finish", "retry"} =>
                         /\ Len(queue'[u]) <= 1
                         /\ pc'[u] = "lock" => \A r \in Runs : run_lock[r] # u
  BY DEF LockOrder, Begin
<1>1. CASE u = t
  BY <1>1 DEF IInv, TypeOK, LockOrder, Begin
<1>2. CASE u # t
  <2>1. pc'[u] = pc[u] /\ kind'[u] = kind[u] /\ queue'[u] = queue[u]
    BY <1>2 DEF IInv, TypeOK, Begin
  <2>2. \A s \in Samples : sample_lock'[s] = u => sample_lock[s] = u
    BY <1>2 DEF Begin
  <2> QED
    BY <2>1, <2>2 DEF LockOrder
<1> QED
  BY <1>1, <1>2

\* The methods begin as BeginOrder asks.
LEMMA MethodOrder ==
  ASSUME IInv, LockOrder, NEW t \in Tasks,
         \/ \E s \in Samples : claim(t, s) \/ finish(t, s) \/ retry(t, s)
         \/ \E again, given_up \in SUBSET Samples : recover_stale(t, again, given_up)
         \/ reconcile_terminal_runs(t)
  PROVE  LockOrder'
<1>1. \A s \in Samples : RunOf[s] \in Runs
  BY RunOfAssumption
<1>2. ASSUME NEW s \in Samples, claim(t, s) \/ finish(t, s) \/ retry(t, s) PROVE LockOrder'
  <2>1. PICK method \in {"claim", "finish", "retry"}, q \in {<<>>, <<RunOf[s]>>} :
          pc[t] = "wait" /\ \E w : Begin(t, method, w, q)
    <3>1. CASE claim(t, s)
      BY <3>1 DEF claim, Asked
    <3>2. CASE finish(t, s)
      BY <3>2 DEF finish, Asked
    <3>3. CASE retry(t, s)
      BY <3>3 DEF retry, Asked
    <3> QED
      BY <1>2, <3>1, <3>2, <3>3
  <2>2. q \in Seq(Runs) /\ Len(q) <= 1
    <3>1. CASE q = <<>>
      BY <3>1
    <3>2. CASE q = <<RunOf[s]>>
      BY <1>1, <3>2
    <3> QED
      BY <2>1, <3>1, <3>2
  <2> QED
    BY <2>1, <2>2, BeginOrder
<1>3. ASSUME NEW again \in SUBSET Samples, NEW given_up \in SUBSET Samples,
             recover_stale(t, again, given_up)
      PROVE  LockOrder'
  <2> DEFINE R == {RunOf[s] : s \in given_up}
  <2>1. PICK q \in Orders(R) : pc[t] = "idle" /\ \E w : Begin(t, "recover", w, q)
    BY <1>3 DEF recover_stale
  <2>2. R \in SUBSET Runs
    BY <1>1
  <2> HIDE DEF R
  <2>3. q \in Seq(Runs)
    BY <2>2, OrderIsList
  <2> QED
    BY <2>1, <2>3, BeginOrder
<1>4. ASSUME reconcile_terminal_runs(t) PROVE LockOrder'
  <2> DEFINE open == {r \in Runs : run_status[r] \notin RunTerminal}
  <2>1. PICK q \in Orders(open) : pc[t] = "idle" /\ Begin(t, "reconcile", NoWrites, q)
    BY <1>4 DEF reconcile_terminal_runs
  <2>2. q \in Seq(Runs)
    BY OrderIsList
  <2> QED
    BY <2>1, <2>2, BeginOrder
<1> QED
  BY <1>2, <1>3, <1>4

\* Every step keeps the order of the locks.
LEMMA StepOrder == IInv /\ LockOrder /\ [Next]_vars => LockOrder'
<1> SUFFICES ASSUME IInv, LockOrder, [Next]_vars PROVE LockOrder'
  OBVIOUS
<1>1. ASSUME NEW t \in Tasks, NEW method \in {"claim", "finish", "retry"}, NEW s \in Samples,
             ask(t, method, s)
      PROVE  LockOrder'
  <2>1. queue[t] = <<>> /\ Len(queue[t]) = 0
    BY <1>1 DEF IInv, Stages, ask
  <2> QED
    BY <1>1, <2>1 DEF IInv, TypeOK, LockOrder, ask
<1>2. ASSUME NEW t \in Tasks, lock_run(t) PROVE LockOrder'
  BY <1>2 DEF IInv, TypeOK, LockOrder, lock_run
<1>3. ASSUME NEW t \in Tasks, visit_run(t) PROVE LockOrder'
  <2>1. queue[t] \in Seq(Runs) /\ queue[t] # <<>>
    BY <1>3 DEF IInv, TypeOK, Stages, visit_run
  <2>2. Len(Tail(queue[t])) = Len(queue[t]) - 1 /\ Len(queue[t]) \in Nat /\ Len(queue[t]) # 0
    BY <2>1
  <2> SUFFICES ASSUME NEW u \in Tasks
               PROVE  /\ pc'[u] \in {"idle", "wait"} =>
                           /\ \A s \in Samples : sample_lock[s] # u
                           /\ \A r \in Runs : run_lock[r] # u
                      /\ pc'[u] # "idle" => kind[u] # "none"
                      /\ kind[u] \in {"claim", "finish", "retry"} =>
                           /\ Len(queue'[u]) <= 1
                           /\ pc'[u] = "lock" => \A r \in Runs : run_lock[r] # u
    BY <1>3 DEF LockOrder, visit_run
  <2>3. CASE u = t
    <3>1. pc[t] = "count" /\ queue'[t] = Tail(queue[t])
          /\ pc'[t] = IF Len(queue[t]) = 1 THEN "commit" ELSE "lock"
      BY <1>3 DEF IInv, TypeOK, visit_run
    <3>2. kind[t] # "none"
      BY <3>1 DEF LockOrder
    <3>3. kind[t] \in {"claim", "finish", "retry"} =>
            Len(queue'[t]) <= 1 /\ pc'[t] = "commit"
      <4> SUFFICES ASSUME kind[t] \in {"claim", "finish", "retry"}
                   PROVE  Len(queue'[t]) <= 1 /\ pc'[t] = "commit"
        OBVIOUS
      <4>1. Len(queue[t]) <= 1
        BY DEF LockOrder
      <4>2. PICK n : n = Len(queue[t])
        OBVIOUS
      <4>3. n \in Nat /\ n # 0 /\ n <= 1 /\ Len(Tail(queue[t])) = n - 1
        BY <2>2, <4>1, <4>2
      <4>4. n = 1 /\ Len(Tail(queue[t])) <= 1
        BY <4>3
      <4> QED
        BY <3>1, <4>2, <4>4
    <3>4. pc'[t] \in {"commit", "lock"}
      BY <3>1
    <3> QED
      BY <2>3, <3>2, <3>3, <3>4
  <2>4. CASE u # t
    BY <1>3, <2>4 DEF IInv, TypeOK, LockOrder, visit_run
  <2> QED
    BY <2>3, <2>4
<1>4. ASSUME NEW t \in Tasks, End(t) PROVE LockOrder'
  <2> SUFFICES ASSUME NEW u \in Tasks
               PROVE  /\ pc'[u] \in {"idle", "wait"} =>
                           /\ \A s \in Samples : sample_lock'[s] # u
                           /\ \A r \in Runs : run_lock'[r] # u
                      /\ pc'[u] # "idle" => kind'[u] # "none"
                      /\ kind'[u] \in {"claim", "finish", "retry"} =>
                           /\ Len(queue'[u]) <= 1
                           /\ pc'[u] = "lock" => \A r \in Runs : run_lock'[r] # u
    BY DEF LockOrder
  <2>1. /\ \A s \in Samples : sample_lock'[s] = u => sample_lock[s] = u /\ u # t
        /\ \A r \in Runs : run_lock'[r] = u => run_lock[r] = u /\ u # t
    BY <1>4, TasksAssumption DEF End
  <2>2. CASE u = t
    BY <1>4, <2>1, <2>2, EndFacts
  <2>3. CASE u # t
    <3>1. pc'[u] = pc[u] /\ kind'[u] = kind[u] /\ queue'[u] = queue[u]
      BY <1>4, <2>3, EndFacts
    <3> QED
      BY <2>1, <3>1 DEF LockOrder
  <2> QED
    BY <2>2, <2>3
<1>5. \A t \in Tasks : commit(t) \/ abort(t) \/ (\E s \in Samples : refuse(t, s)) => LockOrder'
  BY <1>4 DEF commit, abort, refuse
<1>6. CASE Next
  BY <1>1, <1>2, <1>3, <1>5, <1>6, MethodOrder DEF Next, Visit
<1>7. CASE UNCHANGED vars
  BY <1>7 DEF LockOrder, vars, taskVars
<1> QED
  BY <1>6, <1>7

\* The transaction of a worker is never one of those that wait for each other in a
\* circle, with any number of workers and loops: somebody in the circle would have to
\* wait for its run, and it holds none while it waits, or for its sample, and who
\* waits for a sample holds nothing himself.
THEOREM WorkersNeverDeadlock == Spec => []DeadlocksSpareWorkers
<1>1. Init => LockOrder
  BY TasksAssumption DEF Init, LockOrder
<1>2. IInv /\ LockOrder => DeadlocksSpareWorkers
  <2> SUFFICES ASSUME IInv, LockOrder, NEW t \in Tasks, Deadlocked(t),
                      kind[t] \notin {"recover", "reconcile"}
               PROVE  FALSE
    BY DEF DeadlocksSpareWorkers
  <2>1. PICK circle \in SUBSET Tasks :
          /\ t \in circle
          /\ \A u \in circle : \E v \in circle : WaitsFor(u, v)
          /\ \A v \in circle : \E u \in circle : WaitsFor(u, v)
    BY DEF Deadlocked
  <2>2. \A u \in circle : pc[u] \in {"wait", "lock"}
    BY <2>1 DEF WaitsFor
  <2>3. ASSUME NEW u \in circle, NEW v \in circle, WaitsFor(u, v) PROVE pc[v] = "lock"
    <3>1. CASE pc[u] = "wait"
      <4>1. PICK s \in Samples : sample_lock[s] = v
        BY <2>3, <3>1 DEF WaitsFor, IInv, TypeOK
      <4> QED
        BY <2>2, <4>1 DEF LockOrder
    <3>2. CASE pc[u] = "lock"
      <4>1. queue[u] \in Seq(Runs) /\ queue[u] # <<>>
        BY <3>2 DEF IInv, TypeOK, Stages
      <4>2. Head(queue[u]) \in Runs /\ run_lock[Head(queue[u])] = v
        BY <2>3, <3>2, <4>1 DEF WaitsFor
      <4> QED
        BY <2>2, <4>2 DEF LockOrder
    <3> QED
      BY <2>2, <3>1, <3>2
  <2>4. \A v \in circle : pc[v] = "lock"
    BY <2>1, <2>3
  <2>5. kind[t] \in {"claim", "finish", "retry"}
    BY <2>1, <2>4 DEF IInv, TypeOK, LockOrder
  <2>6. PICK u \in circle : WaitsFor(u, t)
    BY <2>1
  <2>7. queue[u] \in Seq(Runs) /\ queue[u] # <<>>
    BY <2>4 DEF IInv, TypeOK, Stages
  <2>8. Head(queue[u]) \in Runs /\ run_lock[Head(queue[u])] = t
    BY <2>4, <2>6, <2>7 DEF WaitsFor
  <2> QED
    BY <2>1, <2>4, <2>5, <2>8 DEF LockOrder
<1> QED
  BY InitInv, StepInv, StepOrder, <1>1, <1>2, PTL DEF Spec

=============================================================================
