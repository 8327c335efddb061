---- MODULE MCBenchmarkReport ----
EXTENDS BenchmarkArchive
\* Nothing compares the indices of the samples of a task.
Symmetry == Permutations(Indices)
MCTasks == {1}
MCWeight == [t \in MCTasks |-> t]
\* Samples that reached the best score, and samples that were skipped.
MCArchivedRows ==
  {[status |-> "completed", artifact |-> TRUE, score |-> 100, correct |-> TRUE, code |-> "none"],
   [status |-> "skipped", artifact |-> FALSE, score |-> None, correct |-> FALSE, code |-> "worker_lease_expired"]}
====
