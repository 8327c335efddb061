------------------------- MODULE MCEvaluationJobs -------------------------
(***************************************************************************)
(* Instances of EvaluationJobs for TLC.                                    *)
(***************************************************************************)
EXTENDS EvaluationJobs, TLC

Symmetry == Permutations(Jobs) \cup Permutations(Workers) \cup Permutations(Publishers)
=============================================================================
