---------------------------- MODULE MCEvaluation ----------------------------
(* Evaluation on three instances: one whose analyzers write more than the    *)
(* capture keeps, one with several tests and many findings, and one with     *)
(* texts that hold U+0000.                                                   *)
EXTENDS Evaluation

MCSlowTools ==
  {[backends |-> {"docker", "local"}, tests |-> 1, counts |-> {}, complexities |-> {5}, limit |-> 2,
    output |-> 3, nuls |-> {"none"}]}

MCInstances ==
  MCSlowTools \cup
  {[backends |-> {"docker"}, tests |-> 3, counts |-> {5}, complexities |-> {6}, limit |-> 1,
    output |-> 0, nuls |-> {"none"}],
   [backends |-> {"docker"}, tests |-> 1, counts |-> {1}, complexities |-> {5}, limit |-> 1,
    output |-> 0, nuls |-> {"source", "quoted"}]}
=============================================================================
