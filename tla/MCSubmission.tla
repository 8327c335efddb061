---- MODULE MCSubmission ----
EXTENDS History, TLC
CONSTANTS c1, c2, c3, c4
\* Two callers race for one evaluation with one key, a third brings another
\* request under that key, and a fourth plans a benchmark without a key.
MCRequest == (c1 :> [kind |-> "evaluation", key |-> "k", body |-> "a"])
          @@ (c2 :> [kind |-> "evaluation", key |-> "k", body |-> "a"])
          @@ (c3 :> [kind |-> "evaluation", key |-> "k", body |-> "b"])
          @@ (c4 :> [kind |-> "benchmark", key |-> "none", body |-> "a"])
====
