------------------------ MODULE MCBenchmarkSamples ------------------------
(***************************************************************************)
(* Instances of BenchmarkSamples for TLC: workers that run at the same     *)
(* time, whose ids are interchangeable, and a single worker that is        *)
(* started again, with another id, whenever it dies.                       *)
(***************************************************************************)
EXTENDS BenchmarkSamples, TLC

CONSTANTS w1, w2, w3

AtOnce == [w \in Workers |-> {}]
InTurn == (w1 :> {}) @@ (w2 :> {w1}) @@ (w3 :> {w1, w2})

Symmetry == Permutations(Workers) \cup Permutations(Samples)
=============================================================================
