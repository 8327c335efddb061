------------------------ MODULE MCRunFinalization ------------------------
(***************************************************************************)
(* Two runs of two samples each for TLC.                                   *)
(***************************************************************************)
EXTENDS RunFinalization, TLC

CONSTANTS a1, a2, b1, b2

MCSamples == {a1, a2, b1, b2}
MCRunOf == (a1 :> 1) @@ (a2 :> 1) @@ (b1 :> 2) @@ (b2 :> 2)

Symmetry == Permutations(Tasks) \cup Permutations({a1, a2}) \cup Permutations({b1, b2})
=============================================================================
