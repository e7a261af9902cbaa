------------------------------ MODULE MCTrust ------------------------------
(***************************************************************************)
(* Instances of Trust for TLC.                                             *)
(***************************************************************************)
EXTENDS Trust, TLC

Mix(k, v, c) == [keys |-> k, vouches |-> v, claims |-> c]

\* Vouches alone, keys alone, and how rotations, vouches and claims interleave.
Mixes == {Mix(0, 3, 0), Mix(3, 1, 0), Mix(2, 1, 3), Mix(1, 2, 0), Mix(0, 1, 6)}

Symmetry == Permutations(Founders) \cup Permutations(Keys \ Founders)
=============================================================================
