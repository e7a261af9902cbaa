------------------------------ MODULE MCEscrow ------------------------------
(***************************************************************************)
(* Instances of Escrow for TLC.                                            *)
(***************************************************************************)
EXTENDS OrderProgress, TLC

\* Every milestone belongs to the same order.
OneOrder == [k \in Milestones |-> CHOOSE o \in Orders : TRUE]

Symmetry == Permutations(Ids) \cup Permutations(Milestones) \cup Permutations(Nonces)
=============================================================================
