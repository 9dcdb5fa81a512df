-------------------------- MODULE MCReplicaCustody --------------------------
(* ReplicaCustody for TLC: the changes are interchangeable. *)
EXTENDS ReplicaCustody, TLC

ChangeSymmetry == Permutations(Change)
=============================================================================
