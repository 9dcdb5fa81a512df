------------------------ MODULE MCActivationHandoff ------------------------
(* ActivationHandoff for TLC: the candidates are interchangeable. *)
EXTENDS ActivationHandoff, TLC

CandidateSymmetry == Permutations(Candidate)
=============================================================================
