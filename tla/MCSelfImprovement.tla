----------------------- MODULE MCSelfImprovement -----------------------
(* SelfImprovement for TLC: one other surface that is reported on.        *)
EXTENDS SelfImprovement

WifOnly == {"wif"}
=============================================================================
