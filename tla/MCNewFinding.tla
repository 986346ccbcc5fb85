---------------------------- MODULE MCNewFinding ----------------------------
(* Instances of NewFinding for TLC.                                        *)
EXTENDS NewFinding, TLC

\* No action tells apart two images or two keys.
Symmetry == Permutations(Images) \cup Permutations(Findings)
=============================================================================
