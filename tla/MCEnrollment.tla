---------------------------- MODULE MCEnrollment ----------------------------
(* Instances of Enrollment for TLC.                                        *)
EXTENDS Enrollment, TLC

\* No action tells apart two workers, two browsers, or two credentials.
Symmetry ==
    Permutations(Workers) \cup Permutations(Browsers) \cup Permutations(Creds)
=============================================================================
