---------------------------- MODULE MCTemplates -----------------------------
(* Instances of Templates for TLC.                                         *)
EXTENDS Templates, TLC

\* No action tells apart two templates, sections or workers.
Symmetry == Permutations(Templates) \cup Permutations(Sections) \cup Permutations(Workers)
=============================================================================
