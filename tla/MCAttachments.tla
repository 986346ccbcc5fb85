--------------------------- MODULE MCAttachments ---------------------------
(* Instances of Attachments for TLC.                                       *)
EXTENDS Attachments, TLC

\* No action tells apart two workers, names, contents or keys.
Symmetry ==
    Permutations(Workers) \cup Permutations(Names) \cup Permutations(Contents)
        \cup Permutations(Ids)
=============================================================================
