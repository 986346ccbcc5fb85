----------------------------- MODULE MCFindings -----------------------------
(* Instances of Findings for TLC.                                          *)
EXTENDS Findings, TLC

\* No action or property tells apart two workers or two vendors.
WorkerAndVendorSymmetry == Permutations(Workers) \cup Permutations(Vendors)
=============================================================================
