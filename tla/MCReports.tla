----------------------------- MODULE MCReports -----------------------------
(* Instances of Reports for TLC.                                           *)
EXTENDS Reports, TLC

\* No action tells apart two workers or two vendors.
WorkerAndVendorSymmetry == Permutations(Workers) \cup Permutations(Vendors)
=============================================================================
