---------------------------- MODULE MCApprovals ----------------------------
(* Instances of Approvals for TLC.                                         *)
EXTENDS Approvals, TLC

CONSTANTS new      \* the address every submission asks an account for

\* Every submission asks for an account under the same new address.
SameEmail == [r \in Requests |-> new]

\* Founders no edit touches are interchangeable.
FounderSymmetry == Permutations(Founders \ Editable)
=============================================================================
