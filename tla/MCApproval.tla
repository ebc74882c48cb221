----------------------------- MODULE MCApproval -----------------------------
(* Approval on small instances: see the comments of the .cfg files.        *)
EXTENDS Approval, TLC

Symmetric == Permutations(Users)
=============================================================================
