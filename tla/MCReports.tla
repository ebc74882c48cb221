------------------------------ MODULE MCReports ------------------------------
(* Reports on small instances: see the comments of the .cfg files.         *)
EXTENDS Reports, TLC

CONSTANTS spammer, u1, u2

Authors == [m \in Msgs |-> spammer]

ReporterSymmetry == Permutations({u1, u2})
=============================================================================
