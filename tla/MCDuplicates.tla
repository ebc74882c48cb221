---------------------------- MODULE MCDuplicates ----------------------------
(* Duplicates on small instances: see the comment of the .cfg file.        *)
EXTENDS Duplicates, TLC

TextSymmetry == Permutations(Texts)
=============================================================================
