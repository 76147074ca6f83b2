--------------------------- MODULE MCRegistryFile ---------------------------
(* Instances of RegistryFile for TLC: a long registry and a short one.       *)
EXTENDS RegistryFile, TLC

MCSize == [v \in Values |-> IF v = "long" THEN 2 ELSE 1]

MCSymmetry == Permutations(Writers) \cup Permutations(Readers) \cup Permutations(Inodes)
=============================================================================
