---------------------------- MODULE MCDurability ----------------------------
(* Durability for TLC: the aggregation names are interchangeable.          *)
EXTENDS Durability, TLC

NameSymmetry == Permutations(Names)
=============================================================================
