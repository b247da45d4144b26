----------------------------- MODULE MCBookArena -----------------------------
(* A small instance of BookArena for TLC.                                  *)
EXTENDS BookArena, TLC

\* Order ids are only compared for equality (slots are not: they are ordered).
IdSymmetry == Permutations(Ids)

=============================================================================
