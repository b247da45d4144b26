----------------------------- MODULE MCOrderBook -----------------------------
(* Small instances of OrderBook for TLC.                                   *)
EXTENDS OrderBook, TLC

\* Order ids are only compared for equality, so they are interchangeable.
IdSymmetry == Permutations(Ids)

=============================================================================
