--------------------------- MODULE MCReplayEngine ---------------------------
(* Small instances of ReplayEngine for TLC.                                *)
EXTENDS ReplayEngine, TLC

\* Order references are only compared for equality.
RefSymmetry == Permutations(Ids)

\* References 1 and 3 have one hash h, reference 2 has h + 1, and they are added
\* in this order: 1 at h, 2 at h + 1, and 3 displaced to h + 2.  A key is lost
\* exactly when 1 is erased while they stand like this.
Colliding ==
  /\ \A ref \in announced' \ announced : announced = 1 .. ref - 1
  /\ stranded' # stranded => Live = {1, 2, 3} /\ Live' = {2, 3} /\ stranded' = {3}

\* A replay with these references: it is one of ReplaySpec.
CollidingSpec == ReplayInit /\ [][ReplayNext /\ Colliding]_allVars

=============================================================================
