----------------------------- MODULE MCSharing -----------------------------
(* Instances of Sharing for TLC: one owner, two others.                     *)
EXTENDS Sharing, TLC
CONSTANTS o, m1, m2, r1, r2
MCOwner == [r \in {r1, r2} |-> IF r = r1 THEN o ELSE m1]
Symmetry == Permutations(Clients)
=============================================================================
