--------------------------- MODULE MCVersionStore ---------------------------
(* Two panels over one runtime directory, a baseline and up to two         *)
(* reviews; the second carries the baseline's bundle again (a downgrade).  *)
EXTENDS VersionStore, TLC
CONSTANTS p1, p2, base, r1, r2, dA, dB
MCDigestOf == [r \in Review |-> IF r = r1 THEN dB ELSE dA]
MCSymmetry == Permutations(Proc)
=============================================================================
