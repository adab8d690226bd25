--------------------------- MODULE MCInstallation ---------------------------
(* Two processes of the command, two commits of the source.                *)
EXTENDS Installation, TLC
CONSTANTS p1, p2
MCSymmetry == Permutations(Installer)
=============================================================================
