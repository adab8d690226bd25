--------------------------- MODULE MCBootstrapHost ---------------------------
(* Three children: the first, the candidate and the previous one again.      *)
EXTENDS BootstrapHost
=============================================================================
