---------------------------- MODULE MCCodexReview ----------------------------
(* Two reviews, each of whose children writes any stream of up to MaxSaid   *)
(* lines.                                                                   *)
EXTENDS CodexReview
=============================================================================
