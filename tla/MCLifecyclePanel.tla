-------------------------- MODULE MCLifecyclePanel --------------------------
(* Three generations of connections: one review to its end, and a stale one. *)
EXTENDS LifecyclePanel
=============================================================================
