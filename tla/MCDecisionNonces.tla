-------------------------- MODULE MCDecisionNonces --------------------------
(* Two processes over one directory, two nonces and two bindings (one      *)
(* review's accept and reject).                                            *)
EXTENDS DecisionNonces, TLC
CONSTANTS s1, s2, n1, n2, accept, reject
MCSymmetry == Permutations(Session) \cup Permutations(Nonce)
=============================================================================
