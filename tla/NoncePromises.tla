---------------------------- MODULE NoncePromises ----------------------------
(***************************************************************************)
(* What the nonces promise whoever decides by them (decision-nonce.js),    *)
(* said of the files, of the calls in progress and of the answers alone.   *)
(* DecisionNonces has the operations that keep it.                         *)
(***************************************************************************)
EXTENDS Naturals, Sequences

CONSTANTS Nonce       \* nonces the random source may return

VARIABLES
  used,       \* <hash>.used.json: absent, created but not written, or whole
  at, call,   \* per session: where consume stands, what it was given
  alive,      \* sessions whose process runs
  granted     \* history: per nonce, the consumptions answered

\* A nonce is answered at most once, whatever the sessions, the failed writes
\* and the clock do (consume; "synchronous O_EXCL consumption").
ConsumedOnce == \A n \in Nonce : Len(granted[n]) <= 1

\* Once its used file exists a nonce stays spent, also when the consumption
\* failed or its process died, and a torn file is never repaired by another.
SpentForGood ==
  [][\A n \in Nonce :
       /\ used[n] # "absent" => used'[n] # "absent"
       /\ used[n] = "whole" => used'[n] = "whole"
       /\ (used[n] = "torn" /\ used'[n] = "whole") =>
            \E s \in alive : at[s] = "write" /\ call[s].nonce = n]_used
=============================================================================
