----------------------------- MODULE ReceiptChain -----------------------------
(***************************************************************************)
(* What the receipt ledger promises to its readers: a list that grows by   *)
(* one receipt at a time and is never cut, reordered or forked, until      *)
(* custody breaks; then it is closed for good.                             *)
(***************************************************************************)
EXTENDS Naturals, Sequences

VARIABLES chain, open

Init == chain = <<>> /\ open = TRUE

\* One new receipt, behind all that were there
Extend ==
  /\ open /\ open'
  /\ Len(chain') = Len(chain) + 1
  /\ \A k \in DOMAIN chain : chain'[k] = chain[k] /\ chain[k] # chain'[Len(chain')]

Break  == open /\ ~open' /\ UNCHANGED chain

Next == Extend \/ Break
Spec == Init /\ [][Next]_<<chain, open>>
=============================================================================
