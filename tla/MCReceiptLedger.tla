---------------------------- MODULE MCReceiptLedger ----------------------------
EXTENDS ReceiptLedger, TLC
CONSTANTS p1, p2
Sym == Permutations(Process)
=============================================================================
