------------------------- MODULE MCChromeInvocation -------------------------
EXTENDS ChromeInvocation, TLC
CONSTANTS p1, p2, p3, i1, i2
Sym == Permutations(Panel) \cup Permutations(Invocation)
=============================================================================
