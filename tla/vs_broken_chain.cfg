SPECIFICATION Spec
CONSTANTS
  p1 = p1
  p2 = p2
  base = base
  r1 = r1
  r2 = r2
  dA = dA
  dB = dB
  Proc = {p1}
  Review = {base, r1}
  Digest = {dA, dB}
  DigestOf <- MCDigestOf
  Baseline = base
  None = None
  MaxFaults = 1
PROPERTIES BrokenChainStillServes
