SPECIFICATION Spec
CONSTANTS
  s1 = s1
  s2 = s2
  n1 = n1
  n2 = n2
  accept = accept
  reject = reject
  Session = {s1, s2}
  Nonce = {n1, n2}
  Binding = {accept, reject}
  None = None
  Ttl = 1
  MaxTime = 2
SYMMETRY MCSymmetry
INVARIANTS ConsumedOnce
PROPERTIES SpentForGood
