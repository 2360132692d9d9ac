SPECIFICATION Spec
CONSTANTS
  o = o
  a = a
  b = b
  c1 = c1
  c2 = c2
  Admin = o
  Others = {a, b}
  Ciphertexts = {c1, c2}
  MaxEpoch = 2
  MaxLog = 2
  MaxFailures = 0
  MaxAudit = 8
SYMMETRY Symmetry
INVARIANT SeqUnique
