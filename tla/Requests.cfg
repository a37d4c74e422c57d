CONSTANTS
  a = a
  b = b
  c = c
  Jobs = {a, b, c}
  MaxReorder = 3
  r1 = r1
  r2 = r2
  Requests = {r1, r2}
  Touched = {c}
SPECIFICATION TxFairSpec
INVARIANTS TxTypeOK DistinctUnlessLate
PROPERTIES CommitCoversSnapshot RequestsEnd
