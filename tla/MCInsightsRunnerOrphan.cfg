SPECIFICATION Spec
CONSTANTS
  q1 = q1
  Run = {q1}
  N = 1
SYMMETRY Symmetry
INVARIANT NoOrphanQuery
