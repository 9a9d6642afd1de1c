SPECIFICATION Spec
CONSTANTS
  Key <- MCKey
  v1 = v1
  v2 = v2
  Value = {v1, v2}
  MaxOps = 4
INVARIANT NeverInconsistent
SYMMETRY MCSymmetry
CHECK_DEADLOCK FALSE
