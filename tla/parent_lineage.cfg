SPECIFICATION Spec
CONSTANTS
  Children = {c1, c2, c3}
  MaxRefreshes = 3
SYMMETRY ChildSymmetry
INVARIANTS SafeChildrenKept
 
CHECK_DEADLOCK FALSE
