SPECIFICATION Spec
CONSTANTS
  Child = {1}
  Cap = 1
  MaxShocks = 0
INVARIANT MergeTakesTheEdits
CHECK_DEADLOCK FALSE
