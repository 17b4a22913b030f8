\* A key longer than the initial capacity.
SPECIFICATION Spec
CONSTANTS
  Names = {"a"}
  Lengths = {4, 9}
  N = 3
  InitialCap = 8
INVARIANTS
  HeapHoldsKey
