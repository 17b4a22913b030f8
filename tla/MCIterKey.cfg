\* Keys that fit the initial capacity, inline and in the Vec, in any order.
SPECIFICATION Spec
CONSTANTS
  Names = {"a", "b", "c", "d"}
  Lengths = {1, 3, 4, 8}
  N = 3
  InitialCap = 8
INVARIANTS
  SliceIsLastKey
