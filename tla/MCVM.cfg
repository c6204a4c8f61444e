\* Frames, swap slots and page tables under eviction, failing allocations and exit.
SPECIFICATION Spec
CONSTANTS
  p0 = p0
  p1 = p1
  p2 = p2
  data = data
  stack = stack
  mmapped = mmapped
  grow = grow
  k0 = k0
  k1 = k1
  k2 = k2
  v0 = v0
  v1 = v1
  Nil = Nil
SYMMETRY Symmetry
INVARIANTS
  MemoryAccounted
  FailsForCause
  PinnedWhileCopying
PROPERTIES
  ImplementsAddressSpace
