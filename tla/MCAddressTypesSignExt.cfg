\* The word of MCAddressTypes.cfg; only the spec's sign-extension example.
CONSTANTS
  Width = 10
  VirtBits = 6
  PhysBits = 7
  PageShift = 2
  IndexBits = 1
  Aligns = {0, 1, 3, 4, 16}
SPECIFICATION Spec
INVARIANT VirtualNewSignExtends
CHECK_DEADLOCK FALSE
