CONSTANTS
  Frames <- MCFrames
  Root = 1
  TableEntries <- MCTableEntries
  ReadOnlyFrames <- MCReadOnlyFrames
  FreeFrames <- MCFreeFrames
  VAddrs <- MCVAddrs
  DataFrames <- MCDataFrames
  FirmwareMemory <- MCFirmwareMemory
  NoMapping = NoMapping
  NoRequest = NoRequest

SPECIFICATION Spec

INVARIANT TypeOK
INVARIANT TablesFormTree
INVARIANT NoProtectionFault

PROPERTY AddressSpaceRefined

\* The loader halts in its panic handler after a fatal abort.
CHECK_DEADLOCK FALSE
