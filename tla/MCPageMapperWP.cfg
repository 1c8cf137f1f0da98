\* map_page clears CR0.WP, and spec section 5 asks that it be restored on
\* every exit path, abort paths included.
CONSTANTS
  Frames <- MCFrames
  Root = 1
  TableEntries <- MCTableEntries
  ReadOnlyFrames <- MCReadOnlyFrames
  FreeFrames <- MCFreeFrames
  VAddrs <- MCVAddrs
  DataFrames <- MCDataFrames
  FirmwareMemory <- MCFirmwareMemory
  NoMapping = NoMapping
  NoRequest = NoRequest

SPECIFICATION Spec



INVARIANT WriteProtectRestored
\* The loader halts in its panic handler after a fatal abort.
CHECK_DEADLOCK FALSE
