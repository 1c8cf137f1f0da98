CONSTANTS
  Frames <- MCFrames
  Root = 1
  TableEntries = 2
  ReadOnlyFrames <- MCReadOnlyFrames
  FreeFrames <- MCFreeFrames
  FirmwareMemory <- MCFirmwareMemory
  NoMapping = NoMapping
  NoRequest = NoRequest
  PageBytes = 2
  HeaderSize = 2
  EntrySize = 1
  Images <- MCUnalignedImages
  Builds = {"debug", "release"}
SPECIFICATION Spec
INVARIANT LoadWritesOwnedPages
\* The loader ends in the kernel or in its panic handler.
CHECK_DEADLOCK FALSE
