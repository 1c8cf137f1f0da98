\* The images and firmware of MCBootKernel.cfg: read_file fails as the
\* firmware may make it fail (no \boot\kernel, a device error).
CONSTANTS
  Frames <- MCFrames
  Root = 1
  TableEntries = 2
  ReadOnlyFrames <- MCReadOnlyFrames
  FreeFrames <- MCFreeFrames
  FirmwareMemory <- MCFirmwareMemory
  NoMapping = NoMapping
  NoRequest = NoRequest
  PageBytes = 2
  HeaderSize = 2
  EntrySize = 1
  Images <- MCImages
  Builds = {"debug"}
SPECIFICATION Spec
CHECK_DEADLOCK FALSE
INVARIANT ReadFailureDiagnosed
