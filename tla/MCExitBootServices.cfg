\* Descriptors of 2 bytes, a map of 2 that may grow to 6, an allocation that
\* splits up to 2 more descriptors off, and 2 firmware events.
CONSTANTS
  DescSize = 2
  InitDesc = 2
  MaxDesc = 6
  Growth = 2
  MaxChanges = 2
  MaxBuffers = 2
SPECIFICATION Spec
INVARIANTS ReturnedMapCurrent NoBufferLeak
PROPERTY ExitsEventually
\* exit_boot_services returns, or the loader panics: both end the run.
CHECK_DEADLOCK FALSE
