CONSTANTS
  AutoBootSeconds = 2
  NumOptions = 2
  Keys <- MCKeys
  NoKey = NoKey
  Rows = 25

SPECIFICATION Spec

INVARIANT TypeOK
INVARIANT EventsClosedWhenMenuReturns

PROPERTY AutoBoot

\* menu_loop returns once (the kernel is booted or the machine shut down),
\* and a panic handler spins forever.
CHECK_DEADLOCK FALSE
