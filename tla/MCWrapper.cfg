CONSTANT Garbage = Garbage
SPECIFICATION Spec
INVARIANTS TypeOK TextShown AllocationsFit FreesMatchAllocations
PROPERTY WriteReturns
\* write_str returns or _print panics, and the program stops allocating at
\* any point: each unit may stop.
CHECK_DEADLOCK FALSE
