\* An 8-bit status word: ERROR_BIT is bit 7, and every discriminant fits.
CONSTANT Width = 8
SPECIFICATION Spec
INVARIANT ConversionsNameStatus
\* A wrapper call ends once its status is converted.
CHECK_DEADLOCK FALSE
