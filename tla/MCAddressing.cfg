\* One behaviour is one call of an address function, or a sequence of
\* entry operations that ends when set_page's assert fails.
SPECIFICATION Spec
INVARIANTS TypeOK AlignLaw ConstructorsSound IndicesDetermineAddress DecodesToView
CHECK_DEADLOCK FALSE
