SPECIFICATION SizesSpec
CONSTANT Lengths <- MCLengths
INVARIANTS FileFits
CHECK_DEADLOCK FALSE
