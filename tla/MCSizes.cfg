SPECIFICATION SizesSpec
CONSTANT Lengths <- MCLengths
INVARIANTS Contiguous LostOnlyAtTheEnd LostIffShort
CHECK_DEADLOCK FALSE
