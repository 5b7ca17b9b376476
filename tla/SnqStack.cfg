CONSTANTS
    z = z  x = x
    NULL = NULL
    Elem = {z, x}
    Zero = z
    Sizes <- TwoSizes
    Requests <- DefaultSmallOdd
    MaxCapacity = 6
SPECIFICATION StackSpec
INVARIANT StackLastPointerHolds
PROPERTY IsLifo
