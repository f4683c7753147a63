\* Blocks with and without volume, four volumes of 3 fit in U64 = 16 while
\* sums of products (up to 9) wrap: ma1, ma2 and ma4 may take their else
\* branch, and ma_sum wraps.
CONSTANTS
    Windows <- MCWindows
    Volumes = {0, 1, 3}
    Blues = {0, 2, 3}
    U64 = 16
SPECIFICATION Spec
INVARIANT RedWithinBluesWhenDefined
