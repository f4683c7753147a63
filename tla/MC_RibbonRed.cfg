CONSTANTS
    Windows <- MCWindows
    Volumes = {0, 1}
    Blues = {0, 2}
    U64 = 16
SPECIFICATION Spec
INVARIANT RedWithinBlues
