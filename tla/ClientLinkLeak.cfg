CONSTANTS
    AliveTimeout = 2
    MaxFd = 2
    MaxOutages = 1
    Punctual = TRUE
    Undisturbed = FALSE
SPECIFICATION Spec
INVARIANT AllConnectionsClosed
