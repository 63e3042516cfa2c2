CONSTANTS
    AliveTimeout = 2
    MaxFd = 2
    MaxOutages = 1
    Punctual = FALSE
    Undisturbed = FALSE
SPECIFICATION Spec
INVARIANT LinkStateConsistent
INVARIANT CloseOnlyOwn
PROPERTY DropsOnlyExpired
