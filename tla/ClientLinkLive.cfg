CONSTANTS
    AliveTimeout = 2
    MaxFd = 7
    MaxOutages = 1
    Punctual = TRUE
    Undisturbed = TRUE
SPECIFICATION FairSpec
PROPERTY ConnectedAgain
PROPERTY OutageNoticed
