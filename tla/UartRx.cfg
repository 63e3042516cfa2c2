CONSTANTS
    UART_BUF_SIZE = 12
    Answers <- MCShortAnswers
    Noise <- MCNoise
    MaxNoise = 1
    MaxFaults = 1
    Timeouts = TRUE
    Late = TRUE
    Events = 1
    MaxDisturbances = 2
SPECIFICATION FairSpec
INVARIANT CatchInBounds
INVARIANT PayloadsIntact
INVARIANT StaleAnswersFlushed
PROPERTY EveryCommandAnswered
CHECK_DEADLOCK FALSE
