CONSTANTS
    UART_BUF_SIZE = 14
    Answers <- MCTwoAnswers
    Noise <- MCNoise
    MaxNoise = 0
    MaxFaults = 1
    Timeouts = FALSE
    Late = FALSE
    Events = 0
    MaxDisturbances = 2
SPECIFICATION Spec
INVARIANT DamageIsAnError
CHECK_DEADLOCK FALSE
