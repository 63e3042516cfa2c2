CONSTANTS
    Senders = {s1, s2}
    Receivers = {r1, r2}
    Timed = {s1, r1}
    maxNumOfMsgs = 2
    Msgs = {1, 2, 3}
    Oversize = {2}
SPECIFICATION FairSpec
INVARIANT SemaphoresCount
INVARIANT MessagesIntact
PROPERTY ImplementsFifo
PROPERTY EverySentArrives
CHECK_DEADLOCK FALSE
