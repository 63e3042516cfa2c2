CONSTANTS
    maxLen = 8
    ChunkMax = 4
    HeadLen = 2
    CrcLen = 1
    Messages <- MCMessages
    Concurrency = 1
    MaxCuts = 1
SPECIFICATION Spec
INVARIANT BufferIsStream
INVARIANT CommandsIntact
INVARIANT WholePackages
