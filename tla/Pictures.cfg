SPECIFICATION FairSpec
CHECK_DEADLOCK FALSE
CONSTANTS
    Shower = {"pool"}
    Loader = {"server"}
    Rows <- MCRows
    Broken = {"broken"}
    NoBmp = {}
    NoPtn = {"a"}
    TableSize = 3
    Slots = 2
    MaxLoads = 2
    MaxShows = 2
    MaxRequests = 3
INVARIANTS
    NamesTellContents
    ShownIsAsked
    OneTransfer
    TaskReadsItsTable
PROPERTIES
    CallersReturn
