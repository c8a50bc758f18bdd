\* Every part that is checked on its own.
CONSTANTS
    PitByte = 2
    MaxTotalClocks = 6
    MaxSyncClocks = 3
    GuestModes = {0, 1, 3}
    PitBudgets <- MCPitBudgets
    RtcSecond = 2
    RtcPeriod = 1
    AlarmSecond = 1
    RtcDelay = 2
    RtcEnd = 3
    RtcGuestOps = 3
    ClockDay = 8
    TickUnits = 2
    ClockStarts <- MCClockStarts
    ClockDates <- MCClockDates
    FieldValues <- MCFieldValues
    ClockOps = 2
    ClockEnd = 11
    KbBytes = 2
    XmsHandles = {1, 2}
    MaxLockCount = 2
    TotalKb = 3
    DirectEnd = 2
    RawEnd = 6
    HeapBases = {4, 8}
    XmsSizes = {0, 1, 2}
    MoveLengths = {1, 2}
    XmsOps = 4
    EmsHandles = {0, 1}
    Windows = {0, 1}
    TotalPages = 3
    PageCounts = {0, 1, 2}
    PageValues = {0, 1}
    EmsGuests = {"onePlace"}
    EmsCalls = 7
    MaxFiles = 4
    DevSlots = 3
    StdHandles = 2
    HostHandles = {1, 2, 3, 4}
    SftIndexes = {3, 4, 5, 6}
    Files = {100, 101}
    HandleStackDepth = 2
    HandleGuests = {"duplicates", "redirects"}
    MaxPrograms = 3
    HandleCalls = 5
    WowTaskCount = 4
    WowSchedMax = 3
    WowCallMax = 3
    WowStackRoom = 3
    WowQueueMax = 1
    WowGuests <- SoundGuests
SPECIFICATION MachineSpec
INVARIANTS IrqsMatchElapsed CountsInForce GatePauses FlagsReachReader RtcReadsTrue DosReadsTrue BlocksKeepContents LockHolds WritesSurvive HostHandlesExact StandardHandlesReach CallbacksLifo StacksApart CurrentFollows
CHECK_DEADLOCK FALSE
