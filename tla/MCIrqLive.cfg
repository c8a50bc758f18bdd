\* Guests that leave guest code only in their handlers.
CONSTANTS
    LinesPerChip = 4
    CascadeLine = 2
    VectorBases = {8, 112}
    Device = 3
    IrqPendingMax = 1
    KeyIrqMaxYield = 1
    IsrTimeoutsMax = 2
    Sessions <- LiveSessions
    TickDebtMax = 0
SPECIFICATION FairSpec
PROPERTIES DeviceServed ClockNeverStops
