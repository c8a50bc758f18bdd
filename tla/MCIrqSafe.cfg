\* Every thread against three kinds of guest.
CONSTANTS
    LinesPerChip = 4
    CascadeLine = 2
    VectorBases = {8, 112}
    Device = 3
    IrqPendingMax = 2
    KeyIrqMaxYield = 1
    IsrTimeoutsMax = 2
    Sessions <- SafeSessions
    TickDebtMax = 0
SPECIFICATION Spec
INVARIANTS TypeOK TickLatchExact DeviceLatchExact KeyLatchSound NotReentered EoiEndsOwnLine SuspendInterlock
