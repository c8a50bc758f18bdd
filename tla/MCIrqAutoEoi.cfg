\* The auto-EOI fallback for a timer handler that sends no EOI.
CONSTANTS
    LinesPerChip = 4
    CascadeLine = 2
    VectorBases = {8, 112}
    Device = 3
    IrqPendingMax = 2
    KeyIrqMaxYield = 1
    IsrTimeoutsMax = 1
    Sessions <- EoilessAndDos
    TickDebtMax = 0
SPECIFICATION Spec
INVARIANT TickLatchExact
