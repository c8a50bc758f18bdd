\* The timer handler executes STI before its EOI; the guest makes DOS calls.
CONSTANTS
    LinesPerChip = 4
    CascadeLine = 2
    VectorBases = {8, 112}
    Device = 3
    IrqPendingMax = 2
    KeyIrqMaxYield = 1
    IsrTimeoutsMax = 2
    Sessions <- StiAndDos
    TickDebtMax = 0
SPECIFICATION Spec
INVARIANT NotReentered
