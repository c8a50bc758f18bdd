\* Both devices of the controller, with its queues at their smallest.
CONSTANTS
    ScanCodeQueueSize = 7
    AuxQueueSize = 8
    KbBudgets <- MCKbBudgets
SPECIFICATION KbFairSpec
INVARIANTS NeverTranslatedTwice NoStuckCtrl MouseBytesKept
PROPERTIES PresentedHeld KeyAnnounced
