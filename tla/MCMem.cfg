\* Allocation calls, nested programs and resident programs; the promise on three segments.
CONSTANTS
    Top = 14
    DosOwner = 100
    EnvParas = 1
    ResidentParas = 0
    PspParas = 1
    CdsParas = 1
    SftParas = 1
    MaxDepth = 2
    Sessions <- SoundSessions
    Floor = 1
    Ceiling = 3
    SystemOwner = 100
    Initial <- MCInitial
    FirstProgram = 1
SPECIFICATION MemorySpec
INVARIANTS TypeOK ChainIntact AllocateExact ResidentKept BlocksSeparate
PROPERTIES ExitGivesBack ImplementsArena
