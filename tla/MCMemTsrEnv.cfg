\* Resident programs below one that frees its environment.
CONSTANTS
    Top = 14
    DosOwner = 100
    EnvParas = 1
    ResidentParas = 0
    PspParas = 1
    CdsParas = 1
    SftParas = 1
    MaxDepth = 2
    Sessions <- ResidentsAndFreedEnvs
SPECIFICATION Spec
INVARIANT ResidentKept
