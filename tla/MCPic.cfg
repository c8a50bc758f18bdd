\* Both chips under a guest that programs them.
CONSTANTS
    LinesPerChip = 3
    CascadeLine = 2
    VectorBases = {8, 112}
    RaisedIrqs = {0, 1, 3}
    Icw1Used <- MCIcw1
    MasksUsed <- MCMasks
    Ocw2Used <- MCOcw2
    Ocw3Used <- MCOcw3
SPECIFICATION Spec
INVARIANTS TypeOK PollOffersHighest
PROPERTIES NestingRespected SlaveLockedOut
