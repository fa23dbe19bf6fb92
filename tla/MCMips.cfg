SPECIFICATION Spec
CONSTANTS
    ByteBits = 2
    GPR <- SomeGPR
    MemBytes = 16
    Thread <- TwoThreads
    u1 = u1
    u2 = u2
    None = None
    Settings <- MCSettings
SYMMETRY Symmetry
CHECK_DEADLOCK FALSE
INVARIANTS
    RegistersInv
    SameAsExecute
    OverflowIsExact
    MultDivAreExact
