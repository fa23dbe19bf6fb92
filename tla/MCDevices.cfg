CONSTANTS
    UserTick = 1
    SystemTick = 2
    ConsoleTime = 4
    TimerTicks = 2
    RotationTime = 3
    SeekTime = 4
    SectorsPerTrack = 3
    NumTracks = 2
    NULL = NULL
    EOF = "EOF"
    u = u
    v = v
    User = {u, v}
    Echo = Echo
    Client = Client
    Char = {"a", "b", "q"}
    Keyboard <- Typed
    Settings <- AllSettings

SPECIFICATION Spec
INVARIANTS DevicesInv HaltsWhenDone EchoesInput LatencyIsRotation SliceBounded
CHECK_DEADLOCK FALSE
