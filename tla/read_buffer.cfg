SPECIFICATION Spec
CONSTANTS
    ReadBufSize = 7
    Frames <- FrameSet
    MaxFrames = 3
INVARIANTS
    RoomLeft
    InBuffer
    InStep
    NoneWaiting
    LegalAccepted
PROPERTIES
    Framing
