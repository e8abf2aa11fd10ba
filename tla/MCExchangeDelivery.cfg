SPECIFICATION MCSpec
CONSTANTS
    RtmpConns = {c1}
    FlvConns = {f1}
    Publishers = {c1, f1}
    Players = {c1, f1}
    Keys = {k1}
    NoKey = NoKey
    NoReg = NoReg
    MaxCmds = 1
    MaxPuts = 3
    PipeCap = 1
    SrcCap = 2
    SinkCap = 2
CONSTRAINT OnePublisher
CHECK_DEADLOCK FALSE
INVARIANTS
    TypeOK
    KeyIsolation
    PlayableStream
    KeepsUpOrCancelled
PROPERTIES
    ImplementsBroadcast
