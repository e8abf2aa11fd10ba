SPECIFICATION MCSpec
CONSTANTS
    RtmpConns = {c1}
    FlvConns = {f1}
    Publishers = {c1, f1}
    Players = {c1, f1}
    Keys = {k1}
    NoKey = NoKey
    NoReg = NoReg
    MaxCmds = 2
    MaxPuts = 0
    PipeCap = 2
    SrcCap = 2
    SinkCap = 2
CHECK_DEADLOCK FALSE
INVARIANTS
    OnePlace
    PanicHasACause
