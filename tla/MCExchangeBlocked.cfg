SPECIFICATION FairSpec
CONSTANTS
    RtmpConns = {c1, c2, c3}
    FlvConns = {}
    Publishers = {c1}
    Players = {c2, c3}
    Keys = {k1}
    NoKey = NoKey
    NoReg = NoReg
    MaxCmds = 1
    MaxPuts = 1
    PipeCap = 2
    SrcCap = 1
    SinkCap = 2
CHECK_DEADLOCK FALSE
PROPERTIES
    RegisterAnswered
