SPECIFICATION FairSpec
CONSTANTS
    RtmpConns = {c1, c2}
    FlvConns = {}
    Publishers = {c1, c2}
    Players = {c1, c2}
    Keys = {k1}
    NoKey = NoKey
    NoReg = NoReg
    MaxCmds = 1
    MaxPuts = 1
    PipeCap = 1
    SrcCap = 3
    SinkCap = 2
CHECK_DEADLOCK FALSE
PROPERTIES
    RegisterAnswered
    TeardownReachesSinks
    WaiterConnected
