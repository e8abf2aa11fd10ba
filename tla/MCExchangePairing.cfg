SPECIFICATION MCSpec
CONSTANTS
    RtmpConns = {c1, c2, c3}
    FlvConns = {}
    Publishers = {c1, c2, c3}
    Players = {c1, c2, c3}
    Keys = {k1}
    NoKey = NoKey
    NoReg = NoReg
    MaxCmds = 1
    MaxPuts = 0
    PipeCap = 2
    SrcCap = 4
    SinkCap = 2
SYMMETRY ConnSymmetry
INVARIANTS
    WaitersHaveNoSource
    DeadSourceLeaves
