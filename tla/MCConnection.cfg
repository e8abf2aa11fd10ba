SPECIFICATION PartSpec
CONSTANTS
    Listeners = {"rtmp", "rtmps"}
    Peers = {"a", "b", "c"}
    MaxFailures <- MCMaxFailures
    Timeout = 4
    SockBuffer = 3
INVARIANTS
    OnlyTheQuietEnd
PROPERTIES
    TalkerServed
    HonestGetThrough
    DeadConnectionEnds
