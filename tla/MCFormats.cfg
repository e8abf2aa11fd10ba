SPECIFICATION PartSpec
CONSTANTS
    Parts = {"bits", "numbers", "values", "mux", "parse"}
    ByteBits = 3
    InputBytes = 10
    MaxSkip = 31
    MaxRead = 10
    Tracks = {"video", "audio"}
    FrameLengths = {1, 70}
    SegDuration = 0
    AacConfig = 2
    MaxFrames = 6
INVARIANTS
    BufferIsTheStream
    CallsAsPromised
    ReadBack
    FragmentsComplete
    DataFound
    SizesAreTrue
    FileReadBack
PROPERTIES
    EveryCallReturns
