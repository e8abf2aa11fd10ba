SPECIFICATION PartSpec
CONSTANTS
    Parts = {"mux"}
    ByteBits = 3
    InputBytes = 10
    MaxSkip = 31
    MaxRead = 10
    Tracks = {"video", "audio"}
    FrameLengths = {1, 70}
    SegDuration = 0
    AacConfig = 2
    MaxFrames = 5
INVARIANTS
    OffsetsLeadToData
