SPECIFICATION Spec
CONSTANTS
    answers = answers
    handler = handler
    sink = sink
    camera = camera
    mixer = mixer
    Writers = {answers, handler, sink, camera, mixer}
    Sides <- MCSides
    Foreign = {camera, mixer}
    Offers <- MCOffers
    Batch <- MCBatch
    MaxMsgs = 4
    DefaultSize = 2
    Limit24 = 7
    Wrap32 = 32
CHECK_DEADLOCK FALSE
INVARIANTS
    Framing
    MessagesIntact
    NothingLost
    EndsAgree
