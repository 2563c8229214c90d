SPECIFICATION Spec
CONSTANTS
    MapTo <- MapToProto
    MapFrom <- ToDomain
    Travelled <- Received
    SizeVT <- SizeEvent
    MarshalVT <- MarshalEvent
    UnmarshalVT <- UnmarshalEvent
    Newer <- WithField
    Senders = {w1, w2}
    Events <- MCEvents
    NewFields <- MCNewFields
    DefaultBufferSize = 32
    MaxBreaks = 1
INVARIANTS CodecAgrees TypeOK RoundTrip BrokenIsSeen
CHECK_DEADLOCK FALSE
