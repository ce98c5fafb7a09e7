SPECIFICATION ChannelSpec
CONSTANTS
    Base = 2
    MaxFrameSize = 2
    ReadChunk = 5
    MaxBytes = 24
    Sendable <- Texts
    MaxMessages = 3
INVARIANTS
    BufferBound
    MatchesReference
PROPERTIES
    ImplementsStream
    AllDelivered
