\* A client and a server exchange one request and one of six answers.
CONSTANTS
    Headers <- HeaderLines
    LengthOf <- Lengths
    ChunkSize <- Sizes
    Request <- TwoBytes
    Settings <- Exchanges
    InitialCapacity = 1
    ReadSize = 8
    Room = 5
    Junk = Junk
SPECIFICATION FairSpec
INVARIANTS
    StreamsAreExact
    BufferHoldsUnread
    ResponseAsSent
    CompleteIsAnswered
PROPERTIES
    RequestReturns
\* The exchange ends, and a connection that is kept open may stay silent.
CHECK_DEADLOCK FALSE
