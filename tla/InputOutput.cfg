\* Messages of up to three bytes, of which two may wait; texts of every length and
\* pings; bytes of four values; documents three levels deep.
CONSTANTS
    MaxQueueItems = 2
    Lengths = {1, 2, 3}
    MaxAccepted = 7
    SingleByteLength = 3
    LongestTwoByte = 4
    MaxFrameSize = 5
    MaxReadBuffer = 19
    MaxHandshakeBuffer = 5
    RecvSize = 10
    MaxRepeat = 2
    RequestSizes = {4, 16}
    Frames <- MCFrames
    MaxSending = 3
    Base = 4
    ByteXor <- MCByteXor
    ShortPayload = 1
    LongestPayload = 20
    MaskingKeys <- MCMaskingKeys
    MaxLength = 22
SPECIFICATION MCSpec
INVARIANTS
    QueueOK InputOK FramesOK DocumentsOK
PROPERTIES
    ImplementsByteStream Delivery OverflowIsBacklog Progress
\* A closed connection does nothing more.
CHECK_DEADLOCK FALSE
