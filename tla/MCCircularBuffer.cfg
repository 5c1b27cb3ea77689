SPECIFICATION BufferSpec
CONSTANTS
    Size = 6
    Byte = {x, y}
    NULL = NULL
    NoSend = NoSend
    MaxChunk = 3
    Chunk <- MCChunk
    Count <- MCCount
INVARIANTS BufferSound SendIntact FrameWhole
PROPERTIES ImplementsFifo
CHECK_DEADLOCK TRUE
