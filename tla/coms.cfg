SPECIFICATION FairSpec
CONSTANTS
    num = 2
    RbufSize = 3
    UNPACKBUFFSIZE = 10
    ByteXor <- MCXor
    Streams <- MCStreams
INVARIANTS TypeOK NothingLost FramesFound
PROPERTY AllScanned
