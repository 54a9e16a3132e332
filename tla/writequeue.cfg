SPECIFICATION FairSpec
CONSTANTS
    Kinds = {"p2p", "p2pclient"}
    MaxFrame = 7
    Size <- MCSize
    max_queue = 1
INVARIANTS TypeOK Intact HelloFirst NoStall PacketsAccounted
PROPERTIES OnlyOverflowLoses Delivered
