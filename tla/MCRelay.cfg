SPECIFICATION Spec
CONSTANTS
    K = 2
    BLKSIZE = 2
    BUFSIZE = 5
    Pairs <- MCPairs
    Stdins <- MCStdins
INVARIANTS
    NotBothWaitToWrite
    BytesInOrder
    UnconnectedTakesNothing
PROPERTIES
    PeersEnd
    Delivers
\* Both have ended, or nobody types any more.
CHECK_DEADLOCK FALSE
