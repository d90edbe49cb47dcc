SPECIFICATION MCSpec
CONSTANTS
    FragmentSize = 2
    MaxMsgLen = 5
    MaxSize = 5
    ShortRange = 5
    MaxMessages = 3
    Lengths = {1, 3, 4, 5}
    Colours = {"a", "b"}
    Byte <- MCByte
    Message <- MCMessage
    a = a
    b = b
    oversize = oversize
    Empty = Empty
    Datagram <- MCDatagram
    Fitting <- MCFitting
    RingSize = 3
    MaxSent = 8
INVARIANTS TypeOK DeliveredIntact DeliveredInOrder SkippedWereOverwritten
PROPERTIES ImplementsOrderedChannel RingImplementsOrderedChannel
CHECK_DEADLOCK FALSE
