SPECIFICATION MCSpecImmediate
CONSTANTS
    FragmentSize = 2
    MaxMsgLen = 5
    MaxSize = 5
    ShortRange = 5
    MaxMessages = 3
    Lengths = {1, 4, 5}
    Colours = {"a", "b"}
    Byte <- MCByte
    Message <- MCMessage
    a = a
    b = b
    oversize = oversize
    Empty = Empty
    Datagram <- MCDatagram
    Fitting <- MCFitting
    RingSize = 3
    MaxSent = 8
INVARIANTS DeliveredInOrder BytesInPlace
CHECK_DEADLOCK FALSE
