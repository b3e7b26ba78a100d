CONSTANTS
    Kinds = {"ip4tcp", "ip6tcp", "ip4tcps", "ip4tcp-w32"}
    Sizes = {0, 1, 2, 3}
    RecvRoom = 2
    MaxMsgs = 2
    Room = 3
    Modulus = 5
SPECIFICATION FairSpec
INVARIANTS SuccessIsWhole DescriptorsClosed
PROPERTIES CallsReturn ImplementsChannel
CHECK_DEADLOCK FALSE
