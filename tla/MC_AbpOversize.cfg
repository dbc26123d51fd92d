\* --size 65532 = 3 + 3 * 21843: create_datagram accepts it, the network
\* does not carry it.
CONSTANTS
    Count = 1
    MaxRetries = 2
    Sizes = {65532}
    Fifo = TRUE
    MaxFaults = 0
    MaxQueue = 2
SPECIFICATION Spec
PROPERTY Termination
