\* Two packets on an order-keeping network, ordinary datagram size.
CONSTANTS
    Count = 2
    MaxRetries = 2
    Sizes = {9}
    Fifo = TRUE
    MaxFaults = 0
    MaxQueue = 2
SPECIFICATION Spec
INVARIANT ValidWasReceived
