\* Two senders and two receivers on a connection that may break.
SPECIFICATION FairSpec
CONSTANTS
    Base = 2
    IntLen = 2
    Sender = {s1, s2}
    Receiver = {r1, r2}
    Data <- MCData
    MaxSends = 2
CHECK_DEADLOCK FALSE
PROPERTIES
    ImplementsFrameQ
    Delivered
