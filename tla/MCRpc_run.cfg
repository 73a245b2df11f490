\* Two clients, a procedure that the server does not have.
SPECIFICATION FairSpec
CONSTANTS
    Client = {c1, c2}
    RpcId = {0, 1, 7}
    Handlers = {0, 1}
    MaxCalls = 2
CHECK_DEADLOCK FALSE
INVARIANTS
    RepliesMatch
PROPERTIES
    AtMostOnce
    ReturnsUnlessBroken
