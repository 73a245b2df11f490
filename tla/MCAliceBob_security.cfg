\* An untrusted server, an honest auditor: the final check of testSecurity.
SPECIFICATION Spec
CONSTANTS
    a = a
    b = b
    p1 = p1
    p2 = p2
    NoPk = NoPk
    Uid <- MCUid
    Pk <- MCPk
    AliceUid = a
    BobUid = b
    MaxUint = 3
    NumPuts = 2
    MaxEpochs = 3
    Updates <- Maps
    PutReply <- MCPutReply
    GetReply <- MCGetReply
    SelfMonReply <- MCSelfMonReply
    WellFormed <- MCWellFormed
CHECK_DEADLOCK FALSE
INVARIANTS
    NoPanic
    EvidenceStands
    BobGotAliceKey
PROPERTY NeverRollsBack
