\* Honest server and auditors: no check fails, and the test ends, with another
\* user who puts meanwhile, or stops.
SPECIFICATION SysFairSpec
CONSTANTS
    Alice = Alice
    Bob = Bob
    Carol = Carol
    Pusher = Pusher
    Uid <- MCUid
    Thread <- MCThread
    p1 = p1
    p2 = p2
    Pk <- MCPk
    Keys <- MCKeys
    NoPk = NoPk
    MaxUint = 9
    MaxEpochs = 5
    NumPuts = 2
    NumAdtrs = 2
CHECK_DEADLOCK FALSE
INVARIANTS
    NothingFails
    VersionsAgree
    AuditorsInSync
    BobGotAliceKey
PROPERTY Finishes
