\* Wire: every type; messages that arrive, or are cut, extended or altered.
\* Compiler: structs of one and two fields.
\* Vrf: a curve of 14 points; challenges congruent modulo the cofactor.
SPECIFICATION LibSpec
CONSTANTS
    Base = 3
    IntLen = 2
    HashLen = 2
    Updates <- MCUpdates
    Messages <- MCMessages
    Files <- MCFiles
    NoConst = NoConst
    Ints = {0, 5}
    Data <- MCData
    Order = 7
    Cofactor = 2
    NumChallenges = 4
    MaxTries = 2
CHECK_DEADLOCK FALSE
INVARIANTS
    RoundTrip
    ExactlyEncodes
    HashInputsDistinct
    GeneratedRoundTrip
    OneOutput
    LabelsDistinct
