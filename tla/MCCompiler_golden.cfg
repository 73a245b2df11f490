\* The test data of the compiler.
SPECIFICATION CompilerSpec
CONSTANTS
    Base = 3
    IntLen = 2
    Files <- MCGolden
    NoConst = NoConst
    Ints = {0, 5}
    Data <- MCData
CHECK_DEADLOCK FALSE
INVARIANT GeneratedBuilds
