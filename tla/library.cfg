CONSTANTS
    h1 = h1
    h2 = h2
    Key = {1, 2, 3, 4, 5, 6}
    ValueOf <- MCValueOf
    Memory = 6
    Files <- MCFiles
    Host = h1
    Unset = Unset
    MaxId = 2
    Hops = 3
    MaxLoads = 2
    NANOSMOD = 100
    Word = 8
SPECIFICATION Spec
INVARIANTS TreeIsMap SetUpAsWritten ComputedRight
\* The manager is started MaxLoads times, and the functions only compute.
CHECK_DEADLOCK FALSE
