CONSTANTS
    Total = 3
    MaxInflight = 2
    Drawn <- MCDrawn
    Seconds = 2
    MaxFaults = 1
    Word = 8
SPECIFICATION FairSpec
INVARIANTS TypeOK OpenAreCounted SamplesAreTrue
PROPERTY Ends
