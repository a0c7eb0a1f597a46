SPECIFICATION FairSpec
CONSTANTS
    Pollers = {tick}
    Tick = tick
    Prices = {1, 2}
    Terms <- MCLower
    Start <- MCStart
    MaxMoves = 1
    MaxEdits = 1
PROPERTIES
    DueIsTold
    CatchesUp
