SPECIFICATION Spec
CONSTANTS
    Pollers = {tick, page}
    Tick = tick
    Prices = {1, 2}
    Terms <- MCTerms
    Start <- MCStart
    MaxMoves = 1
    MaxEdits = 2
INVARIANTS
    TypeOK
PROPERTIES
    NeverTwice
    OneReturnOneMail
