SPECIFICATION Spec
CONSTANTS
    g = g
    p = p
    a = a
    b = b
    Cards = {g, p}
    Choices <- MCChoices
    Sections = {1, 2}
    Pages <- MCPages
    Unwanted = {b}
    MinActive = 2
    Num = 1
    Den = 2
    NoRow = NoRow
    Off = Off
INVARIANT TypeOK
PROPERTIES SuccessIsTheTruth ListedOnce HeldWhereItIs
